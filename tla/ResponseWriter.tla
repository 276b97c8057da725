--------------------------- MODULE ResponseWriter ---------------------------
(***************************************************************************)
(* What leaves a connection, byte by byte: the response a handler made,    *)
(* what apply_http_semantics (src/src/server/Server.cpp) makes of it, and  *)
(* the parts of write_data (src/src/net/Connection.cpp), with the          *)
(* direction the loop arms after each call and, under TLS, the one OpenSSL *)
(* query for.  One connection; Server has the rest of its life, its close  *)
(* and its deadlines.                                                      *)
(*                                                                         *)
(* A byte of a body is its offset.  A request is a whole one: HttpParser   *)
(* has the requests that arrive in pieces.  A socket is writable while     *)
(* there is room in it, and the loop modifies the registration at each     *)
(* rearm, so that what is ready then is reported.  TLS 1.3, or 1.2 without *)
(* renegotiation: past the handshake SSL_read wants to read and SSL_write  *)
(* to write.                                                               *)
(*                                                                         *)
(* An operator whose name starts with Faulty is a mutant of the definition *)
(* that follows it.                                                        *)
(***************************************************************************)
EXTENDS Integers, Sequences

CONSTANTS
  Transports,  \* of "plain" and "tls"
  FileSizes,   \* sizes the file may have
  TextSize,    \* length of a body that is not a file
  HeaderSize,  \* length of the status line and headers
  Room,        \* what the socket's send buffer takes
  Blank, Junk, \* a bound of a range left out; one std::stoll refuses
  NoRange,     \* no Range header, or none of the form bytes=a-b
  MaxAnswers,  \* bound: requests a client sends
  MaxChanges   \* bound: changes to the file

ASSUME WriterAssumption ==
  /\ Transports \subseteq {"plain", "tls"}
  /\ FileSizes \subseteq Nat
  /\ {TextSize, MaxAnswers, MaxChanges} \subseteq Nat
  /\ {HeaderSize, Room} \subseteq Nat \ {0}
  /\ Blank \notin Int /\ Junk \notin Int /\ Blank # Junk

VARIABLES
  link,    \* ssl_, tls_handshake_done_, tls_want_ and the direction armed
  sent,    \* history: requests the client has sent
  unread,  \* whole requests in the socket
  queued,  \* whole requests in read_buffer_
  stage,   \* where the request in hand is: see WriterTypeOK
  query,   \* the request in hand
  reply,   \* the HttpResponse made for it
  out,     \* raw_headers_to_send_ and what follows it
  room,    \* what the send buffer still takes
  disk,    \* the file: its name, its size, and the changes made to it
  got,     \* history: the bytes of the body the socket took
  harmed   \* history: the file went, or became too short for what is to be sent

writerVars == <<link, sent, unread, queued, stage, query, reply, out, room,
                disk, got, harmed>>

Least(a, b) == IF a <= b THEN a ELSE b
Greatest(a, b) == IF a >= b THEN a ELSE b

-----------------------------------------------------------------------------
(* Clients.                                                                *)

Bounds(numbers) == {Blank, Junk} \cup numbers
Ranges == [first : Bounds(FileSizes), last : Bounds(FileSizes \cup {-1, 1})]

Ask(method, file, inm, ims, range) ==
  [method |-> method, file |-> file, inm |-> inm, ims |-> ims, range |-> range]

\* A client asks for the file or for something else; with the entity tag or the
\* date of what it has, which may be those of the file; for all of it or a range.
ClientQueries ==
  {Ask(m, TRUE, inm, ims, NoRange) :
     m \in {"GET", "HEAD", "POST"},
     inm \in {"absent", "matches", "differs"},
     ims \in {"absent", "current", "older"}}
  \cup {Ask(m, TRUE, inm, "absent", r) :
          m \in {"GET"}, inm \in {"absent"}, r \in Ranges}
  \cup {Ask(m, TRUE, inm, "absent", [first |-> 1, last |-> Blank]) :
          m \in {"GET", "HEAD"}, inm \in {"matches", "differs"}}
  \cup {Ask(m, FALSE, "absent", "absent", NoRange) : m \in {"GET", "HEAD"}}

\* The bytes a range names in a file of that size: what the client means.
Named(range, size) ==
  IF Junk \in {range.first, range.last} \/ (range.first = Blank /\ range.last = Blank)
  THEN {}
  ELSE {i \in 0..size - 1 :
          IF range.first = Blank THEN i >= size - range.last
          ELSE i >= range.first /\ (range.last = Blank \/ i <= range.last)}

-----------------------------------------------------------------------------
(* The response.                                                           *)

NoReply == [status |-> 0, measured |-> TRUE, length |-> 0, size |-> 0, head |-> FALSE,
            file |-> FALSE, from |-> 0, count |-> -1]

\* HttpResponse::body announces its text, HttpResponse::file the whole file; it
\* leaves Content-Length out if there is none to be measured.
Made(q) ==
  [NoReply EXCEPT !.status = 200, !.file = q.file,
                  !.measured = ~q.file \/ disk.linked,
                  !.length = IF ~q.file THEN TextSize
                             ELSE IF disk.linked THEN disk.size ELSE 0]

\* If-None-Match takes precedence over If-Modified-Since.
NotModified(q) ==
  IF q.inm # "absent" THEN q.inm = "matches" ELSE q.ims = "current"

\* The last byte is not kept within the file.
FaultySpan(range, size) ==
  IF range.first = Blank
  THEN [first |-> Greatest(0, size - range.last), last |-> size - 1]
  ELSE [first |-> range.first,
        last |-> IF range.last = Blank THEN size - 1 ELSE range.last]

\* First and last byte of a range.
Span(range, size) ==
  IF range.first = Blank
  THEN [first |-> IF range.last >= size THEN 0 ELSE size - range.last,
        last |-> size - 1]
  ELSE [first |-> range.first,
        last |-> IF range.last = Blank THEN size - 1
                 ELSE Least(range.last, size - 1)]

Satisfiable(range, size) ==
  /\ size > 0
  /\ Junk \notin {range.first, range.last}
  /\ range.first = Blank => range.last # Blank /\ range.last > 0
  /\ 0 <= Span(range, size).first
  /\ Span(range, size).first <= Span(range, size).last

\* A response that says why there is no body.
Bodiless(r, status) ==
  [r EXCEPT !.status = status, !.measured = TRUE, !.length = 0, !.head = TRUE,
            !.from = 0, !.count = 0]

Whole(r) == [r EXCEPT !.from = 0, !.count = r.size]

Partial(r, span) ==
  [r EXCEPT !.status = 206, !.measured = TRUE, !.from = span.first,
            !.length = span.last - span.first + 1,
            !.count = span.last - span.first + 1]

Semantics(q, r) ==
  LET asked == [r EXCEPT !.head = q.method = "HEAD"]
      found == [asked EXCEPT !.size = disk.size]
  IN  IF ~r.file \/ ~disk.linked THEN asked
      ELSE IF q.method \in {"GET", "HEAD"} /\ NotModified(q) THEN Bodiless(found, 304)
      ELSE IF q.range = NoRange THEN Whole(found)
      ELSE IF ~Satisfiable(q.range, disk.size) THEN Bodiless(found, 416)
      ELSE Partial(found, Span(q.range, disk.size))

-----------------------------------------------------------------------------
(* The output of the connection.                                           *)

NoOutput == [headers |-> 0, headOnly |-> FALSE, source |-> "none",
             offset |-> 0, left |-> 0]

\* A file that cannot be opened leaves the headers alone.
SetResponseContent(r) ==
  LET start == [NoOutput EXCEPT !.headers = HeaderSize, !.headOnly = r.head] IN
  IF ~r.file THEN [start EXCEPT !.source = "text", !.left = TextSize]
  ELSE IF ~disk.linked THEN start
  ELSE [start EXCEPT !.source = "file", !.offset = r.from,
                     !.left = IF r.count < 0 THEN Greatest(0, disk.size - r.from)
                              ELSE r.count]

HasDataToWrite(o) == o.headers > 0 \/ (~o.headOnly /\ o.left > 0)

\* How much of the body one call gets out into that space: sendfile until it
\* would block or the file ends, the text in one send, or one record of it.
BodyTaken(space) ==
  IF out.headOnly THEN 0
  ELSE IF out.source = "file"
  THEN Least(space, Least(out.left, Greatest(0, disk.size - out.offset)))
  ELSE Least(space, IF link.tls THEN Least(1, out.left) ELSE out.left)

\* Would the next SSL_write of that call block?
Blocks(space, taken) ==
  /\ ~out.headOnly
  /\ out.left > taken
  /\ taken = space
  /\ IF out.source = "file" THEN disk.size > out.offset + taken ELSE space = 0

\* A short write counts for a whole one.
FaultyWriteData ==
  LET space == room - out.headers IN
  IF space < 0
  THEN [headers |-> room, body |-> 0, out |-> [out EXCEPT !.headers = @ - room],
        want |-> IF link.tls THEN "write" ELSE link.want]
  ELSE [headers |-> out.headers, body |-> BodyTaken(space),
        out |-> [out EXCEPT !.headers = 0, !.offset = @ + Least(out.left, Room),
                            !.left = @ - Least(out.left, Room)],
        want |-> IF link.tls /\ Blocks(space, BodyTaken(space)) THEN "write"
                 ELSE link.want]

\* write_data: what one call gets out, what is left, and tls_want_.
WriteData ==
  LET space == room - out.headers IN
  IF space < 0
  THEN [headers |-> room, body |-> 0, out |-> [out EXCEPT !.headers = @ - room],
        want |-> IF link.tls THEN "write" ELSE link.want]
  ELSE [headers |-> out.headers, body |-> BodyTaken(space),
        out |-> [out EXCEPT !.headers = 0, !.offset = @ + BodyTaken(space),
                            !.left = @ - BodyTaken(space)],
        want |-> IF link.tls /\ Blocks(space, BodyTaken(space)) THEN "write"
                 ELSE link.want]

-----------------------------------------------------------------------------
(* The loop.                                                               *)

WriterInit ==
  /\ link \in {[tls |-> t = "tls", shaken |-> t = "plain",
                want |-> "read", armed |-> "read"] : t \in Transports}
  /\ sent = 0 /\ unread = 0 /\ queued = 0
  /\ stage = "idle"
  /\ query = Ask("GET", FALSE, "absent", "absent", NoRange)
  /\ reply = NoReply
  /\ out = NoOutput
  /\ room = Room
  /\ disk \in [linked : {TRUE}, size : FileSizes, changes : {0}]
  /\ got = <<>>
  /\ harmed = FALSE

\* dispatch_next with that many requests in the buffer: one goes to a worker, or
\* the loop waits for more, in the direction TLS asked for last.
DispatchNext(buffered, now) ==
  /\ reply' = NoReply
  /\ harmed' = FALSE
  /\ IF buffered > 0
     THEN /\ queued' = buffered - 1
          /\ stage' = "dispatched"
          /\ query' \in ClientQueries
          /\ link' = [now EXCEPT !.armed = "none"]
     ELSE /\ queued' = 0
          /\ stage' = "idle"
          /\ query' = Ask("GET", FALSE, "absent", "absent", NoRange)
          /\ link' = [now EXCEPT
                        !.armed = IF now.tls /\ now.want = "write" THEN "write"
                                  ELSE "read"]

\* read_data takes all there is; under TLS, until SSL_read wants to read.
ReadData(now) ==
  /\ unread' = 0
  /\ DispatchNext(queued + unread,
                  IF now.tls THEN [now EXCEPT !.want = "read"] ELSE now)

HandleClientData ==
  /\ link.armed = "read" /\ link.shaken
  /\ unread > 0
  /\ ReadData(link)
  /\ UNCHANGED <<sent, out, room, disk, got>>

\* SSL_accept on an event: it is done, or wants one of the two.
DriveHandshake ==
  /\ ~link.shaken
  /\ \/ \E want \in {"read", "write"} :
          /\ link' = [link EXCEPT !.want = want, !.armed = want]
          /\ UNCHANGED <<unread, queued, stage, query, reply, harmed>>
     \/ /\ link.armed = "read"
        /\ ReadData([link EXCEPT !.shaken = TRUE])
     \/ /\ link.armed = "write"
        /\ link' = [link EXCEPT !.shaken = TRUE, !.armed = "read"]
        /\ UNCHANGED <<unread, queued, stage, query, reply, harmed>>
  /\ UNCHANGED <<sent, out, room, disk, got>>

SendResponse ==
  LET written == WriteData
      now == [link EXCEPT !.want = written.want, !.armed = "write"]
  IN  /\ room' = room - written.headers - written.body
      /\ got' = got \o [i \in 1..written.body |-> out.offset + i - 1]
      /\ IF HasDataToWrite(written.out)
         THEN /\ out' = written.out
              /\ link' = now
              /\ UNCHANGED <<queued, stage, query, reply, harmed>>
         ELSE /\ out' = NoOutput
              /\ DispatchNext(queued, now)

HandleWriteReady ==
  /\ link.armed = "write" /\ link.shaken
  /\ room > 0
  /\ SendResponse
  /\ UNCHANGED <<sent, unread, disk>>

\* A worker runs the handler, then apply_http_semantics.
RunHandler ==
  /\ stage = "dispatched"
  /\ stage' = "made"
  /\ reply' = Made(query)
  /\ UNCHANGED <<link, sent, unread, queued, query, out, room, disk, got, harmed>>

ApplyHttpSemantics ==
  /\ stage = "made"
  /\ stage' = "applied"
  /\ reply' = Semantics(query, reply)
  /\ UNCHANGED <<link, sent, unread, queued, query, out, room, disk, got, harmed>>

\* The loop takes the response over.
ProcessCompletion ==
  /\ stage = "applied"
  /\ stage' = "writing"
  /\ out' = SetResponseContent(reply)
  /\ link' = [link EXCEPT !.armed = "write"]
  /\ got' = <<>>
  /\ UNCHANGED <<sent, unread, queued, query, reply, room, disk, harmed>>

-----------------------------------------------------------------------------
(* The client and the file.                                                *)

ClientSends ==
  /\ sent < MaxAnswers
  /\ sent' = sent + 1
  /\ unread' = unread + 1
  /\ UNCHANGED <<link, queued, stage, query, reply, out, room, disk, got, harmed>>

ClientReads ==
  /\ room' \in room + 1..Room
  /\ UNCHANGED <<link, sent, unread, queued, stage, query, reply, out, disk, got, harmed>>

\* Has a response more to send than the first n bytes of the file?  Before
\* apply_http_semantics it is not settled what it sends.
NeedsMoreThan(n) ==
  /\ reply.file /\ ~reply.head
  /\ \/ stage = "applied" /\ n < reply.from + reply.count
     \/ stage = "writing" /\ n < out.offset + out.left

ResizeFile ==
  /\ disk.linked /\ disk.changes < MaxChanges
  /\ \E n \in FileSizes \ {disk.size} :
       /\ disk' = [disk EXCEPT !.size = n, !.changes = @ + 1]
       /\ harmed' = (harmed \/ NeedsMoreThan(n))
  /\ UNCHANGED <<link, sent, unread, queued, stage, query, reply, out, room, got>>

\* What is open stays readable.
RemoveFile ==
  /\ disk.linked /\ disk.changes < MaxChanges
  /\ disk' = [disk EXCEPT !.linked = FALSE, !.changes = @ + 1]
  /\ harmed' = (harmed \/ (reply.file /\ stage \in {"made", "applied"}))
  /\ UNCHANGED <<link, sent, unread, queued, stage, query, reply, out, room, got>>

\* The client has all it asked for.
WriterRests ==
  /\ stage = "idle" /\ sent = MaxAnswers /\ unread = 0
  /\ UNCHANGED writerVars

WriterNext ==
  \/ HandleClientData \/ DriveHandshake \/ HandleWriteReady
  \/ RunHandler \/ ApplyHttpSemantics \/ ProcessCompletion
  \/ ClientSends \/ ClientReads \/ ResizeFile \/ RemoveFile
  \/ WriterRests

\* The loop and the workers run, one of them at a time has this connection in its
\* hands, and the client reads what it is sent.
WriterWork ==
  \/ HandleClientData \/ HandleWriteReady
  \/ RunHandler \/ ApplyHttpSemantics \/ ProcessCompletion

WriterFairness == WF_writerVars(WriterWork) /\ WF_writerVars(ClientReads)

WriterSpec == WriterInit /\ [][WriterNext]_writerVars /\ WriterFairness

-----------------------------------------------------------------------------
(* Properties.                                                             *)

WriterTypeOK ==
  /\ link \in [tls : BOOLEAN, shaken : BOOLEAN, want : {"read", "write"},
               armed : {"read", "write", "none"}]
  /\ {sent, unread, queued, room} \subseteq Nat
  /\ stage \in {"idle", "dispatched", "made", "applied", "writing"}
  /\ query \in ClientQueries
  /\ reply \in [status : {0, 200, 206, 304, 416}, measured : BOOLEAN, length : Nat,
                size : Nat, head : BOOLEAN, file : BOOLEAN, from : Nat, count : Nat \cup {-1}]
  /\ out \in [headers : Nat, headOnly : BOOLEAN, source : {"none", "file", "text"},
              offset : Nat, left : Nat]
  /\ disk \in [linked : BOOLEAN, size : Nat, changes : Nat]
  /\ got \in Seq(Nat)
  /\ harmed \in BOOLEAN

\* A whole file goes out as long as apply_http_semantics finds it, under the length
\* that HttpResponse::file announced: another one, if the file was resized in between,
\* and none, if it was not there.
Mislabelled(r) ==
  r.status = 200 /\ r.file /\ (~r.measured \/ r.length # r.size)

\* The client can tell from the response what it got: the body has the length
\* announced, or is left out on purpose; a 206 brings the bytes its range names, in
\* order, and nothing else; a 416 is given only for a range that names none.
AsAnnounced(q, r, body) ==
  /\ Len(body) = (IF r.head THEN 0 ELSE IF Mislabelled(r) THEN r.size ELSE r.length)
  /\ body = [i \in 1..Len(body) |-> r.from + i - 1]
  /\ r.status = 206 => Named(q.range, r.size) = r.from..r.from + r.length - 1
                        /\ r.length > 0
  /\ r.status = 416 => Named(q.range, r.size) = {}
  /\ r.status = 200 /\ r.file /\ r.measured => q.range = NoRange

\* When write_data says that a response is out, the client was sent what its
\* headers announce, short writes, changes to the file and earlier responses
\* notwithstanding.  There are two exceptions.  The file may go, or become too short
\* for what is left to send (harmed).  And a whole file that is resized between the
\* handler and apply_http_semantics goes out in full under its old Content-Length, so
\* that the client of a longer one takes the rest for the next response; but never is
\* a length wrong if nobody has touched the file.
BodyAsAnnounced ==
  [][stage = "writing" /\ stage' # "writing" /\ ~harmed
       => /\ AsAnnounced(query, reply, got')
          /\ disk.changes = 0 => ~Mislabelled(reply)]_writerVars

\* A response whose file stays as it needs it comes to its end, whatever direction
\* the loop waits for in between.
RepliesEnd == (stage # "idle") ~> (stage = "idle" \/ harmed)

\* What a client sends after a response is read.  Connection.h:60 says of tls_want_
\* "After a TLS op that would block, the direction OpenSSL needs next so the event
\* loop can re-arm correctly"; SSL_write leaves it at Write when it would block,
\* nothing sets it back when the rest goes out, and dispatch_next then waits for
\* the socket to be writable, which it is, and not for the request.
RequestsRead == (link.shaken /\ unread > 0) ~> (unread = 0)
=============================================================================
