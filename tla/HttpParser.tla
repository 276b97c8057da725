----------------------------- MODULE HttpParser -----------------------------
(***************************************************************************)
(* From bytes to requests: the parser (src/src/http/HttpParser.cpp), and   *)
(* the read buffer of a Connection it is run on (parse_next, consume).     *)
(* parse_next parses the whole buffer afresh after every read; nothing is  *)
(* consumed before a request is complete.                                  *)
(*                                                                         *)
(* A unit of the buffer is a line with its CRLF, or a byte of a body, or   *)
(* the CRLF that ends a chunk.  Header names are spelt as header() looks   *)
(* them up.                                                                *)
(*                                                                         *)
(* An operator whose name starts with Faulty is a mutant of the definition *)
(* that follows it.                                                        *)
(***************************************************************************)
EXTENDS Integers, Sequences

CONSTANTS
  MaxHeader,  \* MAX_HEADER_BYTES, in units
  MaxBody,    \* MAX_BODY_BYTES
  BufferSize, \* READ_BUFFER_SIZE
  MaxStream   \* bound: requests a client sends

ASSUME ParserAssumption == {MaxHeader, MaxBody, BufferSize, MaxStream} \subseteq Nat

VARIABLES
  stream,     \* history: the requests the client sends
  unsent,     \* units not received yet
  buffer,     \* read_buffer_, up to read_buffer_fill_
  processing, \* processing_: a request was handed out and not answered yet
  isOpen,     \* the connection
  parsed      \* history: the bodies of the requests handed out

parserVars == <<stream, unsent, buffer, processing, isOpen, parsed>>

-----------------------------------------------------------------------------
(* Clients.                                                                *)

Unit(kind) == [kind |-> kind, n |-> 0]
Number(kind, n) == [kind |-> kind, n |-> n]
Fields(n) == [i \in 1..n |-> Unit("field")]

\* Bodies are made of any bytes, those that look like a header among them.
Payload(n, plain) ==
  [i \in 1..n |-> IF plain THEN Number("byte", i)
                  ELSE IF i = 1 THEN Unit("blank") ELSE Unit("crlf")]

\* A request, its body, and whether the server is to accept it.
Request(lines, rest, body, good) ==
  [units |-> <<Unit("request")>> \o lines \o <<Unit("blank")>> \o rest,
   body |-> body, good |-> good]

Sized(fields, n, plain) ==
  Request(Fields(fields) \o <<Number("length", n)>>,
          Payload(n, plain), Payload(n, plain),
          n <= MaxBody /\ fields + 2 <= MaxHeader)

Chunk(data) == <<Number("size", Len(data))>> \o data \o <<Unit("crlf")>>

Chunked(one, two, trailer) ==
  Request(<<Unit("chunked")>>,
          (IF one = <<>> THEN <<>> ELSE Chunk(one)) \o
          (IF two = <<>> THEN <<>> ELSE Chunk(two)) \o
          <<Number("size", 0)>> \o trailer \o <<Unit("crlf")>>,
          one \o two,
          2 <= MaxHeader /\ Len(one) + Len(two) <= MaxBody)

PlainRequests == {Request(Fields(f), <<>>, <<>>, f < MaxHeader) : f \in 0..MaxHeader}

SizedRequests ==
  {Sized(f, n, plain) : f \in 0..1, n \in 0..MaxBody + 1, plain \in BOOLEAN}

ChunkedRequests ==
  {Chunked(Payload(m, plain), Payload(n, plain), trailer) :
     m \in 0..2, n \in 0..2, plain \in BOOLEAN, trailer \in {<<>>, <<Unit("trailer")>>}}

MalformedHeaders ==
  {Request(<<Unit(bad)>>, <<>>, <<>>, FALSE) : bad \in {"noise", "badlength"}}

MalformedRequests ==
  {Request(<<Number("length", 1), Unit("chunked")>>, Payload(1, TRUE), <<>>, FALSE),
   Request(<<Unit("chunked")>>, <<Unit("badsize")>>, <<>>, FALSE),
   [units |-> <<Unit("badline"), Unit("blank")>>, body |-> <<>>, good |-> FALSE]}

ClientRequests ==
  PlainRequests \cup SizedRequests \cup ChunkedRequests \cup MalformedHeaders
    \cup MalformedRequests

Wire(requests) ==
  LET wire[n \in 0..Len(requests)] ==
        IF n = 0 THEN <<>> ELSE wire[n - 1] \o requests[n].units
  IN wire[Len(requests)]

ParserInit ==
  /\ stream \in UNION {[1..m -> ClientRequests] : m \in 0..MaxStream}
  /\ unsent = Wire(stream)
  /\ buffer = <<>>
  /\ processing = FALSE
  /\ isOpen = TRUE
  /\ parsed = <<>>

-----------------------------------------------------------------------------
(* The parser: state_ after a parse of b, the bytes consumed, the body.    *)

Result(state, consumed, body) ==
  [state |-> state, consumed |-> consumed, body |-> body]

Error == Result("ERROR", 0, <<>>)
Wanting(state) == Result(state, 0, <<>>)

Where(b, kind) == {i \in DOMAIN b : b[i].kind = kind}
First(S) == CHOOSE i \in S : \A j \in S : i <= j

\* The units before the blank line, or all there are.
HeaderSpan(b) ==
  IF Where(b, "blank") = {} THEN Len(b) ELSE First(Where(b, "blank")) - 1

\* parse_chunked_body from unit `start' on: every chunk, the one of size zero and
\* the trailer up to a blank line must be there.  Of what follows the data of a
\* chunk only the length is taken.
ParseChunked(b, start) ==
  LET Ends(i) == {j \in Where(b, "crlf") : j > i}
      After(i) == i + b[i].n + 2
      scan[i \in 1..Len(b) + 1] == [total \in 0..MaxBody |->
        IF i = Len(b) + 1 THEN Wanting("BODY")
        ELSE IF b[i].kind # "size" THEN Error
        ELSE IF b[i].n = 0
        THEN IF Ends(i) = {} THEN Wanting("BODY")
             ELSE Result("COMPLETE", First(Ends(i)), <<>>)
        ELSE IF total + b[i].n > MaxBody THEN Error
        ELSE IF After(i) > Len(b) + 1 THEN Wanting("BODY")
        ELSE [scan[After(i)][total + b[i].n] EXCEPT
                !.body = SubSeq(b, i + 1, i + b[i].n) \o @]]
  IN scan[start][0]

\* What is there of a body is taken for all of it.
FaultyParseSized(b, start, n) ==
  LET end == IF Len(b) < start + n - 1 THEN Len(b) ELSE start + n - 1 IN
    IF n > MaxBody THEN Error
    ELSE Result("COMPLETE", end, SubSeq(b, start, end))

\* A body of declared length, from unit `start' on.
ParseSized(b, start, n) ==
  IF n > MaxBody THEN Error
  ELSE IF Len(b) < start + n - 1 THEN Wanting("BODY")
  ELSE Result("COMPLETE", start + n - 1, SubSeq(b, start, start + n - 1))

\* parse_headers at the blank line, unit `blank': what frames the body.
ParseFraming(b, blank) ==
  LET Has(kind) == \E i \in 2..blank - 1 : b[i].kind = kind
      length == b[First(Where(b, "length"))].n
  IN CASE Has("badlength") -> Error
       [] Has("chunked") /\ Has("length") -> Error
       [] Has("chunked") /\ ~Has("length") -> ParseChunked(b, blank + 1)
       [] Has("length") /\ ~Has("chunked") -> ParseSized(b, blank + 1, length)
       [] OTHER -> Result("COMPLETE", blank, <<>>)

\* parse_request, from a parser that was reset.
Parse(b) ==
  LET blanks == Where(b, "blank")
      lines == 2..HeaderSpan(b)
  IN CASE b = <<>> -> Wanting("REQUEST_LINE")
       [] HeaderSpan(b) > MaxHeader -> Error
       [] OTHER ->
            IF b[1].kind # "request" \/ \E i \in lines : b[i].kind = "noise"
            THEN Error
            ELSE IF blanks = {} THEN Wanting("HEADERS")
            ELSE ParseFraming(b, First(blanks))

-----------------------------------------------------------------------------
(* The connection.                                                         *)

\* consume: what follows moves to the front.
Consume(b, n) == SubSeq(b, n + 1, Len(b))

\* dispatch_next on a buffer that became b: hand a request out, close on an
\* error, or wait for more.
Dispatch(b) ==
  LET result == Parse(b) IN
    /\ parsed' = IF result.state = "COMPLETE" THEN Append(parsed, result.body)
                 ELSE parsed
    /\ buffer' = IF result.state = "COMPLETE" THEN Consume(b, result.consumed) ELSE b
    /\ processing' = (result.state = "COMPLETE")
    /\ isOpen' = (result.state # "ERROR")

\* handle_client_data: read what there is room for, and dispatch.
Receive(n) ==
  /\ isOpen /\ ~processing
  /\ n <= Len(unsent) /\ n <= BufferSize - Len(buffer)
  /\ unsent' = SubSeq(unsent, n + 1, Len(unsent))
  /\ Dispatch(buffer \o SubSeq(unsent, 1, n))
  /\ UNCHANGED stream

\* The buffer is full: read_data returns 0, and the connection is closed.
ReceiveNothing ==
  /\ isOpen /\ ~processing
  /\ unsent # <<>> /\ Len(buffer) = BufferSize
  /\ isOpen' = FALSE
  /\ UNCHANGED <<stream, unsent, buffer, processing, parsed>>

\* handle_write_ready: the response is sent; the next request may be there.
Answered ==
  /\ isOpen /\ processing
  /\ Dispatch(buffer)
  /\ UNCHANGED <<stream, unsent>>

StreamEnded ==
  /\ ~isOpen \/ (unsent = <<>> /\ ~processing)
  /\ UNCHANGED parserVars

ParserNext ==
  \/ \E n \in 1..BufferSize : Receive(n)
  \/ ReceiveNothing
  \/ Answered
  \/ StreamEnded

-----------------------------------------------------------------------------
\* The requests of the stream up to the first the server is to refuse.
Acceptable ==
  IF \A i \in DOMAIN stream : stream[i].good THEN Len(stream)
  ELSE First({i \in DOMAIN stream : ~stream[i].good}) - 1

\* However the stream is cut into reads, the requests handed out are those the
\* client sent, in order, each with its own body, and none after a malformed one.
ParsedAsSent ==
  /\ Len(parsed) <= Acceptable
  /\ \A i \in DOMAIN parsed : parsed[i] = stream[i].body

\* What the server closes the connection for: a request that is malformed or beyond
\* the limits, and one that does not fit the read buffer, which is smaller than
\* the limits allow.
Unserved == {i \in DOMAIN stream : ~stream[i].good \/ Len(stream[i].units) > BufferSize}

\* A client whose requests the server is to serve is never cut off, whatever is
\* pipelined behind them (the limit on the headers is not one on the buffer, a full
\* buffer is not the end), and each of its requests is handed out: none stays in
\* the buffer when all was received and answered, where no read would find it.  When
\* a connection is closed all those before the first it is closed for were served.
GoodClientsServed ==
  /\ Unserved = {} /\ unsent = <<>> /\ ~processing => Len(parsed) = Len(stream)
  /\ ~isOpen => Unserved # {} /\ Len(parsed) = First(Unserved) - 1

\* Both, of the requests and of the clients.
StreamServed == ParsedAsSent /\ GoodClientsServed
=============================================================================
