------------------------ MODULE ResponseWriterProofs ------------------------
(***************************************************************************)
(* The range arithmetic of apply_http_semantics, for every file and every  *)
(* range: what it says it sends is what the range names.                   *)
(* And the sending: over any number of short writes, the client is sent    *)
(* what the headers announce.                                              *)
(***************************************************************************)
EXTENDS ResponseWriter, SequenceTheorems, TLAPS

\* What can follow "bytes=": the first bound stands before the first dash and has
\* no sign, the last may have one.
RangeType == [first : Nat \cup {Blank, Junk}, last : Int \cup {Blank, Junk}]

\* Whatever std::stoll accepted, the bounds are numbers.
LEMMA SpanIsNumeric ==
  ASSUME NEW range \in RangeType, NEW size \in Nat, Satisfiable(range, size)
  PROVE  Span(range, size).first \in Int /\ Span(range, size).last \in Int
<1>1. CASE range.first = Blank
  <2>1. range.last \in Int
    BY <1>1 DEF Satisfiable, RangeType
  <2> QED  BY <1>1, <2>1 DEF Span
<1>2. CASE range.first # Blank
  <2>1. range.first \in Nat
    BY <1>2 DEF Satisfiable, RangeType
  <2>2. CASE range.last = Blank
    BY <1>2, <2>1, <2>2 DEF Span
  <2>3. CASE range.last # Blank
    <3>1. range.last \in Int
      BY <2>3 DEF Satisfiable, RangeType
    <3> QED  BY <1>2, <2>1, <2>3, <3>1 DEF Span, Least
  <2> QED  BY <2>2, <2>3
<1> QED  BY <1>1, <1>2

\* A range given by its last n bytes.
LEMMA SuffixIsExact ==
  ASSUME NEW n \in Int, NEW size \in Nat, NEW range \in RangeType,
         range.first = Blank, range.last = n
  PROVE  /\ Satisfiable(range, size) =>
              Named(range, size) = Span(range, size).first..Span(range, size).last
         /\ ~Satisfiable(range, size) => Named(range, size) = {}
<1>1. n # Blank /\ n # Junk /\ Junk # Blank
  BY WriterAssumption
<1>2. Named(range, size) = {i \in 0..size - 1 : i >= size - n}
  BY <1>1 DEF Named
<1>3. Span(range, size) = [first |-> IF n >= size THEN 0 ELSE size - n,
                           last |-> size - 1]
  BY DEF Span
<1>4. Satisfiable(range, size) <=> size > 0 /\ n > 0
  <2>1. /\ Span(range, size).first = (IF n >= size THEN 0 ELSE size - n)
        /\ Span(range, size).last = size - 1
    BY <1>3
  <2>2. Junk \notin {range.first, range.last}
    BY <1>1
  <2> QED  BY <1>1, <2>1, <2>2 DEF Satisfiable
<1>5. CASE size > 0 /\ n > 0
  <2>1. Named(range, size) = (IF n >= size THEN 0 ELSE size - n)..size - 1
    BY <1>2, <1>5
  <2> QED  BY <1>3, <1>4, <1>5, <2>1
<1>6. CASE ~(size > 0 /\ n > 0)
  BY <1>2, <1>4, <1>6
<1> QED  BY <1>5, <1>6

\* A range given by its first byte, with or without a last one.
LEMMA PrefixIsExact ==
  ASSUME NEW first \in Nat, NEW size \in Nat, NEW range \in RangeType,
         range.first = first, range.last # Junk
  PROVE  /\ Satisfiable(range, size) =>
              Named(range, size) = Span(range, size).first..Span(range, size).last
         /\ ~Satisfiable(range, size) => Named(range, size) = {}
<1> DEFINE end == IF range.last = Blank THEN size - 1 ELSE Least(range.last, size - 1)
<1>1. first # Blank /\ first # Junk
  BY WriterAssumption
<1>2. end \in Int /\ end <= size - 1
  BY DEF RangeType, Least
<1>3. Named(range, size) = {i \in 0..size - 1 : i >= first /\ i <= end}
  <2>1. Named(range, size) =
          {i \in 0..size - 1 : i >= first /\ (range.last = Blank \/ i <= range.last)}
    BY <1>1 DEF Named
  <2>2. ASSUME NEW i \in 0..size - 1
        PROVE  (range.last = Blank \/ i <= range.last) <=> i <= end
    <3>1. CASE range.last = Blank
      BY <3>1
    <3>2. CASE range.last # Blank
      <4>1. range.last \in Int
        BY <3>2 DEF RangeType
      <4> QED  BY <3>2, <4>1 DEF Least
    <3> QED  BY <3>1, <3>2
  <2> HIDE DEF end
  <2> QED  BY <2>1, <2>2
<1>4. Span(range, size).first = first /\ Span(range, size).last = end
  BY <1>1 DEF Span
<1> HIDE DEF end
<1>5. Satisfiable(range, size) <=> size > 0 /\ first <= end
  <2>1. Junk \notin {range.first, range.last}
    BY <1>1
  <2>2. range.first # Blank
    BY <1>1
  <2> QED  BY <1>2, <1>4, <2>1, <2>2 DEF Satisfiable
<1>6. CASE size > 0 /\ first <= end
  <2>1. Named(range, size) = first..end
    BY <1>2, <1>3
  <2> QED  BY <1>4, <1>5, <1>6, <2>1
<1>7. CASE ~(size > 0 /\ first <= end)
  BY <1>2, <1>3, <1>5, <1>7
<1> QED  BY <1>6, <1>7

\* The bytes between the bounds computed at Server.cpp:135-157 are those the range
\* names, and a range is refused exactly if it names none.
THEOREM RangeIsExact ==
  ASSUME NEW range \in RangeType, NEW size \in Nat
  PROVE  /\ Satisfiable(range, size) =>
              Named(range, size) = Span(range, size).first..Span(range, size).last
         /\ ~Satisfiable(range, size) => Named(range, size) = {}
<1>1. CASE Junk \in {range.first, range.last}
  BY <1>1 DEF Satisfiable, Named
<1>2. CASE Junk \notin {range.first, range.last} /\ range.first = Blank
  <2>1. CASE range.last = Blank
    BY <1>2, <2>1 DEF Satisfiable, Named
  <2>2. CASE range.last # Blank
    <3>1. range.last \in Int
      BY <1>2, <2>2 DEF RangeType
    <3> QED  BY <1>2, <3>1, SuffixIsExact
  <2> QED  BY <2>1, <2>2
<1>3. CASE Junk \notin {range.first, range.last} /\ range.first # Blank
  <2>1. range.first \in Nat
    BY <1>3 DEF RangeType
  <2> QED  BY <1>3, <2>1, PrefixIsExact
<1> QED  BY <1>1, <1>2, <1>3

ReplyType == [status : Nat, measured : BOOLEAN, length : Int, size : Nat, head : BOOLEAN,
              file : BOOLEAN, from : Int, count : Int]

\* What each kind of response is made of.
LEMMA FieldsOfBodiless ==
  ASSUME NEW r \in ReplyType
  PROVE  /\ Bodiless(r, 304).status = 304
         /\ Bodiless(r, 416).status = 416 /\ Bodiless(r, 416).size = r.size
         /\ Whole(r).status = r.status
BY DEF Bodiless, Whole, ReplyType

LEMMA FieldsOfPartial ==
  ASSUME NEW r \in ReplyType, NEW span, span.first \in Int, span.last \in Int
  PROVE  /\ Partial(r, span).status = 206 /\ Partial(r, span).size = r.size
         /\ Partial(r, span).from = span.first
         /\ Partial(r, span).length = span.last - span.first + 1
         /\ Partial(r, span).count = span.last - span.first + 1
BY DEF Partial, ReplyType

\* A response to a request for a range, as it leaves apply_http_semantics: a 206
\* announces and sends the bytes the range names, all of them and no others, and a
\* 416 answers a range that names none, whatever length the handler announced and
\* whatever the file's size is by now.
THEOREM SemanticsIsExact ==
  ASSUME NEW q, q.range \in RangeType \cup {NoRange}, disk.size \in Nat,
         NEW r \in ReplyType, r.status = 200
  PROVE  LET s == Semantics(q, r) IN
         /\ s.status = 206 =>
              /\ Named(q.range, s.size) = s.from..s.from + s.length - 1
              /\ s.count = s.length /\ s.length > 0
         /\ s.status = 416 => Named(q.range, s.size) = {}
<1> DEFINE asked == [r EXCEPT !.head = q.method = "HEAD"]
           found == [asked EXCEPT !.size = disk.size]
           s == Semantics(q, r)
           span == Span(q.range, disk.size)
<1>2. asked \in ReplyType /\ asked.status = 200
  BY DEF ReplyType
<1>3. found \in ReplyType /\ found.status = 200 /\ found.size = disk.size
  <2> HIDE DEF asked
  <2> QED  BY <1>2 DEF ReplyType
<1>4. \/ s \in {asked, Bodiless(found, 304), Whole(found)}
      \/ s = Bodiless(found, 416) /\ q.range # NoRange
                                  /\ ~Satisfiable(q.range, disk.size)
      \/ s = Partial(found, span) /\ q.range # NoRange
                                  /\ Satisfiable(q.range, disk.size)
  BY SMT DEF Semantics
<1> HIDE DEF asked, found, s, span
<1>5. CASE s \in {asked, Bodiless(found, 304), Whole(found)}
  <2>1. s.status \in {200, 304}
    BY <1>2, <1>3, <1>5, FieldsOfBodiless
  <2> QED  BY <2>1 DEF s
<1>6. CASE s = Bodiless(found, 416) /\ q.range # NoRange
                                   /\ ~Satisfiable(q.range, disk.size)
  <2>1. s.status = 416 /\ s.size = disk.size
    BY <1>3, <1>6, FieldsOfBodiless
  <2>2. Named(q.range, disk.size) = {}
    BY <1>6, RangeIsExact
  <2> QED  BY <2>1, <2>2 DEF s
<1>7. CASE s = Partial(found, span) /\ q.range # NoRange
                                   /\ Satisfiable(q.range, disk.size)
  <2>1. /\ span.first \in Int /\ span.last \in Int /\ span.first <= span.last
        /\ Named(q.range, disk.size) = span.first..span.last
    BY <1>7, SpanIsNumeric, RangeIsExact DEF span, Satisfiable
  <2>2. /\ s.status = 206 /\ s.size = disk.size /\ s.from = span.first
        /\ s.length = span.last - span.first + 1 /\ s.count = s.length
    BY <1>3, <1>7, <2>1, FieldsOfPartial
  <2>3. span.first..span.last = s.from..s.from + s.length - 1 /\ s.length > 0
    BY <2>1, <2>2
  <2> QED  BY <2>1, <2>2, <2>3 DEF s
<1> QED  BY <1>4, <1>5, <1>6, <1>7
-----------------------------------------------------------------------------
(* What leaves the connection, over any number of requests, short writes   *)
(* and changes to the file.                                                *)

\* How many bytes of body go out for a reply.
Sends(r) == IF Mislabelled(r) THEN r.size ELSE r.length

\* A reply as the handler made it, of the file as it is or of one that is not there.
Fresh(r) ==
  /\ r.status = 200 /\ r.from = 0 /\ r.size = 0 /\ r.count = -1
  /\ ~r.file => r.length = TextSize
  /\ r.file => (disk.linked <=> r.measured) /\ (~r.measured => r.length = 0)

\* A reply that apply_http_semantics may leave for that request.
Fits(q, r) ==
  /\ r.status = 206 => Named(q.range, r.size) = r.from..r.from + r.length - 1 /\ r.length > 0
  /\ r.status = 416 => Named(q.range, r.size) = {}
  /\ r.status = 200 /\ r.file /\ r.measured => q.range = NoRange
  /\ r.file /\ r.count >= 0 => r.head \/ r.count = Sends(r)
  /\ r.file /\ r.count < 0 => r.from = 0 /\ Sends(r) = 0
  /\ ~r.file => r.from = 0 /\ Sends(r) = TextSize

\* Whoever has the connection in hand: the loop reads only between requests, and
\* writes only when a response is there, or because TLS asked for it.
InHand ==
  /\ ~link.shaken => stage = "idle"
  /\ link.armed = "read" => stage = "idle"
  /\ link.armed = "write" => stage \in {"idle", "writing"}

\* The reply at each stage, as long as the file stays as the reply needs it.
ReplyInv ==
  /\ stage \in {"idle", "dispatched"} => reply = NoReply /\ ~harmed
  /\ stage = "made" => reply.status = 200
  /\ stage = "made" /\ ~harmed => Fresh(reply)
  /\ stage \in {"applied", "writing"} /\ ~harmed => Fits(query, reply)
  /\ stage = "applied" /\ ~harmed /\ reply.file => (disk.linked <=> reply.count >= 0)

\* The n bytes from that offset.
Stretch(first, n) == [i \in 1..n |-> first + i - 1]

\* What the socket took is the start of the body, and what is left is its rest.
OutInv ==
  stage = "writing" /\ ~harmed =>
    /\ out.headOnly = reply.head
    /\ got = Stretch(reply.from, Len(got))
    /\ out.headOnly => got = <<>>
    /\ ~out.headOnly => out.left + Len(got) = Sends(reply) /\ out.offset = reply.from + Len(got)

WriterInv == WriterTypeOK /\ InHand /\ ReplyInv /\ OutInv

Replies == [status : {0, 200, 206, 304, 416}, measured : BOOLEAN, length : Nat,
            size : Nat, head : BOOLEAN, file : BOOLEAN, from : Nat, count : Nat \cup {-1}]

Outputs == [headers : Nat, headOnly : BOOLEAN, source : {"none", "file", "text"},
            offset : Nat, left : Nat]

Disks == [linked : BOOLEAN, size : Nat, changes : Nat]

\* What a client may name is a range as it can follow "bytes=".
LEMMA QueriesAsk ==
  ASSUME NEW q \in ClientQueries
  PROVE  q.range \in RangeType \cup {NoRange} /\ q.file \in BOOLEAN
<1>1. Ranges \subseteq RangeType
  <2>1. FileSizes \subseteq Nat /\ FileSizes \cup {-1, 1} \subseteq Int
    BY WriterAssumption
  <2>2. /\ Bounds(FileSizes) \subseteq Nat \cup {Blank, Junk}
        /\ Bounds(FileSizes \cup {-1, 1}) \subseteq Int \cup {Blank, Junk}
    BY <2>1 DEF Bounds
  <2> QED
    BY <2>2 DEF Ranges, RangeType
<1>2. [first |-> 1, last |-> Blank] \in RangeType
  BY DEF RangeType
<1>3. q.range \in RangeType \cup {NoRange}
  BY <1>1, <1>2 DEF ClientQueries, Ask
<1>4. q.file = TRUE \/ q.file = FALSE
  BY SMTT(40) DEF ClientQueries, Ask
<1> QED
  BY <1>3, <1>4

LEMMA ReplyNumbers ==
  ASSUME NEW r \in Replies
  PROVE  /\ r.from \in Nat /\ r.length \in Nat /\ r.count \in Nat \cup {-1}
         /\ r.head \in BOOLEAN /\ r.size \in Nat /\ r.file \in BOOLEAN
         /\ r.measured \in BOOLEAN
BY DEF Replies

LEMMA MadeIsReply ==
  ASSUME NEW q, q.file \in BOOLEAN, disk \in Disks
  PROVE  /\ Made(q) \in Replies /\ Fresh(Made(q))
         /\ disk.linked /\ Made(q).file => Made(q).measured /\ Made(q).length = disk.size
<1>1. PICK f \in BOOLEAN : f <=> q.file
  OBVIOUS
<1>2. disk.size \in Nat /\ TextSize \in Nat
  BY WriterAssumption DEF Disks
<1>3. PICK n \in Nat :
        n = IF ~q.file THEN TextSize ELSE IF disk.linked THEN disk.size ELSE 0
  BY <1>2
<1>4. PICK m \in BOOLEAN : m = (~q.file \/ disk.linked)
  OBVIOUS
<1>5. PICK r : r = Made(q)
  OBVIOUS
<1>6. r = [status |-> 200, measured |-> m, length |-> n, size |-> 0, head |-> FALSE,
           file |-> f, from |-> 0, count |-> -1]
  BY ZenonT(80), <1>1, <1>3, <1>4, <1>5 DEF Made, NoReply
<1>7. r \in Replies
  BY <1>6 DEF Replies
<1>8. /\ r.status = 200 /\ r.length = n /\ r.size = 0 /\ r.file = f /\ r.from = 0
      /\ r.count = -1 /\ r.measured = m
  BY <1>6
<1> QED
  BY <1>1, <1>2, <1>3, <1>4, <1>5, <1>7, <1>8 DEF Fresh

LEMMA BodilessIsReply ==
  ASSUME NEW r \in Replies, NEW status \in {304, 416}
  PROVE  /\ Bodiless(r, status) \in Replies
         /\ Bodiless(r, status).status = status /\ Bodiless(r, status).file = r.file
         /\ Bodiless(r, status).head /\ Bodiless(r, status).count = 0
BY ZenonT(80) DEF Bodiless, Replies

LEMMA WholeIsReply ==
  ASSUME NEW r \in Replies
  PROVE  /\ Whole(r) \in Replies /\ Whole(r).status = r.status /\ Whole(r).file = r.file
         /\ Whole(r).count = r.size /\ Whole(r).length = r.length
         /\ Whole(r).size = r.size /\ Whole(r).measured = r.measured
BY ZenonT(30) DEF Whole, Replies

LEMMA PartialIsReply ==
  ASSUME NEW r \in Replies, NEW span, span.first \in Nat, span.last \in Int,
         span.first <= span.last
  PROVE  /\ Partial(r, span) \in Replies /\ Partial(r, span).status = 206
         /\ Partial(r, span).file = r.file
         /\ Partial(r, span).count = Partial(r, span).length
         /\ Partial(r, span).count >= 0
<1>1. PICK n \in Nat : n = span.last - span.first + 1
  OBVIOUS
<1>2. PICK from \in Nat : from = span.first
  OBVIOUS
<1>3. PICK p : p = Partial(r, span)
  OBVIOUS
<1>4. p = [r EXCEPT !.status = 206, !.measured = TRUE, !.from = from, !.length = n, !.count = n]
  BY <1>1, <1>2, <1>3 DEF Partial
<1>5. p \in Replies /\ p.status = 206 /\ p.file = r.file /\ p.count = n /\ p.length = n
  BY ZenonT(30), <1>4 DEF Replies
<1>6. n >= 0
  BY <1>1
<1> QED
  BY <1>3, <1>5, <1>6

\* apply_http_semantics leaves a reply, whatever became of the file: as it is, if there
\* is none to be sent, and else one that sends what it says, or the whole file.
LEMMA SemanticsIsReply ==
  ASSUME NEW q, q.range \in RangeType \cup {NoRange}, NEW r \in Replies, disk \in Disks,
         r.status = 200
  PROVE  LET s == Semantics(q, r) IN
         /\ s \in Replies /\ s.file = r.file
         /\ ~(r.file /\ disk.linked) =>
              /\ s.from = r.from /\ s.length = r.length /\ s.size = r.size
              /\ s.status = r.status /\ s.count = r.count /\ s.measured = r.measured
         /\ r.file /\ disk.linked =>
              /\ s.count >= 0 /\ (s.head \/ s.count = Sends(s))
              /\ s.status = 200 => q.range = NoRange
              /\ r.measured /\ r.length = disk.size => ~Mislabelled(s)
<1> DEFINE asked == [r EXCEPT !.head = q.method = "HEAD"]
           found == [asked EXCEPT !.size = disk.size]
           span == Span(q.range, disk.size)
<1>1. /\ asked \in Replies /\ asked.file = r.file /\ asked.from = r.from
      /\ asked.length = r.length /\ asked.status = r.status
      /\ asked.size = r.size /\ asked.count = r.count /\ asked.measured = r.measured
  <2>1. PICK h \in BOOLEAN : h = (q.method = "HEAD")
    OBVIOUS
  <2>2. asked = [r EXCEPT !.head = h]
    BY <2>1
  <2> HIDE DEF asked
  <2> QED
    BY <2>2 DEF Replies
<1>2. /\ found \in Replies /\ found.file = r.file /\ found.size = disk.size
      /\ found.length = r.length /\ found.status = r.status /\ found.measured = r.measured
  <2>1. disk.size \in Nat
    BY DEF Disks
  <2> HIDE DEF asked
  <2> QED
    BY <1>1, <2>1 DEF Replies
<1>3. CASE ~(r.file /\ disk.linked)
  <2>1. Semantics(q, r) = asked
    BY <1>3 DEF Semantics
  <2> HIDE DEF asked
  <2> QED
    BY <1>1, <1>3, <2>1
<1>4. CASE r.file /\ disk.linked
  <2>1. \/ Semantics(q, r) = Bodiless(found, 304)
        \/ Semantics(q, r) = Whole(found) /\ q.range = NoRange
        \/ Semantics(q, r) = Bodiless(found, 416)
        \/ /\ Semantics(q, r) = Partial(found, span)
           /\ q.range # NoRange /\ Satisfiable(q.range, disk.size)
    BY <1>4, SMT DEF Semantics
  <2> HIDE DEF asked, found, span
  <2>2. PICK g \in Replies : g = found
    BY <1>2
  <2>3. PICK s : s = Semantics(q, r)
    OBVIOUS
  <2>4. g.file = r.file /\ g.size = disk.size /\ g.length = r.length /\ g.status = r.status
        /\ g.measured = r.measured
    BY <1>2, <2>2
  <2>5. SUFFICES /\ s \in Replies /\ s.file = r.file
                 /\ s.count >= 0 /\ (s.head \/ s.count = Sends(s))
                 /\ s.status = 200 => q.range = NoRange
                 /\ r.measured /\ r.length = disk.size => ~Mislabelled(s)
    BY <1>4, <2>3
  <2>6. ASSUME NEW status \in {304, 416}, s = Bodiless(g, status)
        PROVE  /\ s \in Replies /\ s.file = r.file /\ s.count >= 0 /\ s.head
               /\ s.status # 200 /\ ~Mislabelled(s)
    <3>1. s.count = 0 /\ s.status = status /\ s \in Replies /\ s.file = g.file /\ s.head
      BY <2>6, BodilessIsReply
    <3> QED
      BY <2>4, <3>1 DEF Mislabelled
  <2>7. CASE s = Bodiless(g, 304) \/ s = Bodiless(g, 416)
    BY <2>6, <2>7
  <2>8. CASE s = Whole(g) /\ q.range = NoRange
    <3>1. g.size \in Nat
      BY DEF Replies
    <3>2. /\ s \in Replies /\ s.file = r.file /\ s.status = 200 /\ s.count = g.size
          /\ s.size = g.size /\ s.length = r.length /\ s.measured = r.measured
      BY <2>4, <2>8, WholeIsReply
    <3>3. s.count = Sends(s)
      BY <1>4, <3>2 DEF Sends, Mislabelled
    <3>4. r.measured /\ r.length = disk.size => ~Mislabelled(s)
      BY <2>4, <3>2 DEF Mislabelled
    <3> QED
      BY <2>8, <3>1, <3>2, <3>3, <3>4
  <2>9. CASE s = Partial(g, span) /\ q.range # NoRange /\ Satisfiable(q.range, disk.size)
    <3>1. q.range \in RangeType /\ disk.size \in Nat
      BY <2>9 DEF Disks
    <3>2. span.first \in Int /\ span.last \in Int
      BY <2>9, <3>1, SpanIsNumeric DEF span
    <3>3. 0 <= span.first /\ span.first <= span.last
      BY <2>9 DEF Satisfiable, span
    <3>4. span.first \in Nat
      BY <3>2, <3>3
    <3>5. /\ s \in Replies /\ s.status = 206 /\ s.file = g.file
          /\ s.count = s.length /\ s.count >= 0
      BY <2>9, <3>2, <3>3, <3>4, PartialIsReply
    <3>6. ~Mislabelled(s)
      BY <3>5 DEF Mislabelled
    <3>7. s.count = Sends(s)
      BY <3>5, <3>6 DEF Sends
    <3> QED
      BY <2>4, <3>5, <3>6, <3>7
  <2> QED
    BY <2>1, <2>2, <2>3, <2>7, <2>8, <2>9
<1> QED
  BY <1>3, <1>4

LEMMA RepliesAreReplies == Replies \subseteq ReplyType
BY DEF Replies, ReplyType

\* What it makes of a reply of the file as it was then is one that fits.
LEMMA AppliedFits ==
  ASSUME NEW q, q.range \in RangeType \cup {NoRange}, disk \in Disks,
         NEW r \in Replies, Fresh(r)
  PROVE  /\ Fits(q, Semantics(q, r))
         /\ Semantics(q, r).file => (disk.linked <=> Semantics(q, r).count >= 0)
<1>1. disk.size \in Nat /\ disk.linked \in BOOLEAN
  BY DEF Disks
<1>2. /\ r.status = 200 /\ r.from = 0 /\ r.size = 0 /\ r.count = -1
      /\ ~r.file => r.length = TextSize
      /\ r.file => (disk.linked <=> r.measured) /\ (~r.measured => r.length = 0)
  BY DEF Fresh
<1>3. PICK s \in Replies : s = Semantics(q, r)
  BY <1>2, SemanticsIsReply
<1>4. /\ s.file = r.file
      /\ ~(r.file /\ disk.linked) =>
           /\ s.from = 0 /\ s.length = r.length /\ s.size = 0
           /\ s.status = 200 /\ s.count = -1 /\ s.measured = r.measured
      /\ r.file /\ disk.linked =>
           /\ s.count >= 0 /\ (s.head \/ s.count = Sends(s))
           /\ s.status = 200 => q.range = NoRange
  BY <1>2, <1>3, SemanticsIsReply
<1>5. /\ s.status = 206 => Named(q.range, s.size) = s.from..s.from + s.length - 1 /\ s.length > 0
      /\ s.status = 416 => Named(q.range, s.size) = {}
  <2>1. r \in ReplyType
    BY RepliesAreReplies
  <2> QED
    BY <1>1, <1>2, <1>3, <2>1, SemanticsIsExact
<1>6. r.file \in BOOLEAN /\ r.length \in Nat
  BY ReplyNumbers
<1>7. CASE ~r.file
  <2>1. s.from = 0 /\ Sends(s) = TextSize /\ ~s.file
    BY <1>2, <1>4, <1>7 DEF Sends, Mislabelled
  <2> QED
    BY <1>3, <1>5, <2>1 DEF Fits
<1>8. CASE r.file /\ ~disk.linked
  <2>1. s.file /\ s.from = 0 /\ ~s.measured /\ s.count = -1 /\ Sends(s) = 0
    BY <1>2, <1>4, <1>6, <1>8 DEF Sends, Mislabelled
  <2> QED
    BY <1>3, <1>5, <1>8, <2>1 DEF Fits
<1>9. CASE r.file /\ disk.linked
  <2>1. /\ s.file /\ s.count >= 0 /\ (s.head \/ s.count = Sends(s))
        /\ s.status = 200 => q.range = NoRange
    BY <1>4, <1>9
  <2>2. s.count \in Nat \cup {-1}
    BY ReplyNumbers
  <2> QED
    BY <1>3, <1>5, <1>9, <2>1, <2>2 DEF Fits
<1> QED
  BY <1>1, <1>6, <1>7, <1>8, <1>9

Links == [tls : BOOLEAN, shaken : BOOLEAN, want : {"read", "write"},
          armed : {"read", "write", "none"}]

\* WriterTypeOK, part by part.
LEMMA WriterTypes ==
  WriterTypeOK <=> /\ link \in Links
                   /\ sent \in Nat /\ unread \in Nat /\ queued \in Nat /\ room \in Nat
                   /\ stage \in {"idle", "dispatched", "made", "applied", "writing"}
                   /\ query \in ClientQueries /\ reply \in Replies /\ out \in Outputs
                   /\ disk \in Disks /\ got \in Seq(Nat) /\ harmed \in BOOLEAN
BY DEF WriterTypeOK, Links, Replies, Outputs, Disks

LEMMA NextWriterTypes ==
  WriterTypeOK' <=> /\ link' \in Links
                    /\ sent' \in Nat /\ unread' \in Nat /\ queued' \in Nat /\ room' \in Nat
                    /\ stage' \in {"idle", "dispatched", "made", "applied", "writing"}
                    /\ query' \in ClientQueries /\ reply' \in Replies /\ out' \in Outputs
                    /\ disk' \in Disks /\ got' \in Seq(Nat) /\ harmed' \in BOOLEAN
BY DEF WriterTypeOK, Links, Replies, Outputs, Disks

LEMMA OutputNumbers ==
  ASSUME NEW o \in Outputs
  PROVE  o.headers \in Nat /\ o.offset \in Nat /\ o.left \in Nat /\ o.headOnly \in BOOLEAN
BY DEF Outputs

LEMMA IdleQuery == Ask("GET", FALSE, "absent", "absent", NoRange) \in ClientQueries
BY DEF ClientQueries

LEMMA NoReplyIsReply == NoReply \in Replies /\ NoReply.file = FALSE
BY DEF NoReply, Replies

LEMMA NoOutputIsOutput == NoOutput \in Outputs
BY DEF NoOutput, Outputs

\* dispatch_next ends one request and takes the next, or waits.
LEMMA DispatchKeeps ==
  ASSUME NEW n \in Nat, NEW now \in Links, DispatchNext(n, now)
  PROVE  /\ reply' = NoReply /\ harmed' = FALSE /\ link' \in Links /\ queued' \in Nat
         /\ stage' \in {"idle", "dispatched"} /\ query' \in ClientQueries
         /\ link'.shaken = now.shaken
         /\ link'.armed # "none" => stage' = "idle"
<1>1. CASE n > 0
  BY <1>1 DEF DispatchNext, Links
<1>2. CASE ~(n > 0)
  <2>1. PICK a \in {"read", "write"} :
          a = IF now.tls /\ now.want = "write" THEN "write" ELSE "read"
    OBVIOUS
  <2>2. link' = [now EXCEPT !.armed = a] /\ queued' = 0 /\ stage' = "idle"
        /\ query' \in ClientQueries /\ reply' = NoReply /\ harmed' = FALSE
    BY <1>2, <2>1, IdleQuery DEF DispatchNext
  <2> QED
    BY <2>2 DEF Links
<1> QED
  BY <1>1, <1>2

\* One call of write_data gets out a part of what is left, headers first.
LEMMA PartOfTheBody ==
  ASSUME out \in Outputs, disk \in Disks, link \in Links, NEW space \in Nat
  PROVE  /\ BodyTaken(space) \in Nat
         /\ BodyTaken(space) <= space /\ BodyTaken(space) <= out.left
         /\ out.headOnly => BodyTaken(space) = 0
<1>1. out.left \in Nat /\ out.offset \in Nat /\ disk.size \in Nat
  BY DEF Outputs, Disks
<1> QED
  BY <1>1 DEF BodyTaken, Least, Greatest

LEMMA WrittenPart ==
  ASSUME out \in Outputs, disk \in Disks, link \in Links, room \in Nat
  PROVE  /\ WriteData.headers \in Nat /\ WriteData.body \in Nat
         /\ WriteData.headers + WriteData.body <= room
         /\ WriteData.want \in {"read", "write"}
         /\ WriteData.out \in Outputs
         /\ WriteData.out.headOnly = out.headOnly
         /\ WriteData.out.left = out.left - WriteData.body
         /\ WriteData.out.offset = out.offset + WriteData.body
         /\ out.headOnly => WriteData.body = 0
<1>1. out.headers \in Nat /\ out.left \in Nat /\ out.offset \in Nat
      /\ link.want \in {"read", "write"}
  BY DEF Outputs, Links
<1>2. CASE room - out.headers < 0
  <2>1. PICK h \in Nat : h = out.headers - room
    BY <1>1, <1>2
  <2>2. PICK o : o = [out EXCEPT !.headers = h]
    OBVIOUS
  <2>3. o \in Outputs /\ o.headOnly = out.headOnly /\ o.left = out.left /\ o.offset = out.offset
    BY <2>2 DEF Outputs
  <2>4. WriteData = [headers |-> room, body |-> 0, out |-> o,
                     want |-> IF link.tls THEN "write" ELSE link.want]
    BY <1>2, <2>1, <2>2 DEF WriteData
  <2> QED
    BY <1>1, <2>3, <2>4
<1>3. CASE ~(room - out.headers < 0)
  <2>1. PICK space \in Nat : space = room - out.headers
    BY <1>1, <1>3
  <2>2. PICK b \in Nat : b = BodyTaken(space)
    BY <2>1, PartOfTheBody
  <2>3. b <= space /\ b <= out.left /\ (out.headOnly => b = 0)
    BY <2>1, <2>2, PartOfTheBody
  <2>4. PICK left \in Nat, offset \in Nat : left = out.left - b /\ offset = out.offset + b
    BY <1>1, <2>2, <2>3
  <2>5. PICK o : o = [out EXCEPT !.headers = 0, !.offset = offset, !.left = left]
    OBVIOUS
  <2>6. o \in Outputs /\ o.headOnly = out.headOnly /\ o.left = left /\ o.offset = offset
    BY <2>5 DEF Outputs
  <2>7. PICK want \in {"read", "write"} :
          want = IF link.tls /\ Blocks(space, b) THEN "write" ELSE link.want
    BY <1>1
  <2>8. WriteData = [headers |-> out.headers, body |-> b, out |-> o, want |-> want]
    BY <1>3, <2>1, <2>2, <2>4, <2>5, <2>7 DEF WriteData
  <2> QED
    BY <1>1, <2>1, <2>2, <2>3, <2>4, <2>6, <2>7, <2>8
<1> QED
  BY <1>2, <1>3

\* The bytes that follow those that are out.
Extended(s, from, n) == s \o Stretch(from, n)

LEMMA NextBytes ==
  ASSUME NEW s \in Seq(Nat), NEW n \in Nat, NEW from \in Nat
  PROVE  /\ Extended(s, from, n) \in Seq(Nat)
         /\ Len(Extended(s, from, n)) = Len(s) + n
         /\ s = Stretch(from - Len(s), Len(s)) =>
              Extended(s, from, n) = Stretch(from - Len(s), Len(s) + n)
         /\ n = 0 => Extended(s, from, n) = s
<1>1. PICK u : u = Stretch(from, n)
  OBVIOUS
<1>2. u \in [1..n -> Nat] /\ \A i \in 1..n : u[i] = from + i - 1
  BY <1>1 DEF Stretch
<1>3. u \in Seq(Nat) /\ Len(u) = n
  BY <1>2, SeqDef
<1>4. PICK t : t = s \o u
  OBVIOUS
<1>5. /\ t \in Seq(Nat) /\ Len(t) = Len(s) + n /\ Len(s) \in Nat
      /\ \A i \in 1..Len(s) + n : t[i] = IF i <= Len(s) THEN s[i] ELSE u[i - Len(s)]
  BY <1>3, <1>4, ConcatProperties, LenProperties
<1>6. DOMAIN t = 1..Len(t)
  BY <1>5, LenProperties
<1>7. ASSUME s = Stretch(from - Len(s), Len(s))
      PROVE  t = Stretch(from - Len(s), Len(s) + n)
  <2>1. ASSUME NEW i \in 1..Len(s) + n
        PROVE  t[i] = from - Len(s) + i - 1
    <3>1. CASE i <= Len(s)
      BY <1>5, <1>7, <3>1 DEF Stretch
    <3>2. CASE ~(i <= Len(s))
      <4>1. i - Len(s) \in 1..n
        BY <1>5, <3>2
      <4>2. u[i - Len(s)] = from + (i - Len(s)) - 1
        BY <1>2, <4>1
      <4> QED
        BY <1>5, <1>7, <3>2, <4>2
    <3> QED
      BY <3>1, <3>2
  <2>2. t \in [1..Len(t) -> Nat]
    BY <1>5, LenProperties
  <2> QED
    BY <1>5, <2>1, <2>2 DEF Stretch
<1>8. ASSUME n = 0
      PROVE  t = s
  <2>1. s \in [1..Len(s) -> Nat] /\ t \in [1..Len(s) -> Nat]
    BY <1>5, <1>8, LenProperties
  <2>2. \A i \in 1..Len(s) : t[i] = s[i]
    BY <1>5, <1>8
  <2> QED
    BY <2>1, <2>2
<1>9. t = Extended(s, from, n)
  BY <1>1, <1>4 DEF Extended
<1> QED
  BY <1>5, <1>7, <1>8, <1>9

LEMMA InitWriterInv == WriterInit => WriterInv
<1> SUFFICES ASSUME WriterInit
             PROVE  WriterInv
  OBVIOUS
<1>1. PICK t \in Transports : link = [tls |-> t = "tls", shaken |-> t = "plain",
                                      want |-> "read", armed |-> "read"]
  BY DEF WriterInit
<1>2. link \in Links
  <2>1. PICK a \in BOOLEAN, b \in BOOLEAN : a = (t = "tls") /\ b = (t = "plain")
    OBVIOUS
  <2>2. link = [tls |-> a, shaken |-> b, want |-> "read", armed |-> "read"]
    BY <1>1, <2>1
  <2> QED
    BY <2>2 DEF Links
<1>3. Room \in Nat /\ FileSizes \subseteq Nat
  BY WriterAssumption
<1>4. got \in Seq(Nat)
  BY EmptySeq DEF WriterInit
<1>5. room \in Nat /\ disk \in Disks
  <2>1. PICK n \in FileSizes : disk = [linked |-> TRUE, size |-> n, changes |-> 0]
    BY DEF WriterInit
  <2>2. room = Room
    BY DEF WriterInit
  <2> QED
    BY <1>3, <2>1, <2>2 DEF Disks
<1>6. WriterTypeOK
  BY <1>2, <1>4, <1>5, <1>4, WriterTypes, IdleQuery, NoReplyIsReply, NoOutputIsOutput DEF WriterInit
<1> QED
  BY <1>6 DEF WriterInit, WriterInv, InHand, ReplyInv, OutInv

\* A request comes to its end, or the first one does not begin.
LEMMA DispatchIsSound ==
  ASSUME WriterInv, NEW n \in Nat, NEW now \in Links, DispatchNext(n, now),
         now.shaken,
         unread' \in Nat, sent' = sent, room' \in Nat, disk' = disk,
         out' \in Outputs, got' \in Seq(Nat)
  PROVE  WriterInv'
<1>1. /\ reply' = NoReply /\ harmed' = FALSE /\ link' \in Links /\ queued' \in Nat
      /\ stage' \in {"idle", "dispatched"} /\ query' \in ClientQueries
      /\ link'.shaken
      /\ link'.armed # "none" => stage' = "idle"
  BY DispatchKeeps
<1>2. sent \in Nat /\ disk \in Disks
  BY WriterTypes DEF WriterInv
<1>3. WriterTypeOK'
  BY <1>1, <1>2, NextWriterTypes, NoReplyIsReply
<1>4. stage' \notin {"made", "applied", "writing"}
  BY <1>1
<1> QED
  BY <1>1, <1>3, <1>4 DEF WriterInv, InHand, ReplyInv, OutInv

\* Steps that leave the request and its reply alone.
LEMMA UntouchedReply ==
  ASSUME WriterInv,
         UNCHANGED <<stage, query, reply, out, disk, got, harmed>>,
         link' \in Links, sent' \in Nat, unread' \in Nat, queued' \in Nat, room' \in Nat,
         link'.shaken \/ ~link.shaken, link'.armed = link.armed \/ stage = "idle"
  PROVE  WriterInv'
<1>1. WriterTypeOK'
  BY WriterTypes, NextWriterTypes DEF WriterInv
<1>2. InHand'
  BY DEF WriterInv, InHand
<1>3. ReplyInv'
  BY DEF WriterInv, ReplyInv, Fresh
<1>4. OutInv'
  BY DEF WriterInv, OutInv
<1> QED
  BY <1>1, <1>2, <1>3, <1>4 DEF WriterInv

LEMMA ReadIsSound ==
  ASSUME WriterInv, NEW now \in Links, ReadData(now), now.shaken,
         UNCHANGED <<sent, out, room, disk, got>>
  PROVE  WriterInv'
<1>1. queued \in Nat /\ unread \in Nat /\ room \in Nat /\ out \in Outputs /\ got \in Seq(Nat)
  BY WriterTypes DEF WriterInv
<1>2. PICK l : l = IF now.tls THEN [now EXCEPT !.want = "read"] ELSE now
  OBVIOUS
<1>3. l \in Links /\ l.shaken
  BY <1>2 DEF Links
<1>4. queued + unread \in Nat /\ DispatchNext(queued + unread, l) /\ unread' = 0
  BY <1>1, <1>2 DEF ReadData
<1> QED
  BY <1>1, <1>3, <1>4, DispatchIsSound

LEMMA HandshakeIsSound ==
  ASSUME WriterInv, DriveHandshake
  PROVE  WriterInv'
<1>1. link \in Links /\ ~link.shaken /\ stage = "idle"
      /\ sent \in Nat /\ unread \in Nat /\ queued \in Nat /\ room \in Nat
  BY WriterTypes DEF WriterInv, DriveHandshake, InHand
<1>2. ASSUME NEW want \in {"read", "write"}, link' = [link EXCEPT !.want = want, !.armed = want],
             UNCHANGED <<sent, unread, queued, stage, query, reply, out, room, disk, got, harmed>>
      PROVE  WriterInv'
  <2>1. link' \in Links
    BY <1>1, <1>2 DEF Links
  <2> QED
    BY <1>1, <1>2, <2>1, UntouchedReply
<1>3. ASSUME ReadData([link EXCEPT !.shaken = TRUE]), UNCHANGED <<sent, out, room, disk, got>>
      PROVE  WriterInv'
  <2>1. PICK now : now = [link EXCEPT !.shaken = TRUE]
    OBVIOUS
  <2>2. now \in Links /\ now.shaken
    BY <1>1, <2>1 DEF Links
  <2> QED
    BY <1>3, <2>1, <2>2, ReadIsSound
<1>4. ASSUME link' = [link EXCEPT !.shaken = TRUE, !.armed = "read"],
             UNCHANGED <<sent, unread, queued, stage, query, reply, out, room, disk, got, harmed>>
      PROVE  WriterInv'
  <2>1. link' \in Links
    BY <1>1, <1>4 DEF Links
  <2> QED
    BY <1>1, <1>4, <2>1, UntouchedReply
<1> QED
  BY <1>2, <1>3, <1>4 DEF DriveHandshake

\* write_data: a response that is out is the one announced, all of it.
LEMMA WriteIsSound ==
  ASSUME WriterInv, HandleWriteReady
  PROVE  /\ WriterInv'
         /\ stage = "writing" /\ stage' # "writing" /\ ~harmed => AsAnnounced(query, reply, got')
<1>1. /\ link \in Links /\ sent \in Nat /\ unread \in Nat /\ queued \in Nat /\ room \in Nat
      /\ query \in ClientQueries /\ reply \in Replies /\ out \in Outputs
      /\ disk \in Disks /\ got \in Seq(Nat)
  BY WriterTypes DEF WriterInv
<1>2. PICK w : w = WriteData
  OBVIOUS
<1>3. /\ w.headers \in Nat /\ w.body \in Nat /\ w.headers + w.body <= room
      /\ w.want \in {"read", "write"} /\ w.out \in Outputs
      /\ w.out.headOnly = out.headOnly /\ w.out.left = out.left - w.body
      /\ w.out.offset = out.offset + w.body
      /\ out.headOnly => w.body = 0
  BY <1>1, <1>2, WrittenPart
<1>4. PICK now : now = [link EXCEPT !.want = w.want, !.armed = "write"]
  OBVIOUS
<1>5. now \in Links /\ now.shaken = link.shaken /\ now.armed = "write" /\ link.shaken
  BY <1>1, <1>3, <1>4 DEF Links, HandleWriteReady
<1>6. /\ room' = room - w.headers - w.body
      /\ got' = got \o Stretch(out.offset, w.body)
      /\ UNCHANGED <<sent, unread, disk>> /\ link.armed = "write"
      /\ \/ /\ HasDataToWrite(w.out) /\ out' = w.out /\ link' = now
            /\ UNCHANGED <<queued, stage, query, reply, harmed>>
         \/ ~HasDataToWrite(w.out) /\ out' = NoOutput /\ DispatchNext(queued, now)
  BY <1>2, <1>4 DEF HandleWriteReady, SendResponse, Stretch
<1>7. out.offset \in Nat /\ out.left \in Nat /\ room' \in Nat
  BY SMTT(20), <1>1, <1>3, <1>6, OutputNumbers
<1>8. /\ got' \in Seq(Nat) /\ Len(got') = Len(got) + w.body /\ Len(got) \in Nat
      /\ w.body = 0 => got' = got
      /\ got = Stretch(out.offset - Len(got), Len(got)) =>
           got' = Stretch(out.offset - Len(got), Len(got'))
  <2>1. Len(got) \in Nat
    BY <1>1, LenProperties
  <2>2. PICK n \in Nat, from \in Nat : n = w.body /\ from = out.offset
    BY <1>3, <1>7
  <2>3. PICK s \in Seq(Nat) : s = got
    BY <1>1
  <2>4. got' = Extended(s, from, n)
    BY <1>6, <2>2, <2>3 DEF Extended
  <2>5. /\ got' \in Seq(Nat) /\ Len(got') = Len(s) + n
        /\ s = Stretch(from - Len(s), Len(s)) => got' = Stretch(from - Len(s), Len(s) + n)
        /\ n = 0 => got' = s
    BY <2>4, NextBytes
  <2> QED
    BY <2>1, <2>2, <2>3, <2>5
<1>9. ASSUME stage = "writing", ~harmed
      PROVE  /\ got' = Stretch(reply.from, Len(got'))
             /\ out.headOnly = reply.head
             /\ out.headOnly => got' = <<>>
             /\ ~out.headOnly => w.out.left + Len(got') = Sends(reply)
                                 /\ w.out.offset = reply.from + Len(got')
  <2>1. /\ out.headOnly = reply.head
        /\ got = Stretch(reply.from, Len(got))
        /\ out.headOnly => got = <<>>
        /\ ~out.headOnly => out.left + Len(got) = Sends(reply)
                            /\ out.offset = reply.from + Len(got)
    BY <1>9 DEF WriterInv, OutInv
  <2>2. reply.from \in Nat /\ Sends(reply) \in Int
    BY <1>1, ReplyNumbers DEF Sends
  <2>3. CASE out.headOnly
    BY <1>3, <1>8, <2>1, <2>3
  <2>4. CASE ~out.headOnly
    <3>1. out.offset - Len(got) = reply.from
      BY <1>7, <1>8, <2>1, <2>2, <2>4
    <3>2. got' = Stretch(reply.from, Len(got'))
      BY <1>8, <2>1, <3>1
    <3> QED
      <4>1. Len(got') = Len(got) + w.body /\ Len(got) \in Nat /\ w.body \in Nat
        BY <1>3, <1>8
      <4>2. w.out.left = out.left - w.body /\ w.out.offset = out.offset + w.body
        BY <1>3
      <4>3. w.out.left + Len(got') = out.left + Len(got)
        BY <1>7, <4>1, <4>2
      <4>4. w.out.offset = reply.from + Len(got')
        BY <1>7, <2>1, <2>2, <2>4, <4>1, <4>2
      <4> QED
        BY <2>1, <2>4, <3>2, <4>3, <4>4
  <2> QED
    BY <2>3, <2>4
<1>10. CASE /\ HasDataToWrite(w.out) /\ out' = w.out /\ link' = now
            /\ UNCHANGED <<queued, stage, query, reply, harmed>>
  <2>1. WriterTypeOK'
    BY <1>1, <1>3, <1>5, <1>6, <1>7, <1>8, <1>10, WriterTypes, NextWriterTypes DEF WriterInv
  <2>2. InHand'
    BY <1>5, <1>6, <1>10 DEF WriterInv, InHand
  <2>3. ReplyInv'
    BY <1>6, <1>10 DEF WriterInv, ReplyInv, Fresh
  <2>4. OutInv'
    BY <1>3, <1>9, <1>10 DEF OutInv
  <2> QED
    BY <1>10, <2>1, <2>2, <2>3, <2>4 DEF WriterInv
<1>11. CASE ~HasDataToWrite(w.out) /\ out' = NoOutput /\ DispatchNext(queued, now)
  <2>1. WriterInv'
    BY <1>1, <1>5, <1>6, <1>7, <1>8, <1>11, NoOutputIsOutput, DispatchIsSound
  <2>2. ASSUME stage = "writing", ~harmed
        PROVE  AsAnnounced(query, reply, got')
    <3>1. w.out.headOnly \/ w.out.left = 0
      <4>1. w.out.left \in Nat
        BY <1>3, OutputNumbers
      <4> QED
        BY <1>11, <4>1 DEF HasDataToWrite
    <3>2. Len(got') = (IF reply.head THEN 0 ELSE Sends(reply))
      <4>1. Sends(reply) \in Int
        BY <1>1, ReplyNumbers DEF Sends
      <4>2. CASE out.headOnly
        BY <1>9, <2>2, <4>2, EmptySeq
      <4>3. CASE ~out.headOnly
        BY <1>3, <1>8, <1>9, <2>2, <3>1, <4>1, <4>3
      <4> QED
        BY <4>2, <4>3
    <3>3. Fits(query, reply)
      BY <2>2 DEF WriterInv, ReplyInv
    <3> QED
      BY <1>9, <2>2, <3>2, <3>3 DEF AsAnnounced, Fits, Sends, Stretch
  <2> QED
    BY <2>1, <2>2
<1> QED
  BY <1>6, <1>10, <1>11

LEMMA HandlerIsSound ==
  ASSUME WriterInv, RunHandler
  PROVE  WriterInv'
<1>1. disk \in Disks /\ query.file \in BOOLEAN
  BY WriterTypes, QueriesAsk DEF WriterInv
<1>2. /\ reply' = Made(query) /\ stage = "dispatched" /\ stage' = "made" /\ query' = query
      /\ UNCHANGED <<link, sent, unread, queued, out, room, disk, got, harmed>>
  BY DEF RunHandler
<1>3. reply' \in Replies /\ Fresh(Made(query))
  BY <1>1, <1>2, MadeIsReply
<1>4. WriterTypeOK'
  BY <1>2, <1>3, WriterTypes, NextWriterTypes DEF WriterInv
<1>5. Fresh(reply)' /\ reply'.status = 200
  BY <1>2, <1>3 DEF Fresh
<1> QED
  BY <1>2, <1>4, <1>5 DEF WriterInv, InHand, ReplyInv, OutInv

LEMMA SemanticsIsSound ==
  ASSUME WriterInv, ApplyHttpSemantics
  PROVE  WriterInv'
<1>1. disk \in Disks /\ reply \in Replies /\ query.range \in RangeType \cup {NoRange}
  BY WriterTypes, QueriesAsk DEF WriterInv
<1>2. /\ reply' = Semantics(query, reply) /\ stage = "made" /\ stage' = "applied"
      /\ UNCHANGED <<link, sent, unread, queued, query, out, room, disk, got, harmed>>
  BY DEF ApplyHttpSemantics
<1>3. reply' \in Replies
  <2>1. reply.status = 200
    BY <1>2 DEF WriterInv, ReplyInv
  <2> QED
    BY <1>1, <1>2, <2>1, SemanticsIsReply
<1>4. WriterTypeOK'
  BY <1>2, <1>3, WriterTypes, NextWriterTypes DEF WriterInv
<1>5. ASSUME ~harmed
      PROVE  Fits(query, reply') /\ (reply'.file => (disk.linked <=> reply'.count >= 0))
  <2>1. Fresh(reply)
    BY <1>2, <1>5 DEF WriterInv, ReplyInv
  <2> QED
    BY <1>1, <1>2, <2>1, AppliedFits
<1>6. ReplyInv'
  BY <1>2, <1>5 DEF ReplyInv
<1> QED
  BY <1>2, <1>4, <1>6 DEF WriterInv, InHand, OutInv

\* What set_response_content makes of a reply.
LEMMA ContentIsOutput ==
  ASSUME NEW r \in Replies, disk \in Disks
  PROVE  LET o == SetResponseContent(r) IN
         /\ o \in Outputs /\ o.headOnly = r.head
         /\ ~r.file => o.offset = 0 /\ o.left = TextSize
         /\ r.file /\ ~disk.linked => o.offset = 0 /\ o.left = 0
         /\ r.file /\ disk.linked /\ r.count >= 0 => o.offset = r.from /\ o.left = r.count
<1>1. /\ r.from \in Nat /\ r.count \in Nat \cup {-1} /\ r.head \in BOOLEAN
      /\ disk.size \in Nat /\ TextSize \in Nat /\ HeaderSize \in Nat
  BY ReplyNumbers, WriterAssumption DEF Disks
<1>2. PICK start : start = [NoOutput EXCEPT !.headers = HeaderSize, !.headOnly = r.head]
  OBVIOUS
<1>3. start \in Outputs /\ start.headOnly = r.head /\ start.offset = 0
      /\ start.left = 0
  <2>1. PICK h \in BOOLEAN : h = r.head
    BY <1>1
  <2>2. start = [NoOutput EXCEPT !.headers = HeaderSize, !.headOnly = h]
    BY <1>2, <2>1
  <2> QED
    BY <1>1, <2>1, <2>2, NoOutputIsOutput DEF Outputs, NoOutput
<1>4. PICK o : o = SetResponseContent(r)
  OBVIOUS
<1>5. CASE ~r.file
  <2>1. o = [start EXCEPT !.source = "text", !.left = TextSize]
    BY <1>2, <1>4, <1>5 DEF SetResponseContent
  <2>2. PICK n \in Nat : n = TextSize
    BY <1>1
  <2>3. o \in Outputs /\ o.headOnly = r.head /\ o.offset = 0 /\ o.left = n
    BY <1>3, <2>1, <2>2 DEF Outputs
  <2> QED
    BY <1>4, <1>5, <2>2, <2>3
<1>6. CASE r.file /\ ~disk.linked
  BY <1>2, <1>3, <1>4, <1>6 DEF SetResponseContent
<1>7. CASE r.file /\ disk.linked
  <2>1. PICK n \in Nat : n = IF r.count < 0 THEN Greatest(0, disk.size - r.from) ELSE r.count
    BY <1>1 DEF Greatest
  <2>2. PICK from \in Nat : from = r.from
    BY <1>1
  <2>3. o = [start EXCEPT !.source = "file", !.offset = from, !.left = n]
    BY <1>2, <1>4, <1>7, <2>1, <2>2 DEF SetResponseContent
  <2>4. /\ o \in Outputs /\ o.headOnly = r.head /\ o.offset = from /\ o.left = n
    BY <1>3, <2>3 DEF Outputs
  <2>5. r.count >= 0 => n = r.count
    BY <1>1, <2>1
  <2> QED
    BY <1>4, <1>7, <2>2, <2>4, <2>5
<1> QED
  BY <1>5, <1>6, <1>7

LEMMA CompletionIsSound ==
  ASSUME WriterInv, ProcessCompletion
  PROVE  WriterInv'
<1>1. disk \in Disks /\ reply \in Replies /\ link \in Links
  BY WriterTypes DEF WriterInv
<1>2. /\ out' = SetResponseContent(reply) /\ stage = "applied" /\ stage' = "writing"
      /\ link' = [link EXCEPT !.armed = "write"] /\ got' = <<>>
      /\ UNCHANGED <<sent, unread, queued, query, reply, room, disk, harmed>>
  BY DEF ProcessCompletion
<1>3. PICK o : o = SetResponseContent(reply)
  OBVIOUS
<1>4. /\ o \in Outputs /\ o.headOnly = reply.head
      /\ ~reply.file => o.offset = 0 /\ o.left = TextSize
      /\ reply.file /\ ~disk.linked => o.offset = 0 /\ o.left = 0
      /\ reply.file /\ disk.linked /\ reply.count >= 0 =>
           o.offset = reply.from /\ o.left = reply.count
  BY <1>1, <1>3, ContentIsOutput
<1>5. link' \in Links /\ link'.shaken = link.shaken /\ link'.armed = "write"
  BY <1>1, <1>2 DEF Links
<1>6. got' \in Seq(Nat) /\ Len(got') = 0
  BY <1>2, EmptySeq
<1>7. WriterTypeOK'
  BY <1>2, <1>3, <1>4, <1>5, <1>6, WriterTypes, NextWriterTypes DEF WriterInv
<1>8. ReplyInv'
  BY <1>2 DEF WriterInv, ReplyInv
<1>9. ASSUME ~harmed
      PROVE  ~o.headOnly => o.left = Sends(reply) /\ o.offset = reply.from
  <2>1. Fits(query, reply) /\ (reply.file => (disk.linked <=> reply.count >= 0))
    BY <1>2, <1>9 DEF WriterInv, ReplyInv
  <2>2. /\ reply.count \in Nat \cup {-1} /\ reply.file \in BOOLEAN
        /\ disk.linked \in BOOLEAN
    BY <1>1, ReplyNumbers DEF Disks
  <2>3. CASE ~reply.file
    BY <1>4, <2>1, <2>3 DEF Fits
  <2>4. CASE reply.file /\ disk.linked
    BY <1>4, <2>1, <2>4 DEF Fits
  <2>5. CASE reply.file /\ ~disk.linked
    <3>1. reply.from = 0 /\ Sends(reply) = 0
      BY <2>1, <2>2, <2>5 DEF Fits
    <3> QED
      BY <1>4, <2>5, <3>1
  <2> QED
    BY <2>2, <2>3, <2>4, <2>5
<1>10. OutInv'
  <2>1. reply.from \in Nat /\ Sends(reply) \in Int
    BY <1>1, ReplyNumbers DEF Sends
  <2>2. got' = Stretch(reply.from, 0)
    <3>1. 1..0 = {}
      OBVIOUS
    <3>2. Stretch(reply.from, 0) \in [1..0 -> Int]
      BY <2>1 DEF Stretch
    <3> QED
      BY <1>2, <3>1, <3>2, EmptySeq
  <2> QED
    BY <1>2, <1>3, <1>4, <1>6, <1>9, <2>1, <2>2 DEF OutInv
<1>11. InHand'
  BY <1>2, <1>5 DEF WriterInv, InHand
<1> QED
  BY <1>7, <1>8, <1>10, <1>11 DEF WriterInv

\* The file changes under the request in hand.
LEMMA ResizeIsSound ==
  ASSUME WriterInv, ResizeFile
  PROVE  WriterInv'
<1>1. PICK n \in FileSizes :
        /\ disk' = [disk EXCEPT !.size = n, !.changes = @ + 1]
        /\ harmed' = (harmed \/ NeedsMoreThan(n))
  BY DEF ResizeFile
<1>2. UNCHANGED <<link, sent, unread, queued, stage, query, reply, out, room, got>>
  BY DEF ResizeFile
<1>3. disk \in Disks /\ disk.linked /\ n \in Nat /\ harmed \in BOOLEAN
  BY WriterTypes, WriterAssumption DEF WriterInv, ResizeFile
<1>4. disk' \in Disks /\ disk'.linked
  <2>1. PICK c \in Nat : c = disk.changes + 1
    BY <1>3 DEF Disks
  <2>2. disk' = [disk EXCEPT !.size = n, !.changes = c]
    BY <1>1, <2>1
  <2> QED
    BY <1>3, <2>2 DEF Disks
<1>5. harmed' \in BOOLEAN /\ (harmed => harmed')
  BY <1>1, <1>3 DEF NeedsMoreThan
<1>6. WriterTypeOK'
  BY <1>2, <1>4, <1>5, WriterTypes, NextWriterTypes DEF WriterInv
<1>7. ASSUME stage = "made", ~harmed'
      PROVE  Fresh(reply)'
  <2>1. Fresh(reply)
    BY <1>5, <1>7 DEF WriterInv, ReplyInv
  <2> QED
    BY <1>2, <1>3, <1>4, <2>1 DEF Fresh
<1>8. stage \in {"idle", "dispatched"} => ~harmed'
  BY <1>1, NoReplyIsReply DEF WriterInv, ReplyInv, NeedsMoreThan
<1>9. ReplyInv'
  <2>1. stage \in {"applied", "writing"} /\ ~harmed' => Fits(query, reply)
    BY <1>5 DEF WriterInv, ReplyInv
  <2>2. stage = "applied" /\ ~harmed' /\ reply.file => (disk.linked <=> reply.count >= 0)
    BY <1>5 DEF WriterInv, ReplyInv
  <2>3. /\ stage \in {"idle", "dispatched"} => reply = NoReply
        /\ stage = "made" => reply.status = 200
    BY DEF WriterInv, ReplyInv
  <2>4. stage = "made" /\ ~harmed' => Fresh(reply)'
    BY <1>7
  <2> HIDE DEF Fresh
  <2> QED
    BY <1>2, <1>3, <1>4, <1>8, <2>1, <2>2, <2>3, <2>4 DEF ReplyInv
<1>10. OutInv'
  BY <1>2, <1>5 DEF WriterInv, OutInv
<1>11. InHand'
  BY <1>2 DEF WriterInv, InHand
<1> QED
  BY <1>6, <1>9, <1>10, <1>11 DEF WriterInv

LEMMA RemoveIsSound ==
  ASSUME WriterInv, RemoveFile
  PROVE  WriterInv'
<1>1. /\ disk' = [disk EXCEPT !.linked = FALSE, !.changes = @ + 1]
      /\ harmed' = (harmed \/ (reply.file /\ stage \in {"made", "applied"}))
      /\ UNCHANGED <<link, sent, unread, queued, stage, query, reply, out, room, got>>
  BY DEF RemoveFile
<1>2. disk \in Disks /\ disk.linked /\ harmed \in BOOLEAN
  BY WriterTypes DEF WriterInv, RemoveFile
<1>3. disk' \in Disks
  <2>1. PICK c \in Nat : c = disk.changes + 1
    BY <1>2 DEF Disks
  <2>2. disk' = [disk EXCEPT !.linked = FALSE, !.changes = c]
    BY <1>1, <2>1
  <2> QED
    BY <1>2, <2>2 DEF Disks
<1>4. harmed' \in BOOLEAN /\ (harmed => harmed')
  BY <1>1, <1>2
<1>5. WriterTypeOK'
  BY <1>1, <1>3, <1>4, WriterTypes, NextWriterTypes DEF WriterInv
<1>6. ASSUME stage = "made", ~harmed'
      PROVE  Fresh(reply)'
  <2>1. ~reply.file
    BY <1>1, <1>6
  <2>2. Fresh(reply)
    BY <1>4, <1>6 DEF WriterInv, ReplyInv
  <2> QED
    BY <1>1, <2>1, <2>2 DEF Fresh
<1>7. stage \in {"idle", "dispatched"} => ~harmed'
  BY <1>1, NoReplyIsReply DEF WriterInv, ReplyInv
<1>8. ReplyInv'
  BY <1>1, <1>4, <1>6, <1>7 DEF WriterInv, ReplyInv
<1>9. OutInv'
  BY <1>1, <1>4 DEF WriterInv, OutInv
<1>10. InHand'
  BY <1>1 DEF WriterInv, InHand
<1> QED
  BY <1>5, <1>8, <1>9, <1>10 DEF WriterInv

LEMMA NextWriterInv == WriterInv /\ [WriterNext]_writerVars => WriterInv'
<1> SUFFICES ASSUME WriterInv, [WriterNext]_writerVars
             PROVE  WriterInv'
  OBVIOUS
<1>1. /\ link \in Links /\ sent \in Nat /\ unread \in Nat /\ queued \in Nat /\ room \in Nat
      /\ out \in Outputs /\ got \in Seq(Nat) /\ Room \in Nat
  BY WriterTypes, WriterAssumption DEF WriterInv
<1>2. CASE UNCHANGED writerVars
  BY <1>1, <1>2, UntouchedReply DEF writerVars
<1>3. CASE HandleClientData
  BY <1>1, <1>3, ReadIsSound DEF HandleClientData
<1>4. CASE ClientSends
  BY <1>1, <1>4, UntouchedReply DEF ClientSends
<1>5. CASE ClientReads
  <2>1. room' \in Nat
    BY <1>1, <1>5 DEF ClientReads
  <2> QED
    BY <1>1, <1>5, <2>1, UntouchedReply DEF ClientReads
<1> QED
  BY <1>2, <1>3, <1>4, <1>5, HandshakeIsSound, WriteIsSound, HandlerIsSound, SemanticsIsSound,
     CompletionIsSound, ResizeIsSound, RemoveIsSound DEF WriterNext, WriterRests

LEMMA WriterInvariance == WriterInit /\ [][WriterNext]_writerVars => []WriterInv
BY InitWriterInv, NextWriterInv, PTL

\* Every variable of the connection's output keeps its type, and no count goes below
\* zero.
THEOREM WriterTypesHold == WriterSpec => []WriterTypeOK
<1>1. WriterInv => WriterTypeOK
  BY DEF WriterInv
<1> QED
  BY <1>1, WriterInvariance, PTL DEF WriterSpec

\* Nobody has touched the file: every length announced is the one that goes out.
Labelled ==
  disk.changes = 0 =>
    /\ disk.linked
    /\ stage = "made" /\ reply.file => reply.measured /\ reply.length = disk.size
    /\ stage \in {"applied", "writing"} => ~Mislabelled(reply)

LEMMA NextLabelled ==
  WriterInv /\ Labelled /\ [WriterNext]_writerVars => Labelled'
<1> SUFFICES ASSUME WriterInv, Labelled, [WriterNext]_writerVars, disk'.changes = 0
             PROVE  Labelled'
  BY DEF Labelled
<1>1. /\ disk \in Disks /\ reply \in Replies /\ query \in ClientQueries
      /\ link \in Links /\ queued \in Nat /\ unread \in Nat
  BY WriterTypes DEF WriterInv
<1>2. ASSUME disk' = disk
      PROVE  disk'.linked /\ disk.linked /\ disk.changes = 0
  BY <1>2 DEF Labelled
<1>3. CASE UNCHANGED <<stage, reply, disk>>
  BY <1>2, <1>3 DEF Labelled, Mislabelled
<1>4. ASSUME UNCHANGED disk, stage' \in {"idle", "dispatched"}
      PROVE  Labelled'
  BY <1>2, <1>4 DEF Labelled
<1>5. ASSUME NEW n \in Nat, NEW now, DispatchNext(n, now), UNCHANGED disk
      PROVE  Labelled'
  <2>1. stage' \in {"idle", "dispatched"}
    BY <1>5 DEF DispatchNext
  <2> QED
    BY <1>4, <1>5, <2>1
<1>6. ASSUME NEW now, ReadData(now), UNCHANGED disk
      PROVE  Labelled'
  <2>1. queued + unread \in Nat
    BY <1>1
  <2> QED
    BY <1>5, <1>6, <2>1 DEF ReadData
<1>7. CASE HandleClientData
  BY <1>6, <1>7 DEF HandleClientData
<1>8. CASE DriveHandshake
  BY <1>3, <1>6, <1>8 DEF DriveHandshake
<1>9. CASE HandleWriteReady
  <2>1. PICK now : \/ UNCHANGED <<stage, reply>>
                   \/ DispatchNext(queued, now)
    BY <1>9 DEF HandleWriteReady, SendResponse
  <2>2. UNCHANGED disk
    BY <1>9 DEF HandleWriteReady
  <2> QED
    BY <1>1, <1>3, <1>5, <2>1, <2>2
<1>10. CASE RunHandler
  <2>1. reply' = Made(query) /\ stage' = "made" /\ disk' = disk
    BY <1>10 DEF RunHandler
  <2>2. disk.linked /\ Made(query).file =>
          Made(query).measured /\ Made(query).length = disk.size
    BY <1>1, MadeIsReply, QueriesAsk
  <2> QED
    BY <1>2, <2>1, <2>2 DEF Labelled
<1>11. CASE ApplyHttpSemantics
  <2>1. reply' = Semantics(query, reply) /\ stage = "made" /\ stage' = "applied" /\ disk' = disk
    BY <1>11 DEF ApplyHttpSemantics
  <2>2. reply.file => reply.measured /\ reply.length = disk.size
    BY <1>2, <2>1 DEF Labelled
  <2>3. reply.status = 200
    BY <2>1 DEF WriterInv, ReplyInv
  <2>4. PICK s : s = Semantics(query, reply)
    OBVIOUS
  <2>5. s.file = reply.file /\ (reply.file => ~Mislabelled(s))
    BY <1>1, <1>2, <2>1, <2>2, <2>3, <2>4, QueriesAsk, SemanticsIsReply
  <2>6. ~Mislabelled(s)
    BY <2>5 DEF Mislabelled
  <2>7. ~Mislabelled(reply)'
    BY <2>1, <2>4, <2>6 DEF Mislabelled
  <2> QED
    BY <1>2, <2>1, <2>7 DEF Labelled
<1>12. CASE ProcessCompletion
  <2>1. stage = "applied" /\ stage' = "writing" /\ UNCHANGED <<reply, disk>>
    BY <1>12 DEF ProcessCompletion
  <2> QED
    BY <1>2, <2>1 DEF Labelled, Mislabelled
<1>13. CASE ResizeFile \/ RemoveFile
  <2>1. disk.changes \in Nat
    BY <1>1 DEF Disks
  <2>2. disk'.changes = disk.changes + 1
    BY <1>1, <1>13 DEF ResizeFile, RemoveFile, Disks
  <2> QED
    BY <2>1, <2>2
<1>14. CASE ClientSends \/ ClientReads \/ WriterRests \/ UNCHANGED writerVars
  BY <1>3, <1>14 DEF ClientSends, ClientReads, WriterRests, writerVars
<1> QED
  BY <1>7, <1>8, <1>9, <1>10, <1>11, <1>12, <1>13, <1>14 DEF WriterNext

\* Connection.cpp:195-300: when write_data says that a response is out, the client
\* was sent the body its headers announce, in order and once, for every size of file,
\* text, headers and send buffer, over plain TCP and TLS.  Two things are left out: a
\* file that went, or became too short for what was left to send; and the length of a
\* whole file that was resized between the handler and apply_http_semantics, which is
\* sent in full under its old Content-Length.
THEOREM SentAsAnnounced == WriterSpec => BodyAsAnnounced
<1>1. ASSUME WriterInv, Labelled, [WriterNext]_writerVars,
             stage = "writing", stage' # "writing", ~harmed
      PROVE  /\ AsAnnounced(query, reply, got')
             /\ disk.changes = 0 => ~Mislabelled(reply)
  <2>1. HandleWriteReady
    BY <1>1 DEF WriterInv, InHand, WriterNext, writerVars, HandleClientData, DriveHandshake,
                RunHandler, ApplyHttpSemantics, ProcessCompletion, ClientSends, ClientReads,
                ResizeFile, RemoveFile, WriterRests
  <2>2. disk.changes = 0 => ~Mislabelled(reply)
    BY <1>1 DEF Labelled
  <2> QED
    BY <1>1, <2>1, <2>2, WriteIsSound
<1>2. WriterInv /\ Labelled /\ [WriterNext]_writerVars =>
        [stage = "writing" /\ stage' # "writing" /\ ~harmed
           => /\ AsAnnounced(query, reply, got')
              /\ disk.changes = 0 => ~Mislabelled(reply)]_writerVars
  BY <1>1
<1>3. WriterInit => Labelled
  BY DEF WriterInit, Labelled
<1> QED
  BY <1>2, <1>3, WriterInvariance, NextLabelled, PTL DEF WriterSpec, BodyAsAnnounced
=============================================================================
