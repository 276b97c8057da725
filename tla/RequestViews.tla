---------------------------- MODULE RequestViews ----------------------------
(***************************************************************************)
(* Whose bytes the string_views of a request show: the read buffer of a    *)
(* connection, which dispatch_next consumes under them, and the copy that  *)
(* make_owned takes (src/src/http/HttpRequest.cpp), through the moves and  *)
(* copies a request goes through until the last of them is destroyed.      *)
(*                                                                         *)
(* A request is one unit of the buffer; memory is that buffer and blocks,  *)
(* the storage of std::strings too long to lie in the object itself.  The  *)
(* views of path, version, headers, query and body move together.          *)
(*                                                                         *)
(* An operator whose name starts with Faulty is a mutant of the definition *)
(* that follows it.                                                        *)
(***************************************************************************)
EXTENDS Naturals, Sequences, FiniteSets

CONSTANTS
  Tasks,      \* HttpRequest objects of tasks
  Copies,     \* those that handlers make
  BlockIds,   \* memory blocks, enough for all of them
  MaxArrivals \* bound: requests received

ASSUME ViewsAssumption ==
  /\ Tasks \cap Copies = {} /\ MaxArrivals \in Nat
  /\ IsFiniteSet(BlockIds) /\ Cardinality(BlockIds) >= Cardinality(Tasks \cup Copies)

VARIABLES
  bytes,   \* read_buffer_: the request each unit is of; what is consumed may still be there
  unread,     \* read_buffer_fill_
  blocks,   \* the live blocks and the request whose bytes they hold
  object,   \* the live requests
  arrived   \* history: requests received

viewVars == <<bytes, unread, blocks, object, arrived>>

InBuffer(i) == [block |-> FALSE, where |-> i]
InBlock(b) == [block |-> TRUE, where |-> b]
Nowhere == InBuffer(0)

ViewsInit ==
  /\ bytes = <<>> /\ unread = 0 /\ blocks = <<>> /\ object = <<>> /\ arrived = 0

\* What is read at a place: a request, or 0 for no live memory.
BytesAt(place) ==
  IF place.block THEN IF place.where \in DOMAIN blocks THEN blocks[place.where] ELSE 0
  ELSE IF place.where \in 1..unread THEN bytes[place.where] ELSE 0

With(f, x, y) == [z \in DOMAIN f \cup {x} |-> IF z = x THEN y ELSE f[z]]
Without(f, S) == [z \in DOMAIN f \ S |-> f[z]]

-----------------------------------------------------------------------------
(* The loop.                                                               *)

\* read_data appends.
Arrive ==
  /\ arrived < MaxArrivals
  /\ arrived' = arrived + 1 /\ unread' = unread + 1
  /\ bytes' = SubSeq(bytes, 1, unread) \o <<arrived + 1>>
  /\ UNCHANGED <<blocks, object>>

\* The bytes make_owned copies.
OwnedBytes == BytesAt(InBuffer(1))

\* dispatch_next: parse_next, the move out of current_request_, make_owned, consume.
MoveToTask(t) ==
  /\ unread > 0 /\ t \notin DOMAIN object
  /\ \E b \in BlockIds \ DOMAIN blocks :
       /\ blocks' = With(blocks, b, OwnedBytes)
       /\ object' = With(object, t,
            [request |-> bytes[1], views |-> InBlock(b), params |-> Nowhere,
             storage |-> b, copied |-> FALSE])
  /\ unread' = unread - 1 /\ bytes' = Tail(bytes)
  /\ UNCHANGED arrived

\* The worker: path_params_ are set, the values are parts of the path.
SetParams(t) ==
  /\ t \in DOMAIN object /\ object[t].params = Nowhere
  /\ object' = [object EXCEPT ![t].params = object[t].views]
  /\ UNCHANGED <<bytes, unread, blocks, arrived>>

-----------------------------------------------------------------------------
(* Handlers.                                                               *)

\* The views go on showing the storage of the original.
FaultyRebased(views, from, to) == views

\* rebase_views.
Rebased(views, from, to) == IF views = InBlock(from) THEN InBlock(to) ELSE views

\* copy_from.  path_params_ is copied as it is.
CopyRequest(o, c) ==
  /\ o \in DOMAIN object /\ c \notin DOMAIN object
  /\ \E b \in BlockIds \ DOMAIN blocks :
       /\ blocks' = With(blocks, b, blocks[object[o].storage])
       /\ object' = With(object, c,
            [object[o] EXCEPT !.views = Rebased(@, object[o].storage, b),
                              !.storage = b, !.copied = TRUE])
  /\ UNCHANGED <<bytes, unread, arrived>>

\* move_from: the storage changes its owner and stays where it is.  What is left of
\* the original is not read again.
MoveRequest(o, c) ==
  /\ o \in DOMAIN object /\ c \notin DOMAIN object
  /\ object' = With(Without(object, {o}), c, object[o])
  /\ UNCHANGED <<bytes, unread, blocks, arrived>>

\* The task is over, or the handler forgets its copy.
Destroy(o) ==
  /\ o \in DOMAIN object
  /\ blocks' = Without(blocks, {object[o].storage})
  /\ object' = Without(object, {o})
  /\ UNCHANGED <<bytes, unread, arrived>>

ViewsNext ==
  \/ Arrive
  \/ \E t \in Tasks : MoveToTask(t) \/ SetParams(t)
  \/ \E o \in Tasks \cup Copies, c \in Copies : CopyRequest(o, c) \/ MoveRequest(o, c)
  \/ \E o \in Tasks \cup Copies : Destroy(o)
  \/ arrived = MaxArrivals /\ UNCHANGED viewVars

ViewsSpec == ViewsInit /\ [][ViewsNext]_viewVars

-----------------------------------------------------------------------------
(* Properties.                                                             *)

ViewsTypeOK ==
  /\ unread = Len(bytes) /\ arrived \in 0..MaxArrivals
  /\ DOMAIN blocks \subseteq BlockIds /\ DOMAIN object \subseteq Tasks \cup Copies

\* A request can outlive the connection's read buffer (make_owned) and its copies and
\* moves are as good as it is (HttpRequest.h): every view shows bytes of the request,
\* whatever was received, consumed and destroyed meanwhile, and every block has one
\* owner.  The parameters of a copy are left out: they show the storage of the
\* request that was routed, which may be gone.
ViewsHold ==
  /\ \A o \in DOMAIN object :
       /\ BytesAt(object[o].views) = object[o].request
       /\ object[o].params = Nowhere \/ object[o].copied
            \/ BytesAt(object[o].params) = object[o].request
  /\ \A b \in DOMAIN blocks : \E o \in DOMAIN object : object[o].storage = b
  /\ \A o, p \in DOMAIN object : object[o].storage = object[p].storage => o = p
=============================================================================
