--------------------------- MODULE HttpConnection ---------------------------
(***************************************************************************)
(* One connection of the REST server (src/http/http_server.cpp, the epoll  *)
(* build): the only thread of the server collects a request in a circular  *)
(* buffer, parses it when its header is there, waits for its body, routes  *)
(* it, queues the response, sends it and closes the connection.            *)
(*                                                                         *)
(* A client sends numbered requests, of which the server means to answer   *)
(* the first only ("Connection: close").  Byte i of request n is <<n, i>>; *)
(* its header is its first head bytes, and the bytes of the response to it *)
(* are <<n, i, status>>.  What a parser finds in the text of a header is   *)
(* given by the kind of the request: its method, the segments of its path  *)
(* and where the Content-Length line stands.                               *)
(***************************************************************************)
EXTENDS CircularBuffer, FiniteSets

CONSTANTS
  Capacity,        \* capacity of read_buf and of write_buf (128KB)
  MaxBodySize,     \* kMaxBodySize (1MB)
  SocketRoom,      \* room in the kernel's send buffer
  Kinds,           \* kinds of requests
  MaxRequests,     \* bound on the requests sent
  MaxRouted        \* how many calls of handlers are kept in the history

\* line says whether the request line has its two spaces; length says whether
\* Content-Length is missing, one of the first headers, or the last one.
KindFields == {"line", "method", "path", "length", "head", "body", "resp"}

ASSUME HttpAssumption ==
  /\ {Capacity, SocketRoom, MaxRequests, MaxRouted} \subseteq Nat \ {0} /\ MaxBodySize \in Nat
  /\ \A k \in Kinds :
       /\ DOMAIN k = KindFields
       /\ k.line \in BOOLEAN /\ k.length \in {"none", "first", "last"}
       /\ k.head \in Nat \ {0} /\ k.body \in Nat /\ k.resp \in Nat \ {0}
       /\ k.length = "none" => k.body = 0

VARIABLES
  requests,        \* the kinds of the requests sent so far
  peer,            \* "open", "shut" (no more requests will come) or "reset"
  wire,            \* bytes on their way to the server
  inq,             \* bytes in the server's receive queue
  pc,              \* the server: "wait" in epoll_wait, or "process" in process_request
  is_open,         \* whether connections_ has the connection
  read_buf, write_buf,
  epollout,        \* whether EPOLLOUT is registered for the socket
  routed,          \* history: the first calls of handlers by route_request
  outq,            \* response bytes in the kernel's send buffer
  received         \* response bytes the client has got

client == <<requests, peer, wire, received>>
buffers == <<read_buf, write_buf, epollout>>
vars == <<client, inq, pc, is_open, buffers, routed, outq>>

Fin == <<0, 0>>
Rst == <<0, 1>>

RequestBytes(n, k) == [i \in 1 .. k.head + k.body |-> <<n, i>>]
ResponseBytes(n, status) == [i \in 1 .. requests[n].resp |-> <<n, i, status>>]

\* The connection as accept_connections has registered it, with EPOLLIN.
Init ==
  /\ requests = <<>> /\ peer = "open" /\ wire = <<>> /\ received = <<>>
  /\ inq = <<>> /\ outq = <<>>
  /\ pc = "wait" /\ is_open = TRUE
  /\ read_buf = Empty(Capacity, Fin) /\ write_buf = Empty(Capacity, Fin)
  /\ epollout = FALSE
  /\ routed = <<>>

-----------------------------------------------------------------------------
(***************************************************************************)
(* The client and the network                                              *)
(***************************************************************************)

SendRequest(k) ==
  /\ peer = "open" /\ Len(requests) < MaxRequests
  /\ requests' = Append(requests, k)
  /\ wire' = wire \o RequestBytes(Len(requests'), k)
  /\ UNCHANGED <<peer, received, inq, pc, is_open, buffers, routed, outq>>

\* The client shuts its sending half down, or closes its socket.
Shutdown ==
  /\ peer = "open"
  /\ peer' = "shut" /\ wire' = Append(wire, Fin)
  /\ UNCHANGED <<requests, received, inq, pc, is_open, buffers, routed, outq>>

\* The client dies or the network fails.
Reset ==
  /\ peer # "reset"
  /\ peer' = "reset" /\ wire' = <<Rst>>
  /\ UNCHANGED <<requests, received, inq, pc, is_open, buffers, routed, outq>>

Deliver(n) ==
  /\ is_open
  /\ wire' = SubSeq(wire, n + 1, Len(wire))
  /\ inq' = IF wire[1] = Rst THEN <<Rst>> ELSE inq \o SubSeq(wire, 1, n)
  /\ UNCHANGED <<requests, peer, received, pc, is_open, buffers, routed, outq>>

IsData(q) == \E i \in 1 .. Len(q) : q[i] \notin {Fin, Rst}

\* Bytes for a socket that is closed are answered with a reset, which may take
\* the response bytes with it that the client has not read.
DeliverLate ==
  /\ ~is_open /\ wire # <<>>
  /\ wire' = <<>>
  /\ outq' \in IF IsData(wire) THEN {outq, <<>>} ELSE {outq}
  /\ UNCHANGED <<requests, peer, received, inq, pc, is_open, buffers, routed>>

ReceiveResponse ==
  /\ peer # "reset" /\ outq # <<>>
  /\ received' = received \o outq /\ outq' = <<>>
  /\ UNCHANGED <<requests, peer, wire, inq, pc, is_open, buffers, routed>>

-----------------------------------------------------------------------------
(***************************************************************************)
(* Reading                                                                 *)
(***************************************************************************)

\* close() of a socket with unread bytes resets the connection at once.
close_connection ==
  /\ is_open' = FALSE /\ pc' = "wait"
  /\ outq' \in IF IsData(inq) THEN {outq, <<>>} ELSE {outq}
  /\ UNCHANGED <<client, inq, buffers, routed>>

\* One recv of as much as fits; the tail never moves, so that nothing wraps.
Recv(b, q) == Receive(b, SubSeq(q, 1, Smaller(write_head(b), Len(q))))

\* The bytes in front of the end of the stream.
DataBytes(q) == IF q # <<>> /\ q[Len(q)] = Fin THEN SubSeq(q, 1, Len(q) - 1) ELSE q

\* What is left of the receive queue when read_buf has become b.
Left(b) == SubSeq(inq, b.head - read_buf.head + 1, Len(inq))

EndOfStream(b) == Left(b) = <<Fin>> /\ free_space(b) > 0

\* EPOLLIN: recv until nothing is left or the buffer is full.  The end of the
\* stream closes the connection before what was received is looked at.
handle_read ==
  /\ is_open /\ pc = "wait"
  /\ inq # <<>> /\ inq[1] # Rst
  /\ \E filled \in {Recv(read_buf, DataBytes(inq))} :
       \/ EndOfStream(filled) /\ close_connection
       \/ /\ ~EndOfStream(filled)
          /\ read_buf' = filled /\ inq' = Left(filled)
          /\ pc' = "process"
          /\ UNCHANGED <<client, is_open, write_buf, epollout, routed, outq>>

-----------------------------------------------------------------------------
(***************************************************************************)
(* process_request.  The read buffer keeps the request after it has been   *)
(* routed: each call begins again with the first byte of the connection.   *)
(***************************************************************************)

data == peek(read_buf, size(read_buf))

\* The places where a header of the data ends.
HeaderEnds(s) == {i \in 1 .. Len(s) : s[i][2] = requests[s[i][1]].head}
header_end == CHOOSE i \in HeaderEnds(data) : \A j \in HeaderEnds(data) : i <= j

\* The request whose header comes first, as the parsers find it.
First == requests[data[1][1]]

\* parse_headers is given the header lines without the end of the last one, and
\* keeps only lines that have an end: the last header is not seen.
content_length == IF First.length = "first" THEN First.body ELSE 0

total_needed == header_end + content_length

Processing == is_open /\ pc = "process"
Parsed == Processing /\ HeaderEnds(data) # {} /\ First.line

queue_write(bytes) == write_buf' = write(write_buf, bytes)

\* Mutant of enable_write: the registration is left as it is.
LeaveWrite == UNCHANGED epollout

enable_write == epollout' = TRUE

Wait ==
  /\ pc' = "wait"
  /\ UNCHANGED <<client, inq, is_open, read_buf, outq>>

incomplete_headers ==
  /\ Processing /\ HeaderEnds(data) = {}
  /\ Wait /\ UNCHANGED <<write_buf, epollout, routed>>

bad_request_line ==
  /\ Processing /\ HeaderEnds(data) # {} /\ ~First.line
  /\ close_connection

body_too_large ==
  /\ Parsed /\ content_length > MaxBodySize
  /\ queue_write(ResponseBytes(data[1][1], "413")) /\ enable_write
  /\ Wait /\ UNCHANGED routed

\* Mutants of BodyComplete: the body is not waited for; the header is not counted.
HeaderComplete == TRUE
BodyAlone == Len(data) >= content_length

BodyComplete == Len(data) >= total_needed

incomplete_body ==
  /\ Parsed /\ content_length <= MaxBodySize /\ ~BodyComplete
  /\ Wait /\ UNCHANGED <<write_buf, epollout, routed>>

\* A path is the sequence of its segments; one slash at its end is dropped.
Stripped(path) ==
  IF Len(path) > 1 /\ path[Len(path)] = "" THEN SubSeq(path, 1, Len(path) - 1) ELSE path

Call(handler, arg) == [handler |-> handler, arg |-> arg]
NotFound == Call("404", <<>>)
NotAllowed == Call("405", <<>>)

\* The handlers of a resource by method.
Of(table, method, arg) ==
  IF method \in DOMAIN table THEN Call(table[method], arg) ELSE NotAllowed

TopicHandlers == [GET |-> "handle_get_topic", DELETE |-> "handle_delete_topic"]
MessageHandlers == [GET |-> "handle_get_messages", POST |-> "handle_post_messages"]
GroupHandlers == [GET |-> "handle_get_group"]
ListHandlers ==
  [broker |-> "handle_get_broker", topics |-> "handle_get_topics", groups |-> "handle_get_groups"]

\* route_request: rest is what follows /v1/.
route_request(method, path) ==
  LET p    == Stripped(path)
      rest == Tail(p)
      arg  == Tail(rest)
  IN  CASE Len(p) < 2 \/ p[1] # "v1" -> NotFound
        [] Len(p) = 2 /\ p[1] = "v1" ->
             IF method = "GET" /\ rest[1] \in DOMAIN ListHandlers
             THEN Call(ListHandlers[rest[1]], <<>>) ELSE NotFound
        [] Len(p) > 2 /\ p[1] = "v1" /\ rest[1] = "topics" /\ Len(arg) = 1 ->
             Of(TopicHandlers, method, arg)
        [] Len(p) > 2 /\ p[1] = "v1" /\ rest[1] = "topics" /\ Len(arg) = 2 /\ arg[2] = "messages" ->
             Of(MessageHandlers, method, <<arg[1]>>)
        [] Len(p) > 2 /\ p[1] = "v1" /\ rest[1] = "groups" -> Of(GroupHandlers, method, arg)
        [] OTHER -> NotFound

route ==
  /\ Parsed /\ content_length <= MaxBodySize /\ BodyComplete
  /\ \E call \in {[call |-> route_request(First.method, First.path),
                  body |-> SubSeq(data, header_end + 1, Smaller(total_needed, Len(data)))]} :
       routed' = IF Len(routed) < MaxRouted THEN Append(routed, call) ELSE routed
  /\ queue_write(ResponseBytes(data[1][1], "200")) /\ enable_write
  /\ Wait

-----------------------------------------------------------------------------
(***************************************************************************)
(* Writing                                                                 *)
(***************************************************************************)

Sendable(b, q) == Smaller(read_head(b), SocketRoom - Len(q))

\* Mutant of Sent: the connection counts as done after any send.
SentSome(b) == TRUE

Sent(b) == empty(b)

\* EPOLLOUT without EPOLLIN: send until the socket is full or nothing is left,
\* to the end of the storage and then from its start; close when all is sent.
handle_write ==
  /\ is_open /\ pc = "wait"
  /\ inq = <<>> /\ epollout /\ Len(outq) < SocketRoom
  /\ LET n1 == Sendable(write_buf, outq)
         q1 == outq \o peek(write_buf, n1)
         b1 == advance_tail(write_buf, n1)
         n2 == Sendable(b1, q1)
     IN  /\ outq' = q1 \o peek(b1, n2)
         /\ write_buf' = advance_tail(b1, n2)
  /\ is_open' = ~Sent(write_buf')
  /\ UNCHANGED <<client, inq, pc, read_buf, epollout, routed>>

\* EPOLLERR or EPOLLHUP, or recv or send fails: the reset has arrived.
socket_error ==
  /\ is_open /\ pc = "wait"
  /\ inq # <<>> /\ inq[1] = Rst
  /\ close_connection

-----------------------------------------------------------------------------
Client == (\E k \in Kinds : SendRequest(k)) \/ Shutdown \/ Reset
Network == (\E n \in 1 .. Len(wire) : Deliver(n)) \/ DeliverLate
process_request ==
  incomplete_headers \/ bad_request_line \/ body_too_large \/ incomplete_body \/ route
Server == handle_read \/ process_request \/ handle_write \/ socket_error

Next == Client \/ ReceiveResponse \/ Network \/ Server

\* The server's loop never rests, the network delivers, and a client reads.
Spec == Init /\ [][Next]_vars /\ WF_vars(Server) /\ WF_vars(Network) /\ WF_vars(ReceiveResponse)

-----------------------------------------------------------------------------
(***************************************************************************)
(* Properties                                                              *)
(***************************************************************************)

BodyBytes(n) == SubSeq(RequestBytes(n, requests[n]), requests[n].head + 1,
                       requests[n].head + requests[n].body)

\* docs/ARCHITECTURE.md, line 230: "Parses HTTP request line, headers, and
\* Content-Length-based body".  A handler gets the body its client sent.
BodyDelivered == \A j \in 1 .. Len(routed) : routed[j].body = BodyBytes(1)

\* However the network cuts the stream, and whatever follows the first request
\* of a connection, route_request is called for that request only, never before
\* its body is complete; and its handler gets exactly the body, provided that
\* Content-Length is not the last header.
RoutedWhole ==
  /\ \A j \in 1 .. Len(routed) :
       routed[j].call = route_request(requests[1].method, requests[1].path)
  /\ requests # <<>> /\ requests[1].length # "last" => BodyDelivered

\* The client sends one request on the connection, as "Connection: close" asks for.
Sole == Len(requests) = 1

\* A request that is alone on its connection is routed at most once, although
\* process_request never takes it out of the read buffer: its handler does not
\* produce or delete twice.  A client that may shut its side down early must
\* leave room in the read buffer, or the end of its stream is never seen.
RoutedOnce ==
  Sole /\ requests[1].length # "last"
       /\ (peer = "open" \/ requests[1].head + requests[1].body < Capacity) => Len(routed) <= 1

\* A request the server reads to its end, and whose response write_buf can hold.
Answerable(k) ==
  /\ k.line /\ k.length # "last" /\ k.body <= MaxBodySize
  /\ k.head + k.body <= Capacity /\ k.resp <= Capacity

Response == ResponseBytes(1, "200")

\* A client with one request, that stays, gets the bytes of one response, in
\* order; and when the server closes the connection the response is whole.
ResponseWhole ==
  Sole /\ Answerable(requests[1]) /\ peer = "open" =>
    /\ received \o outq = SubSeq(Response, 1, Len(received \o outq))
    /\ ~is_open => received \o outq = Response

\* A request that fits the read buffer is answered, unless its client goes away
\* or sends more: EPOLLOUT is registered whenever a response waits, and nothing
\* keeps the socket readable for ever.
EveryRequestAnswered ==
  Sole /\ Answerable(requests[1]) ~> (~Sole \/ peer # "open" \/ received = Response)
=============================================================================
