----------------------------- MODULE Connection -----------------------------
(***************************************************************************)
(* One Kafka connection of a worker (src/network/tcp_server.cpp, the epoll *)
(* build): bytes are received to a circular buffer, complete frames are    *)
(* routed, responses are queued in a second buffer and sent when the       *)
(* socket takes them.                                                      *)
(*                                                                         *)
(* A client pipelines numbered requests; the network delivers its bytes in *)
(* pieces of any size.  The i-th byte of request n, and of the response to *)
(* it, is <<n, i>>: what a request asks for does not matter here, only how *)
(* long it and its response are.  The length prefix is the first Header    *)
(* bytes of a request.                                                     *)
(***************************************************************************)
EXTENDS CircularBuffer, FiniteSets

CONSTANTS
  Capacity,        \* capacity of read_buf and of write_buf (128KB)
  Header,          \* length of the size prefix (4)
  MaxFrameSize,    \* kMaxFrameSize, without the prefix (100MB)
  Kinds,           \* kinds of requests: [size, resp], lengths of frame and response
  SocketRoom,      \* room in the kernel's send buffer
  MaxRequests,     \* bound on the requests sent
  MaxOutstanding   \* unanswered requests a client allows itself

ASSUME ConnectionAssumption ==
  /\ Capacity \in Nat \ {0} /\ Header \in 1 .. Capacity
  /\ MaxFrameSize \in Nat /\ SocketRoom \in Nat \ {0}
  /\ MaxRequests \in Nat /\ MaxOutstanding \in Nat
  /\ \A k \in Kinds : k.size \in Nat /\ k.size > Header /\ k.resp \in Nat

VARIABLES
  requests,        \* the kinds of the requests sent so far
  peer,            \* "open", "shut" (no more requests will come) or "reset"
  wire,            \* bytes on their way to the server
  inq,             \* bytes in the server's receive queue
  pc,              \* the worker: "poll", or "frames" inside process_frames
  is_open,         \* whether connections_ has the connection
  read_buf, write_buf,
  epollout,        \* whether EPOLLOUT is registered for the socket
  routed,          \* the frames given to the router
  outq,            \* response bytes in the kernel's send buffer
  received         \* response bytes the client has got

worker == <<pc, is_open, read_buf, write_buf, epollout, routed>>
vars == <<requests, peer, wire, inq, worker, outq, received>>

Fin == <<0, 0>>
Rst == <<0, 1>>

FrameBytes(n) == [i \in 1 .. requests[n].size |-> <<n, i>>]
ResponseBytes(n) == [i \in 1 .. requests[n].resp |-> <<n, i>>]

Init ==
  /\ requests = <<>> /\ peer = "open"
  /\ wire = <<>> /\ inq = <<>> /\ outq = <<>> /\ received = <<>>
  /\ pc = "poll" /\ is_open = TRUE
  /\ read_buf = Empty(Capacity, Fin) /\ write_buf = Empty(Capacity, Fin)
  /\ epollout = FALSE
  /\ routed = <<>>

-----------------------------------------------------------------------------
\* The client and the network.

Answered(n) == \A i \in 1 .. requests[n].resp : \E j \in 1 .. Len(received) : received[j] = <<n, i>>
Outstanding == {n \in 1 .. Len(requests) : ~Answered(n)}

SendRequest(k) ==
  /\ peer = "open"
  /\ Len(requests) < MaxRequests /\ Cardinality(Outstanding) < MaxOutstanding
  /\ requests' = Append(requests, k)
  /\ wire' = wire \o [i \in 1 .. k.size |-> <<Len(requests'), i>>]
  /\ UNCHANGED <<peer, inq, worker, outq, received>>

\* shutdown of the sending half, or close once all responses are there.
Shutdown ==
  /\ peer = "open"
  /\ peer' = "shut" /\ wire' = Append(wire, Fin)
  /\ UNCHANGED <<requests, inq, worker, outq, received>>

\* The client dies or the network fails.
Reset ==
  /\ peer # "reset"
  /\ peer' = "reset" /\ wire' = <<Rst>>
  /\ UNCHANGED <<requests, inq, worker, outq, received>>

Deliver(n) ==
  /\ n \in 1 .. Len(wire)
  /\ wire' = SubSeq(wire, n + 1, Len(wire))
  /\ inq' = IF wire[1] = Rst THEN <<Rst>> ELSE inq \o SubSeq(wire, 1, n)
  /\ UNCHANGED <<requests, peer, worker, outq, received>>

ReceiveResponse ==
  /\ peer # "reset" /\ outq # <<>>
  /\ received' = received \o outq /\ outq' = <<>>
  /\ UNCHANGED <<requests, peer, wire, inq, worker>>

-----------------------------------------------------------------------------
\* The worker.  close() of a socket with unread bytes resets it, and what the
\* client has not got yet may be lost.
close_connection ==
  /\ is_open' = FALSE /\ pc' = "poll"
  /\ outq' \in {outq, <<>>}
  /\ UNCHANGED <<requests, peer, wire, inq, read_buf, write_buf, epollout, routed, received>>

\* One recv of as much as fits without wrapping.
Recv(b, q) == Receive(b, SubSeq(q, 1, Smaller(write_head(b), Len(q))))

\* The bytes in front of the end of the stream.
DataBytes(q) == IF q # <<>> /\ q[Len(q)] = Fin THEN SubSeq(q, 1, Len(q) - 1) ELSE q

\* What is left of the receive queue when read_buf has become b.
Left(b) == SubSeq(inq, b.head - read_buf.head + 1, Len(inq))

\* recv says that the client has shut its side down.
EndOfStream(b) == Left(b) = <<Fin>> /\ free_space(b) > 0

\* The recv loop, to the end of the storage and then from its start on, takes
\* all the bytes that have arrived and fit.  The end of the stream closes the
\* connection before the bytes received with it are looked at.
handle_read ==
  /\ is_open /\ pc = "poll"
  /\ inq # <<>> /\ inq[1] # Rst
  /\ \E once \in {Recv(read_buf, DataBytes(inq))} :
       \E filled \in {Recv(once, DataBytes(Left(once)))} :
         \/ EndOfStream(filled) /\ close_connection
         \/ /\ ~EndOfStream(filled)
            /\ read_buf' = filled /\ inq' = Left(filled)
            /\ pc' = "frames"
            /\ UNCHANGED <<requests, peer, wire, is_open, write_buf, epollout, routed, outq, received>>

\* What the length prefix says: hdr is the prefix of the request its bytes belong to.
FrameSize(hdr) == requests[hdr[1][1]].size - Header

\* As FrameAt, but a frame counts as contiguous when its last byte wraps.
FrameAtEdge(b, total) ==
  IF read_head(b) + 1 >= total
  THEN [i \in 1 .. total |-> b.data[Smaller((b.tail % b.capacity) + i, b.capacity) - 1]]
  ELSE peek(b, total)

\* The frame at the tail: in place when it does not wrap, else a copy of it.
FrameAt(b, total) ==
  IF read_head(b) >= total THEN Load(b.data, b.tail % b.capacity, total) ELSE peek(b, total)

HasHeader == size(read_buf) >= Header
Total == Header + FrameSize(peek(read_buf, Header))
TooLarge == Total - Header > MaxFrameSize
Complete == HasHeader /\ ~TooLarge /\ size(read_buf) >= Total

\* How much of the response the buffer takes is ignored.
queue_write(n) == write_buf' = write(write_buf, ResponseBytes(n))

\* As enable_write, but the registration is left as it is.
LeaveWrite == UNCHANGED epollout

enable_write == epollout' = TRUE
disable_write == epollout' = FALSE

process_frame ==
  /\ is_open /\ pc = "frames" /\ Complete
  /\ LET frame == FrameAt(read_buf, Total)
         n     == frame[1][1]
     IN  /\ routed' = Append(routed, frame)
         /\ IF requests[n].resp > 0
            THEN queue_write(n) /\ enable_write
            ELSE UNCHANGED <<write_buf, epollout>>
  /\ read_buf' = advance_tail(read_buf, Total)
  /\ UNCHANGED <<requests, peer, wire, inq, pc, is_open, outq, received>>

frame_too_large ==
  /\ is_open /\ pc = "frames" /\ HasHeader /\ TooLarge
  /\ close_connection

frames_done ==
  /\ is_open /\ pc = "frames" /\ ~Complete /\ ~(HasHeader /\ TooLarge)
  /\ pc' = "poll"
  /\ UNCHANGED <<requests, peer, wire, inq, is_open, read_buf, write_buf, epollout, routed, outq, received>>

\* As Sendable, but all that is queued counts as contiguous at the tail.
SendableAll(b, q) == SocketRoom - Len(q)

\* One send: the socket takes what it has room for.
Sendable(b, q) == Smaller(read_head(b), SocketRoom - Len(q))

\* The send loop, again to the end of the storage and from its start; EPOLLOUT
\* is dropped when nothing is left.  An event that also says EPOLLIN is a read only.
handle_write ==
  /\ is_open /\ pc = "poll"
  /\ inq = <<>> /\ epollout /\ Len(outq) < SocketRoom
  /\ LET n1 == Sendable(write_buf, outq)
         q1 == outq \o peek(write_buf, n1)
         b1 == advance_tail(write_buf, n1)
         n2 == Sendable(b1, q1)
     IN  /\ outq' = q1 \o peek(b1, n2)
         /\ write_buf' = advance_tail(b1, n2)
  /\ IF empty(write_buf') THEN disable_write ELSE UNCHANGED epollout
  /\ UNCHANGED <<requests, peer, wire, inq, pc, is_open, read_buf, routed, received>>

\* EPOLLERR or EPOLLHUP, or recv or send fails: the reset has arrived.
socket_error ==
  /\ is_open /\ pc = "poll"
  /\ inq # <<>> /\ inq[1] = Rst
  /\ close_connection

-----------------------------------------------------------------------------
Client == (\E k \in Kinds : SendRequest(k)) \/ Shutdown \/ Reset \/ ReceiveResponse
Network == \E n \in 1 .. Len(wire) : Deliver(n)
Worker ==
  handle_read \/ process_frame \/ frame_too_large \/ frames_done \/ handle_write \/ socket_error

Next == Client \/ Network \/ Worker

\* A worker's loop never rests, the network delivers, and a client reads its responses.
Spec == Init /\ [][Next]_vars /\ WF_vars(Worker) /\ WF_vars(Network) /\ WF_vars(ReceiveResponse)

-----------------------------------------------------------------------------

\* However the network cuts the stream and wherever a frame wraps in the
\* circular buffer, process_frames routes exactly the requests the client
\* sent, each one whole, once and in order.
FramesIntact ==
  /\ Len(routed) <= Len(requests)
  /\ \A j \in 1 .. Len(routed) : routed[j] = FrameBytes(j)

\* The responses to the first n requests, one after another.
Replies == LET r[n \in 0 .. Len(requests)] == IF n = 0 THEN <<>> ELSE r[n - 1] \o ResponseBytes(n)
           IN  r

\* What the client got, what its socket holds and what write_buf holds are
\* together the responses of the routed requests, in order, none cut or
\* repeated; after the connection is closed the client is left with a prefix
\* of them.  This is what queue_write and handle_write promise a client that
\* never has more responses outstanding than write_buf holds.
RepliesWhole ==
  LET promised == Replies[Len(routed)]
  IN  IF is_open
      THEN received \o outq \o peek(write_buf, size(write_buf)) = promised
      ELSE received = SubSeq(promised, 1, Len(received))

\* A frame that passes the check against kMaxFrameSize and does not fit read_buf.
NeverComplete(k) == k.size > Capacity /\ k.size - Header <= MaxFrameSize

\* No response is left in write_buf without EPOLLOUT being registered, and a
\* client that keeps its connection open gets the response of every request,
\* unless it sends a frame that never becomes complete: its socket then stays
\* readable, and the worker prefers reading to writing.
EveryRequestAnswered ==
  \A n \in 1 .. MaxRequests :
    n \in 1 .. Len(requests) ~>
      \/ n \in 1 .. Len(requests) /\ Answered(n)
      \/ ~is_open \/ peer # "open"
      \/ \E m \in 1 .. Len(requests) : NeverComplete(requests[m])
=============================================================================
