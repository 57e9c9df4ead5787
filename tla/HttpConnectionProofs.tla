------------------------ MODULE HttpConnectionProofs ------------------------
(***************************************************************************)
(* Proofs about a connection of the REST server, for every size of its     *)
(* buffers and of the socket's, every kind of request and every way the    *)
(* network cuts the stream: the handler gets the whole first request, once *)
(* if it is alone, and its client gets one whole response.                 *)
(***************************************************************************)
EXTENDS HttpConnection, Integers, SequenceTheorems, TLAPS

-----------------------------------------------------------------------------
(***************************************************************************)
(* The invariants                                                          *)
(***************************************************************************)

\* The bytes of requests, and the marks of the end of a stream.
Byte == Nat \X Nat

\* The bytes of the response to the first request.
ReplyByte == {<<1, i, "200">> : i \in Nat}

\* What route_request leaves in the history.
Calls == [call : {route_request(k.method, k.path) : k \in Kinds}, body : Seq(Byte)]

\* The read buffer; nothing is ever taken out of it.
BufferType ==
  [data : [0 .. Capacity - 1 -> Byte], capacity : {Capacity}, head : 0 .. Capacity, tail : {0}]

\* What the variables on the way of the requests hold.
ReadTypeOK ==
  /\ requests \in Seq(Kinds) /\ wire \in Seq(Byte) /\ inq \in Seq(Byte)
  /\ read_buf \in BufferType /\ routed \in Seq(Calls)

\* The length of the first of the requests rs.
FirstLen(rs) == rs[1].head + rs[1].body

\* x may be the p-th byte of the stream of the requests rs: the first one is in
\* front, and only a second one has bytes behind it.
Good(rs, x, p) ==
  /\ rs # <<>>
  /\ IF p <= FirstLen(rs) THEN x = <<1, p>> ELSE Len(rs) > 1 /\ x[1] # 0

\* q is the stream from its from-th byte on, perhaps with its end.
Incoming(rs, q, from) ==
  \A k \in 1 .. Len(q) : Good(rs, q[k], from + k) \/ (k = Len(q) /\ q[k] = Fin)

\* The same while the client has not ended it.
Unended(rs, q, from) ==
  /\ \A k \in 1 .. Len(q) : Good(rs, q[k], from + k)
  /\ IF rs = <<>> THEN from + Len(q) = 0 ELSE from + Len(q) >= FirstLen(rs)

\* The receive queue and the network hold what follows the bytes received, until
\* a reset overtakes it.
NetOK ==
  \/ peer = "reset" /\ inq = <<Rst>> /\ wire = <<>>
  \/ peer = "reset" /\ wire = <<Rst>> /\ Incoming(requests, inq, read_buf.head)
  \/ /\ peer # "reset" /\ Incoming(requests, inq \o wire, read_buf.head)
     /\ peer = "open" => Unended(requests, inq \o wire, read_buf.head)

\* b holds the beginning of the stream.
BufferOK(rs, b) == \A p \in 1 .. b.head : Good(rs, b.data[p - 1], p)

\* Nothing is routed before it is sent; and while the connection is open, what
\* is in read_buf and what is to come are the stream.
ReadInv ==
  /\ ReadTypeOK
  /\ routed # <<>> => requests # <<>>
  /\ is_open => BufferOK(requests, read_buf) /\ NetOK

\* The conditions of RoutedOnce.
Alone ==
  /\ Sole /\ requests[1].length # "last"
  /\ peer = "open" \/ FirstLen(requests) < Capacity

\* Once it has been routed, a request that is alone is all in read_buf, and
\* nothing leads back to process_request.
OnceInv ==
  Alone /\ routed # <<>> =>
    /\ Len(routed) = 1
    /\ is_open => pc = "wait" /\ read_buf.head = FirstLen(requests)

\* Nothing has been answered.
Unanswered ==
  /\ is_open /\ ~epollout /\ write_buf = Empty(Capacity, Fin)
  /\ outq = <<>> /\ received = <<>>

\* q is the beginning of the response to the first request.
Replied(q) == \A i \in 1 .. Len(q) : q[i] = <<1, i, "200">>

\* b holds the response, of n bytes, of which t have been taken out.
Holds(n, b, t) ==
  /\ n \in Nat /\ n <= Capacity /\ t \in 0 .. n
  /\ b \in [data : {b.data}, capacity : {Capacity}, head : {n}, tail : {t}]
  /\ \A i \in 1 .. n : b.data[i - 1] = <<1, i, "200">>

\* What has been taken out has been sent as q.
Queued(n, b, q) == Holds(n, b, Len(q)) /\ Replied(q)

\* The server has the whole request and does nothing but send the response.
Responded ==
  /\ pc = "wait" /\ inq = <<>> /\ wire = <<>>
  /\ received \in Seq(ReplyByte) /\ outq \in Seq(ReplyByte)
  /\ Queued(requests[1].resp, write_buf, received \o outq)
  /\ ~is_open => write_buf.tail = write_buf.head

WriteInv ==
  /\ requests = <<>> /\ peer = "open" => Unanswered
  /\ Sole /\ Answerable(requests[1]) /\ peer = "open" => Unanswered \/ Responded

-----------------------------------------------------------------------------
(***************************************************************************)
(* Sequences and buffers                                                   *)
(***************************************************************************)

LEMMA CapacityType == Capacity \in Nat /\ Capacity > 0 /\ MaxRouted \in Nat /\ MaxRouted > 0 /\ SocketRoom \in Nat
  BY HttpAssumption

\* A capacity is as good as nothing where it addresses the storage.
LEMMA Position ==
  ASSUME NEW c \in Nat, c > 0, NEW x \in 0 .. c
  PROVE  x % c = IF x < c THEN x ELSE 0
  OBVIOUS

\* A function on 1 .. n is a sequence.
LEMMA SequenceIs ==
  ASSUME NEW S, NEW n \in Nat, NEW m \in [1 .. n -> S]
  PROVE  m \in Seq(S) /\ Len(m) = n
<1>1. m \in Seq(S) /\ DOMAIN m = 1 .. n
  OBVIOUS
<1>2. Len(m) = n
  BY <1>1, LenProperties
<1> QED BY <1>1, <1>2, Zenon

\* The fields of the read buffer.
LEMMA BufferFields ==
  ASSUME NEW b \in BufferType
  PROVE  /\ b.data \in [0 .. Capacity - 1 -> Byte] /\ b.capacity = Capacity
         /\ b.head \in 0 .. Capacity /\ b.head \in Nat /\ b.head <= Capacity /\ b.tail = 0
         /\ size(b) = b.head /\ free_space(b) = Capacity - b.head
<1>1. /\ b.data \in [0 .. Capacity - 1 -> Byte] /\ b.capacity = Capacity
      /\ b.head \in 0 .. Capacity /\ b.tail = 0
  BY DEF BufferType
<1>2. b.head \in Nat /\ b.head <= Capacity
  BY <1>1, CapacityType
<1>3. size(b) = b.head
  BY <1>1, <1>2 DEF size
<1> QED BY <1>1, <1>2, <1>3, Zenon DEF free_space

\* The front of a sequence.
LEMMA FrontIs ==
  ASSUME NEW q \in Seq(Byte), NEW n \in 0 .. Len(q)
  PROVE  /\ SubSeq(q, 1, n) \in Seq(Byte) /\ Len(SubSeq(q, 1, n)) = n
         /\ \A k \in 1 .. n : SubSeq(q, 1, n)[k] = q[k]
  OBVIOUS

\* r is b with as much of the front of q behind what b holds as there is room for.
Stored(b, q, r) ==
  \E n \in 0 .. Len(q) :
    /\ r.head = b.head + n
    /\ n < Len(q) => r.head = Capacity
    /\ \A p \in 1 .. b.head : r.data[p - 1] = b.data[p - 1]
    /\ \A i \in 1 .. n : r.data[(b.head + i) - 1] = q[i]

\* Bytes may be appended one message after the other.
LEMMA BytesAssociative ==
  ASSUME NEW p \in Seq(Byte), NEW q \in Seq(Byte), NEW r \in Seq(Byte)
  PROVE  (p \o q) \o r = p \o (q \o r)
  OBVIOUS

\* One recv stores the front of q.
LEMMA RecvIs ==
  ASSUME NEW b \in BufferType, NEW q \in Seq(Byte), NEW r, r = Recv(b, q)
  PROVE  r \in BufferType /\ Stored(b, q, r)
<1> DEFINE C == Capacity
           n == Smaller(write_head(b), Len(q))
           src == SubSeq(q, 1, n)
           pos == b.head % C
           d == Store(b.data, pos, src)
<1>1. /\ b.data \in [0 .. C - 1 -> Byte] /\ b.capacity = C /\ b.head \in Nat /\ b.head <= C
      /\ free_space(b) = C - b.head /\ C \in Nat /\ C > 0 /\ Len(q) \in Nat /\ b.head \in 0 .. C
  BY BufferFields, CapacityType
<1>2. pos = IF b.head < C THEN b.head ELSE 0
  BY <1>1, Position, Zenon
<1>3. write_head(b) = C - b.head
  BY <1>1, <1>2 DEF write_head, Smaller
<1>4. n \in 0 .. Len(q) /\ n <= C - b.head /\ (n < Len(q) => n = C - b.head)
  BY <1>1, <1>3 DEF Smaller
<1>5. r = [b EXCEPT !.data = d, !.head = b.head + Len(src)]
  BY <1>1, Zenon DEF Recv, Receive
<1> HIDE DEF n
<1>6. src \in Seq(Byte) /\ Len(src) = n /\ \A k \in 1 .. n : src[k] = q[k]
  BY <1>4, FrontIs, Zenon
<1> HIDE DEF src
<1>7. d = [p \in 0 .. C - 1 |-> IF p \in pos .. pos + n - 1 THEN src[p - pos + 1] ELSE b.data[p]]
  BY <1>1, <1>6, Zenon DEF Store
<1> HIDE DEF pos, d
<1>8. d \in [0 .. C - 1 -> Byte]
  <2>1. ASSUME NEW p \in 0 .. C - 1, p \in pos .. pos + n - 1 PROVE src[p - pos + 1] \in Byte
    <3>1. p - pos + 1 \in 1 .. Len(src)
      BY <1>1, <1>2, <1>4, <1>6, <2>1
    <3> QED BY <1>6, <3>1, ElementOfSeq, Zenon
  <2>2. ASSUME NEW p \in 0 .. C - 1 PROVE (IF p \in pos .. pos + n - 1 THEN src[p - pos + 1] ELSE b.data[p]) \in Byte
    BY <1>1, <2>1, Zenon
  <2> QED BY <1>7, <2>2, Zenon
<1>9. ASSUME NEW p \in 1 .. b.head PROVE d[p - 1] = b.data[p - 1]
  <2>1. p - 1 \in 0 .. C - 1 /\ p - 1 \notin pos .. pos + n - 1
    BY <1>1, <1>2, <1>4
  <2> QED BY <1>7, <2>1, Zenon
<1>10. ASSUME NEW i \in 1 .. n PROVE d[(b.head + i) - 1] = q[i]
  <2>1. /\ (b.head + i) - 1 \in 0 .. C - 1 /\ (b.head + i) - 1 \in pos .. pos + n - 1
        /\ (b.head + i) - 1 - pos + 1 = i
    BY <1>1, <1>2, <1>4
  <2> QED BY <1>6, <1>7, <2>1, Zenon
<1>11. b.head + n \in 0 .. C /\ (n < Len(q) => b.head + n = C)
  BY <1>1, <1>4
<1>12. r \in BufferType /\ r.data = d /\ r.head = b.head + n
  BY <1>5, <1>6, <1>8, <1>11 DEF BufferType
<1> QED BY <1>4, <1>9, <1>10, <1>11, <1>12, Zenon DEF Stored

\* What process_request looks at.
LEMMA DataIs ==
  ASSUME read_buf \in BufferType
  PROVE  /\ data \in Seq(Byte) /\ Len(data) = read_buf.head
         /\ \A i \in 1 .. read_buf.head : data[i] = read_buf.data[i - 1]
<1> DEFINE C == Capacity
           b == read_buf
           h == b.head
<1>1. /\ b.data \in [0 .. C - 1 -> Byte] /\ b.capacity = C /\ h \in Nat /\ h <= C
      /\ b.tail = 0 /\ size(b) = h /\ C \in Nat /\ C > 0 /\ 0 \in 0 .. C
  BY BufferFields, CapacityType
<1>2. b.tail % b.capacity = 0
  BY <1>1, Position, Zenon
<1>3. Smaller(size(b), size(b)) = h /\ Smaller(h, C - 0) = h /\ h - h = 0
  BY <1>1 DEF Smaller
<1>4. data = Load(b.data, 0, h) \o Load(b.data, 0, 0)
  BY <1>1, <1>2, <1>3 DEF data, peek
<1> DEFINE s == Load(b.data, 0, h)
<1>5. s \in [1 .. h -> Byte] /\ \A i \in 1 .. h : s[i] = b.data[i - 1]
  <2>1. \A i \in 1 .. h : 0 + i - 1 \in 0 .. C - 1 /\ 0 + i - 1 = i - 1
    BY <1>1
  <2> QED BY <1>1, <2>1, Zenon DEF Load
<1>6. s \in Seq(Byte) /\ Len(s) = h
  <2> HIDE DEF s, h
  <2> QED BY <1>1, <1>5, SequenceIs, Zenon
<1>7. Load(b.data, 0, 0) = <<>>
  BY DEF Load
<1>8. data = s
  <2> HIDE DEF s
  <2>1. data = s \o <<>>
    BY <1>4, <1>7, Zenon DEF s
  <2> QED BY <1>6, <2>1
<1> QED BY <1>5, <1>6, <1>8, Zenon

-----------------------------------------------------------------------------
(***************************************************************************)
(* The stream                                                              *)
(***************************************************************************)

\* The marks of the end of a stream are no bytes of a request.
LEMMA MarksDiffer ==
  /\ Fin \in Byte /\ Rst \in Byte /\ Fin # Rst
  /\ \A rs, x, p : Good(rs, x, p) => x # Rst /\ x # Fin
<1>1. Fin \in Byte /\ Rst \in Byte /\ Fin # Rst /\ Fin[1] = 0 /\ Rst[1] = 0
  BY DEF Byte, Fin, Rst
<1>2. ASSUME NEW rs, NEW x, NEW p, Good(rs, x, p) PROVE x[1] # 0
  BY <1>2 DEF Good
<1> QED BY <1>1, <1>2, Zenon

\* The first request has a header, and its length is a number.
LEMMA FirstType ==
  ASSUME NEW rs \in Seq(Kinds), rs # <<>>
  PROVE  /\ rs[1] \in Kinds /\ Len(rs) \in Nat /\ Len(rs) >= 1
         /\ rs[1].head \in Nat /\ rs[1].head > 0 /\ rs[1].body \in Nat
         /\ rs[1].resp \in Nat /\ rs[1].resp > 0
         /\ rs[1].length \in {"none", "first", "last"}
         /\ rs[1].length = "none" => rs[1].body = 0
         /\ FirstLen(rs) \in Nat /\ FirstLen(rs) = rs[1].head + rs[1].body
<1>1. rs[1] \in Kinds /\ Len(rs) \in Nat /\ Len(rs) >= 1
  OBVIOUS
<1>2. /\ rs[1].head \in Nat \ {0} /\ rs[1].body \in Nat /\ rs[1].resp \in Nat \ {0}
      /\ rs[1].length \in {"none", "first", "last"}
      /\ rs[1].length = "none" => rs[1].body = 0
  BY <1>1, HttpAssumption, Zenon
<1>3. FirstLen(rs) = rs[1].head + rs[1].body
  BY Zenon DEF FirstLen
<1> QED BY <1>1, <1>2, <1>3

\* What is left of a queue, in front of what is still to come.
LEMMA RestIs ==
  ASSUME NEW q \in Seq(Byte), NEW w \in Seq(Byte), NEW n \in 0 .. Len(q)
  PROVE  /\ SubSeq(q, n + 1, Len(q)) \in Seq(Byte) /\ Len(SubSeq(q, n + 1, Len(q))) = Len(q) - n
         /\ Len(SubSeq(q, n + 1, Len(q)) \o w) = Len(q \o w) - n
         /\ \A k \in 1 .. Len(q \o w) - n : (SubSeq(q, n + 1, Len(q)) \o w)[k] = (q \o w)[n + k]
<1> DEFINE s == SubSeq(q, n + 1, Len(q))
<1>0. Len(q) \in Nat /\ Len(w) \in Nat /\ n \in Nat /\ n <= Len(q)
  OBVIOUS
<1>1. s \in Seq(Byte) /\ Len(s) = Len(q) - n
  BY <1>0
<1>2. \A k \in 1 .. Len(q) - n : s[k] = q[n + k]
  <2> SUFFICES ASSUME NEW k \in 1 .. Len(q) - n PROVE s[k] = q[n + k]
    BY Zenon
  <2>1. s[k] = q[(n + 1 + k) - 1]
    BY <1>0, <1>1
  <2>2. (n + 1 + k) - 1 = n + k
    BY <1>0
  <2> QED BY <2>1, <2>2, Zenon
<1> HIDE DEF s
<1>3. Len(s \o w) = Len(q) - n + Len(w) /\ Len(q \o w) = Len(q) + Len(w)
  <2>1. Len(s \o w) = Len(s) + Len(w)
    BY <1>1, ConcatProperties, Zenon
  <2>2. Len(q \o w) = Len(q) + Len(w)
    BY ConcatProperties, Zenon
  <2> QED BY <1>1, <2>1, <2>2, Zenon
<1>4. ASSUME NEW k \in 1 .. Len(q \o w) - n PROVE (s \o w)[k] = (q \o w)[n + k]
  <2>0. k \in 1 .. Len(s) + Len(w) /\ n + k \in 1 .. Len(q) + Len(w)
    BY <1>0, <1>1, <1>3
  <2>1. (s \o w)[k] = IF k <= Len(s) THEN s[k] ELSE w[k - Len(s)]
    BY <1>1, <2>0
  <2>2. (q \o w)[n + k] = IF n + k <= Len(q) THEN q[n + k] ELSE w[n + k - Len(q)]
    BY <2>0
  <2>3. (k <= Len(s) <=> n + k <= Len(q)) /\ k - Len(s) = n + k - Len(q)
    BY <1>0, <1>1, <2>0
  <2>4. k <= Len(s) => k \in 1 .. Len(q) - n
    BY <1>0, <1>1, <2>0
  <2> QED BY <1>2, <2>1, <2>2, <2>3, <2>4, Zenon
<1>5. Len(s \o w) = Len(q \o w) - n
  BY <1>0, <1>3
<1> QED BY <1>1, <1>4, <1>5, Zenon DEF s

\* The stream, n bytes further on.
LEMMA IncomingRest ==
  ASSUME NEW rs, NEW from \in Nat, NEW q \in Seq(Byte), NEW w \in Seq(Byte), NEW n \in 0 .. Len(q)
  PROVE  /\ Incoming(rs, q \o w, from) => Incoming(rs, SubSeq(q, n + 1, Len(q)) \o w, from + n)
         /\ Unended(rs, q \o w, from) => Unended(rs, SubSeq(q, n + 1, Len(q)) \o w, from + n)
<1> DEFINE c == q \o w
           s == SubSeq(q, n + 1, Len(q)) \o w
<1>1. Len(s) = Len(c) - n /\ \A k \in 1 .. Len(c) - n : s[k] = c[n + k]
  BY RestIs, Zenon
<1>2. Len(c) \in Nat /\ n \in Nat
  OBVIOUS
<1> HIDE DEF c, s
<1>3. ASSUME NEW k \in 1 .. Len(s)
      PROVE  /\ n + k \in 1 .. Len(c) /\ s[k] = c[n + k] /\ (from + n) + k = from + (n + k)
             /\ n + k = Len(c) => k = Len(s)
  BY <1>1, <1>2
<1>4. ASSUME Incoming(rs, c, from) PROVE Incoming(rs, s, from + n)
  BY <1>3, <1>4, Zenon DEF Incoming
<1>5. ASSUME Unended(rs, c, from) PROVE Unended(rs, s, from + n)
  <2>1. (from + n) + Len(s) = from + Len(c)
    BY <1>1, <1>2
  <2> QED BY <1>3, <1>5, <2>1, Zenon DEF Unended
<1> QED BY <1>4, <1>5, Zenon DEF c, s

\* The front of a stream.
LEMMA IncomingFront ==
  ASSUME NEW rs, NEW from, NEW q \in Seq(Byte), NEW w \in Seq(Byte), Incoming(rs, q \o w, from)
  PROVE  Incoming(rs, q, from)
<1> DEFINE c == q \o w
<1>1. /\ Len(c) = Len(q) + Len(w) /\ Len(q) \in Nat /\ Len(w) \in Nat
      /\ \A k \in 1 .. Len(q) : c[k] = q[k]
  OBVIOUS
<1> HIDE DEF c
<1>2. ASSUME NEW k \in 1 .. Len(q) PROVE k \in 1 .. Len(c) /\ (k = Len(c) => k = Len(q)) /\ c[k] = q[k]
  BY <1>1
<1>3. Incoming(rs, c, from)
  BY Zenon DEF c
<1> QED BY <1>2, <1>3, Zenon DEF Incoming

\* An unended stream is a stream.
LEMMA UnendedIncoming ==
  ASSUME NEW rs, NEW q, NEW from, Unended(rs, q, from)
  PROVE  Incoming(rs, q, from)
  BY Zenon DEF Unended, Incoming

\* DataBytes drops the end of the stream, and nothing else.
LEMMA DataBytesIs ==
  ASSUME NEW rs, NEW from, NEW q \in Seq(Byte), Incoming(rs, q, from)
  PROVE  /\ DataBytes(q) \in Seq(Byte) /\ Len(DataBytes(q)) <= Len(q)
         /\ \A k \in 1 .. Len(DataBytes(q)) : DataBytes(q)[k] = q[k] /\ Good(rs, q[k], from + k)
<1>1. CASE q # <<>> /\ q[Len(q)] = Fin
  <2>1. Len(q) \in Nat /\ Len(q) >= 1
    BY <1>1
  <2>2. PICK n \in Nat : n = Len(q) - 1 /\ n \in 0 .. Len(q)
    <3>1. Len(q) - 1 \in Nat /\ Len(q) - 1 \in 0 .. Len(q)
      BY <2>1
    <3> QED BY <3>1, Zenon
  <2>3. DataBytes(q) = SubSeq(q, 1, n)
    BY <1>1, <2>2, Zenon DEF DataBytes
  <2>4. /\ SubSeq(q, 1, n) \in Seq(Byte) /\ Len(SubSeq(q, 1, n)) = n
        /\ \A k \in 1 .. n : SubSeq(q, 1, n)[k] = q[k]
    BY <2>2, FrontIs, Zenon
  <2>5. ASSUME NEW k \in 1 .. n PROVE Good(rs, q[k], from + k)
    <3>1. k \in 1 .. Len(q) /\ k # Len(q)
      BY <2>1, <2>2
    <3> QED BY <3>1, Zenon DEF Incoming
  <2>6. n <= Len(q)
    BY <2>1, <2>2
  <2> QED BY <2>3, <2>4, <2>5, <2>6, Zenon
<1>2. CASE ~(q # <<>> /\ q[Len(q)] = Fin)
  <2>1. DataBytes(q) = q /\ Len(q) \in Nat /\ Len(q) <= Len(q)
    BY <1>2 DEF DataBytes
  <2>2. ASSUME NEW k \in 1 .. Len(q) PROVE Good(rs, q[k], from + k)
    <3>1. q # <<>>
      BY <2>1
    <3> QED BY <1>2, <3>1, Zenon DEF Incoming
  <2> QED BY <2>1, <2>2, Zenon
<1> QED BY <1>1, <1>2, Zenon

\* recv moves the front of the receive queue to the buffer, as much as fits.
LEMMA ReadsIs ==
  ASSUME NEW rs, read_buf \in BufferType, BufferOK(rs, read_buf),
         inq \in Seq(Byte), Incoming(rs, inq, read_buf.head),
         NEW b, b = read_buf, NEW q, q = DataBytes(inq), NEW filled, filled = Recv(b, q)
  PROVE  /\ filled \in BufferType /\ BufferOK(rs, filled)
         /\ \E n \in 0 .. Len(inq) :
              /\ filled.head = read_buf.head + n /\ Left(filled) = SubSeq(inq, n + 1, Len(inq))
              /\ n = 0 => DataBytes(inq) = <<>> \/ filled.head = Capacity
<1>0. /\ b \in BufferType /\ b.head \in Nat /\ Len(inq) \in Nat
      /\ q \in Seq(Byte) /\ Len(q) <= Len(inq)
      /\ \A k \in 1 .. Len(q) : q[k] = inq[k] /\ Good(rs, inq[k], b.head + k)
  BY BufferFields, DataBytesIs
<1>R. filled \in BufferType /\ Stored(b, q, filled)
  BY <1>0, RecvIs, Zenon
<1>1. PICK n \in 0 .. Len(q) :
              /\ filled.head = b.head + n
              /\ n < Len(q) => filled.head = Capacity
              /\ \A p \in 1 .. b.head : filled.data[p - 1] = b.data[p - 1]
              /\ \A i \in 1 .. n : filled.data[(b.head + i) - 1] = q[i]
  BY <1>R, Zenon DEF Stored
<1>2. filled \in BufferType
  BY <1>R, Zenon
<1>3. ASSUME NEW p \in 1 .. filled.head PROVE Good(rs, filled.data[p - 1], p)
  <2>1. CASE p <= b.head
    <3>1. p \in 1 .. b.head
      BY <1>0, <1>1, <2>1
    <3> QED BY <1>1, <3>1, Zenon DEF BufferOK
  <2>2. CASE p > b.head
    <3>1. PICK i \in 1 .. n : p = b.head + i
      <4>1. p - b.head \in 1 .. n /\ p = b.head + (p - b.head)
        BY <1>0, <1>1, <2>2
      <4> QED BY <4>1, Zenon
    <3>2. i \in 1 .. Len(q)
      BY <1>0, <1>1
    <3> QED BY <1>0, <1>1, <3>1, <3>2, Zenon
  <2> QED BY <1>0, <1>1, <2>1, <2>2
<1>4. n \in 0 .. Len(inq) /\ filled.head - b.head + 1 = n + 1
  BY <1>0, <1>1
<1>5. Left(filled) = SubSeq(inq, n + 1, Len(inq))
  BY <1>4, Zenon DEF Left
<1>6. n = 0 => q = <<>> \/ filled.head = Capacity
  BY <1>0, <1>1
<1> QED BY <1>1, <1>2, <1>3, <1>4, <1>5, <1>6, Zenon DEF BufferOK

\* A further request leaves the stream in front of it as it is.
LEMMA GoodStays ==
  ASSUME NEW rs \in Seq(Kinds), NEW k \in Kinds
  PROVE  /\ Append(rs, k) \in Seq(Kinds) /\ Append(rs, k) # <<>>
         /\ Len(Append(rs, k)) = Len(rs) + 1
         /\ rs = <<>> => Append(rs, k)[1] = k
         /\ rs # <<>> => Append(rs, k)[1] = rs[1] /\ FirstLen(Append(rs, k)) = FirstLen(rs)
         /\ \A x, p : Good(rs, x, p) => Good(Append(rs, k), x, p)
<1> DEFINE t == Append(rs, k)
<1>1. t \in Seq(Kinds) /\ t # <<>> /\ Len(t) = Len(rs) + 1 /\ (rs = <<>> => t[1] = k)
  OBVIOUS
<1>2. ASSUME rs # <<>> PROVE t[1] = rs[1] /\ Len(t) > 1
  <2>1. Len(rs) \in Nat /\ Len(rs) >= 1 /\ 1 \in 1 .. Len(rs)
    BY <1>2
  <2>2. t[1] = rs[1]
    BY <2>1
  <2>3. Len(t) > 1
    BY <1>1, <2>1
  <2> QED BY <2>2, <2>3, Zenon
<1> HIDE DEF t
<1>3. rs # <<>> => FirstLen(t) = FirstLen(rs)
  BY <1>2, Zenon DEF FirstLen
<1>4. ASSUME NEW x, NEW p, Good(rs, x, p) PROVE Good(t, x, p)
  BY <1>1, <1>2, <1>3, <1>4, Zenon DEF Good
<1> QED BY <1>1, <1>2, <1>3, <1>4, Zenon DEF t

\* Its bytes come behind the stream.
LEMMA UnendedGrows ==
  ASSUME NEW rs \in Seq(Kinds), NEW k \in Kinds, NEW from \in Nat, NEW q \in Seq(Byte),
         Unended(rs, q, from), NEW m, m = RequestBytes(Len(rs) + 1, k)
  PROVE  m \in Seq(Byte) /\ Unended(Append(rs, k), q \o m, from)
<1> DEFINE t == Append(rs, k)
           z == k.head + k.body
           c == q \o m
<1>1. z \in Nat /\ Len(rs) + 1 \in Nat /\ Len(rs) + 1 # 0 /\ Len(rs) \in Nat
  BY HttpAssumption
<1>2. \A i \in 1 .. z : <<Len(rs) + 1, i>> \in Byte
  BY <1>1 DEF Byte
<1>3. m \in [1 .. z -> Byte] /\ \A i \in 1 .. z : m[i] = <<Len(rs) + 1, i>>
  BY <1>2, Zenon DEF RequestBytes
<1>4. m \in Seq(Byte) /\ Len(m) = z
  <2> HIDE DEF z
  <2> QED BY <1>1, <1>3, SequenceIs, Zenon
<1>5. Len(q) \in Nat /\ Len(c) = Len(q) + z
  <2> HIDE DEF z
  <2> QED BY <1>4, ConcatProperties, LenProperties, Zenon
<1>6. \A i \in 1 .. Len(q) : c[i] = q[i]
  BY <1>4
<1>7. \A i \in 1 .. z : c[Len(q) + i] = m[i]
  <2> SUFFICES ASSUME NEW i \in 1 .. z PROVE c[Len(q) + i] = m[i]
    BY Zenon
  <2>1. Len(q) + i \in 1 .. Len(q) + Len(m) /\ ~(Len(q) + i <= Len(q)) /\ Len(q) + i - Len(q) = i
    BY <1>1, <1>4, <1>5
  <2>2. c[Len(q) + i] = IF Len(q) + i <= Len(q) THEN q[Len(q) + i] ELSE m[Len(q) + i - Len(q)]
    BY <1>4, <2>1
  <2> QED BY <2>1, <2>2, Zenon
<1>8. /\ t # <<>> /\ Len(t) = Len(rs) + 1 /\ (rs = <<>> => t[1] = k)
      /\ rs # <<>> => FirstLen(t) = FirstLen(rs)
      /\ \A x, p : Good(rs, x, p) => Good(t, x, p)
  BY GoodStays, Zenon
<1> HIDE DEF t, c
<1>9. ASSUME NEW i \in 1 .. z PROVE Good(t, m[i], from + (Len(q) + i))
  <2>1. CASE rs = <<>>
    <3>1. from + (Len(q) + i) = i /\ i <= z /\ Len(rs) + 1 = 1
      <4>1. from + Len(q) = 0 /\ Len(rs) = 0
        BY <2>1 DEF Unended
      <4> QED BY <1>1, <1>5, <4>1
    <3>2. FirstLen(t) = z
      BY <1>8, <2>1, Zenon DEF FirstLen
    <3> QED BY <1>3, <1>8, <3>1, <3>2, Zenon DEF Good
  <2>2. CASE rs # <<>>
    <3>1. from + Len(q) >= FirstLen(rs) /\ FirstLen(rs) \in Nat
      BY <2>2, FirstType, Zenon DEF Unended
    <3>2. ~(from + (Len(q) + i) <= FirstLen(rs)) /\ Len(rs) # 0
      BY <1>1, <1>5, <2>2, <3>1
    <3>3. Len(t) > 1
      BY <1>1, <1>8, <3>2
    <3>4. m[i][1] = Len(rs) + 1
      BY <1>3
    <3> QED BY <1>1, <1>8, <2>2, <3>2, <3>3, <3>4, Zenon DEF Good
  <2> QED BY <2>1, <2>2, Zenon
<1>10. ASSUME NEW j \in 1 .. Len(c) PROVE Good(t, c[j], from + j)
  <2>1. CASE j <= Len(q)
    <3>1. j \in 1 .. Len(q)
      BY <1>5, <2>1
    <3> QED BY <1>6, <1>8, <3>1, Zenon DEF Unended
  <2>2. CASE ~(j <= Len(q))
    <3>1. PICK i \in 1 .. z : j = Len(q) + i
      <4>1. j - Len(q) \in 1 .. z /\ j = Len(q) + (j - Len(q))
        BY <1>1, <1>5, <2>2
      <4> QED BY <4>1, Zenon
    <3> QED BY <1>7, <1>9, <3>1, Zenon
  <2> QED BY <2>1, <2>2, Zenon
<1>11. from + Len(c) >= FirstLen(t)
  <2>1. CASE rs = <<>>
    <3>1. FirstLen(t) = z
      BY <1>8, <2>1, Zenon DEF FirstLen
    <3> QED BY <1>1, <1>5, <3>1
  <2>2. CASE rs # <<>>
    <3>1. from + Len(q) >= FirstLen(rs) /\ FirstLen(rs) \in Nat /\ FirstLen(t) = FirstLen(rs)
      BY <1>8, <2>2, FirstType, Zenon DEF Unended
    <3> QED BY <1>1, <1>5, <3>1
  <2> QED BY <2>1, <2>2, Zenon
<1>12. Unended(t, c, from)
  BY <1>8, <1>10, <1>11, Zenon DEF Unended
<1> QED BY <1>4, <1>12, Zenon DEF t, c

-----------------------------------------------------------------------------
(***************************************************************************)
(* The way of the requests                                                 *)
(***************************************************************************)

\* A step that does not touch the stream.
LEMMA ReadUnchanged ==
  ASSUME ReadInv, UNCHANGED <<requests, peer, wire, inq, read_buf>>, is_open' => is_open,
         routed' \in Seq(Calls), routed' # <<>> => requests # <<>>
  PROVE  ReadInv'
<1>0. requests' = requests /\ peer' = peer /\ wire' = wire /\ inq' = inq /\ read_buf' = read_buf
  BY Zenon
<1>1. ReadTypeOK'
  BY <1>0, Zenon DEF ReadInv, ReadTypeOK
<1>2. is_open' => BufferOK(requests', read_buf') /\ NetOK'
  BY <1>0, Zenon DEF ReadInv, NetOK
<1> QED BY <1>0, <1>1, <1>2, Zenon DEF ReadInv

\* A step on the stream that routes nothing, and sends no request.
LEMMA ReadSame ==
  ASSUME ReadInv, ReadTypeOK', requests' = requests, routed' = routed,
         is_open' => BufferOK(requests, read_buf') /\ NetOK'
  PROVE  ReadInv'
  BY Zenon DEF ReadInv

\* A connection begins with nothing sent.
LEMMA InitReadInv == Init => ReadInv
<1> SUFFICES ASSUME Init PROVE ReadInv
  BY Zenon
<1>1. /\ requests = <<>> /\ peer = "open" /\ wire = <<>> /\ inq = <<>> /\ routed = <<>>
      /\ read_buf = Empty(Capacity, Fin)
  BY Zenon DEF Init
<1>2. /\ read_buf.data \in [0 .. Capacity - 1 -> Byte] /\ read_buf.capacity = Capacity
      /\ read_buf.head = 0 /\ read_buf.tail = 0
      /\ read_buf = [data |-> read_buf.data, capacity |-> Capacity, head |-> 0, tail |-> 0]
  BY <1>1, MarksDiffer DEF Empty
<1>3. read_buf \in BufferType
  BY <1>2, CapacityType DEF BufferType
<1>4. ReadTypeOK
  <2>1. <<>> \in Seq(Kinds) /\ <<>> \in Seq(Byte) /\ <<>> \in Seq(Calls)
    OBVIOUS
  <2> QED BY <1>1, <1>3, <2>1, Zenon DEF ReadTypeOK
<1>5. BufferOK(requests, read_buf)
  BY <1>2 DEF BufferOK
<1>6. Len(inq \o wire) = 0
  BY <1>1
<1>7. Unended(requests, inq \o wire, read_buf.head)
  BY <1>1, <1>2, <1>6 DEF Unended
<1>8. NetOK
  <2>1. Incoming(requests, inq \o wire, read_buf.head) /\ peer # "reset"
    BY <1>1, <1>7, UnendedIncoming, Zenon
  <2> QED BY <1>7, <2>1, Zenon DEF NetOK
<1> QED BY <1>1, <1>4, <1>5, <1>8, Zenon DEF ReadInv

\* The client sends a further request.
LEMMA SendRequestReadInv ==
  ASSUME ReadInv, NEW k \in Kinds, SendRequest(k)
  PROVE  ReadInv'
<1>0. /\ peer = "open" /\ peer' = peer /\ requests' = Append(requests, k)
      /\ wire' = wire \o RequestBytes(Len(requests'), k)
      /\ inq' = inq /\ read_buf' = read_buf /\ routed' = routed /\ is_open' = is_open
  BY Zenon DEF SendRequest, buffers
<1>1. /\ requests \in Seq(Kinds) /\ wire \in Seq(Byte) /\ inq \in Seq(Byte)
      /\ read_buf \in BufferType /\ routed \in Seq(Calls) /\ read_buf.head \in Nat
  BY BufferFields, Zenon DEF ReadInv, ReadTypeOK
<1>2. /\ requests' \in Seq(Kinds) /\ requests' # <<>> /\ Len(requests') = Len(requests) + 1
      /\ \A x, p : Good(requests, x, p) => Good(requests', x, p)
  BY <1>0, <1>1, GoodStays, Zenon
<1>3. PICK m : m = RequestBytes(Len(requests) + 1, k)
  BY Zenon
<1>4. wire' = wire \o m
  BY <1>0, <1>2, <1>3, Zenon
<1>5. m \in Seq(Byte)
  <2>1. /\ Len(requests) + 1 \in Nat /\ k.head + k.body \in Nat
    BY <1>1, HttpAssumption
  <2>2. \A i \in 1 .. k.head + k.body : <<Len(requests) + 1, i>> \in Byte
    BY <2>1 DEF Byte
  <2>3. m \in [1 .. k.head + k.body -> Byte]
    BY <1>3, <2>2, Zenon DEF RequestBytes
  <2> QED BY <2>1, <2>3, SequenceIs, Zenon
<1>6. wire' \in Seq(Byte) /\ inq \o wire \in Seq(Byte)
  BY <1>1, <1>4, <1>5, ConcatProperties, Zenon
<1>7. ReadTypeOK'
  BY <1>0, <1>1, <1>2, <1>6, Zenon DEF ReadTypeOK
<1>8. ASSUME is_open PROVE BufferOK(requests', read_buf') /\ NetOK'
  <2>1. BufferOK(requests, read_buf) /\ Unended(requests, inq \o wire, read_buf.head)
    BY <1>0, <1>8, Zenon DEF ReadInv, NetOK
  <2>2. BufferOK(requests', read_buf')
    BY <1>0, <1>2, <2>1, Zenon DEF BufferOK
  <2>3. (inq \o wire) \o m = inq' \o wire'
    <3>1. (inq \o wire) \o m = inq \o (wire \o m)
      BY <1>1, <1>5, BytesAssociative, Zenon
    <3> QED BY <1>0, <1>4, <3>1, Zenon
  <2>4. Unended(Append(requests, k), (inq \o wire) \o m, read_buf.head)
    BY <1>1, <1>3, <1>6, <2>1, UnendedGrows, Zenon
  <2>5. Unended(requests', inq' \o wire', read_buf'.head)
    BY <1>0, <2>3, <2>4, Zenon
  <2>6. Incoming(requests', inq' \o wire', read_buf'.head) /\ peer' # "reset"
    BY <1>0, <2>5, UnendedIncoming, Zenon
  <2>7. NetOK'
    BY <2>5, <2>6, Zenon DEF NetOK
  <2> QED BY <2>2, <2>7, Zenon
<1> QED BY <1>0, <1>2, <1>7, <1>8, Zenon DEF ReadInv

\* The client ends the stream.
LEMMA ShutdownReadInv ==
  ASSUME ReadInv, Shutdown
  PROVE  ReadInv'
<1> DEFINE c == inq \o wire
<1>0. /\ peer = "open" /\ peer' = "shut" /\ wire' = Append(wire, Fin) /\ requests' = requests
      /\ inq' = inq /\ read_buf' = read_buf /\ routed' = routed /\ is_open' = is_open
  BY Zenon DEF Shutdown, buffers
<1>1. ReadTypeOK /\ wire \in Seq(Byte) /\ inq \in Seq(Byte)
  BY Zenon DEF ReadInv, ReadTypeOK
<1>2. wire' \in Seq(Byte) /\ inq' \o wire' = Append(c, Fin) /\ c \in Seq(Byte)
  <2>1. wire' \in Seq(Byte) /\ c \in Seq(Byte)
    BY <1>0, <1>1, MarksDiffer
  <2>2. inq \o Append(wire, Fin) = Append(inq \o wire, Fin)
    BY <1>1, MarksDiffer
  <2> QED BY <1>0, <2>1, <2>2, Zenon
<1>3. ReadTypeOK'
  BY <1>0, <1>1, <1>2, Zenon DEF ReadTypeOK
<1> HIDE DEF c
<1>4. ASSUME NEW i \in 1 .. Len(Append(c, Fin))
      PROVE  \/ i \in 1 .. Len(c) /\ Append(c, Fin)[i] = c[i]
             \/ i = Len(Append(c, Fin)) /\ Append(c, Fin)[i] = Fin
  BY <1>2
<1>5. ASSUME is_open PROVE BufferOK(requests, read_buf') /\ NetOK'
  <2>1. Unended(requests, c, read_buf.head) /\ BufferOK(requests, read_buf)
    BY <1>0, <1>5, Zenon DEF ReadInv, NetOK, c
  <2>2. Incoming(requests, Append(c, Fin), read_buf.head)
    BY <1>4, <2>1, Zenon DEF Unended, Incoming
  <2>3. peer' # "reset" /\ peer' # "open"
    BY <1>0, Zenon
  <2> QED BY <1>0, <1>2, <2>1, <2>2, <2>3, Zenon DEF NetOK
<1> QED BY <1>0, <1>3, <1>5, ReadSame, Zenon

\* The client dies or the network fails.
LEMMA ResetReadInv ==
  ASSUME ReadInv, Reset
  PROVE  ReadInv'
<1>0. /\ peer # "reset" /\ peer' = "reset" /\ wire' = <<Rst>> /\ requests' = requests
      /\ inq' = inq /\ read_buf' = read_buf /\ routed' = routed /\ is_open' = is_open
  BY Zenon DEF Reset, buffers
<1>1. ReadTypeOK /\ wire \in Seq(Byte) /\ inq \in Seq(Byte)
  BY Zenon DEF ReadInv, ReadTypeOK
<1>2. ReadTypeOK'
  <2>1. wire' \in Seq(Byte)
    BY <1>0, MarksDiffer
  <2> QED BY <1>0, <1>1, <2>1, Zenon DEF ReadTypeOK
<1>3. ASSUME is_open PROVE BufferOK(requests, read_buf') /\ NetOK'
  <2>1. BufferOK(requests, read_buf) /\ Incoming(requests, inq \o wire, read_buf.head)
    BY <1>0, <1>3, Zenon DEF ReadInv, NetOK
  <2>2. Incoming(requests, inq, read_buf.head)
    BY <1>1, <2>1, IncomingFront, Zenon
  <2> QED BY <1>0, <2>1, <2>2, Zenon DEF NetOK
<1> QED BY <1>0, <1>2, <1>3, ReadSame, Zenon

\* The network delivers some of its bytes, or the reset.
LEMMA DeliverReadInv ==
  ASSUME ReadInv, NEW n \in 1 .. Len(wire), Deliver(n)
  PROVE  ReadInv'
<1>0. /\ wire' = SubSeq(wire, n + 1, Len(wire)) /\ peer' = peer /\ requests' = requests
      /\ inq' = (IF wire[1] = Rst THEN <<Rst>> ELSE inq \o SubSeq(wire, 1, n))
      /\ read_buf' = read_buf /\ routed' = routed /\ is_open
  BY Zenon DEF Deliver, buffers
<1>1. ReadTypeOK /\ wire \in Seq(Byte) /\ inq \in Seq(Byte) /\ BufferOK(requests, read_buf) /\ NetOK
  BY <1>0, Zenon DEF ReadInv, ReadTypeOK
<1>2. BufferOK(requests, read_buf')
  BY <1>0, <1>1, Zenon
<1>3. SubSeq(wire, 1, n) \in Seq(Byte) /\ SubSeq(wire, n + 1, Len(wire)) \in Seq(Byte) /\ Len(wire) \in Nat
  BY <1>1
<1>4. <<Rst>> \in Seq(Byte) /\ inq \o SubSeq(wire, 1, n) \in Seq(Byte)
  BY <1>1, <1>3, MarksDiffer
<1>5. ReadTypeOK'
  BY <1>0, <1>1, <1>3, <1>4, Zenon DEF ReadTypeOK
<1>6. CASE peer = "reset" /\ wire = <<Rst>>
  <2>1. wire[1] = Rst /\ Len(wire) = 1 /\ n = 1
    BY <1>6
  <2>2. wire' = <<>>
    BY <1>0, <1>3, <2>1
  <2>3. NetOK'
    BY <1>0, <1>6, <2>1, <2>2, Zenon DEF NetOK
  <2> QED BY <1>0, <1>2, <1>5, <2>3, ReadSame, Zenon
<1>7. CASE /\ peer # "reset" /\ Incoming(requests, inq \o wire, read_buf.head)
           /\ peer = "open" => Unended(requests, inq \o wire, read_buf.head)
  <2> DEFINE c == inq \o wire
             i == Len(inq) + 1
  <2>1. i \in 1 .. Len(c) /\ c[i] = wire[1]
    BY <1>1
  <2> HIDE DEF c, i
  <2>2. Incoming(requests, c, read_buf.head)
    BY <1>7, Zenon DEF c
  <2>3. wire[1] # Rst
    BY <2>1, <2>2, MarksDiffer, Zenon DEF Incoming
  <2>4. inq' \o wire' = inq \o wire
    <3>1. SubSeq(wire, 1, n) \o SubSeq(wire, n + 1, Len(wire)) = wire
      BY <1>1, <1>3
    <3>2. (inq \o SubSeq(wire, 1, n)) \o SubSeq(wire, n + 1, Len(wire))
            = inq \o (SubSeq(wire, 1, n) \o SubSeq(wire, n + 1, Len(wire)))
      BY <1>1, <1>3, BytesAssociative, Zenon
    <3> QED BY <1>0, <2>3, <3>1, <3>2, Zenon
  <2>5. NetOK'
    BY <1>0, <1>7, <2>4, Zenon DEF NetOK
  <2> QED BY <1>0, <1>2, <1>5, <2>5, ReadSame, Zenon
<1>8. wire # <<>>
  BY <1>1
<1> QED BY <1>1, <1>6, <1>7, <1>8, Zenon DEF NetOK

\* The server receives, to the end of the queue or of the room in read_buf.
LEMMA HandleReadIs ==
  ASSUME ReadInv, handle_read
  PROVE  \/ close_connection
         \/ /\ requests' = requests /\ peer' = peer /\ wire' = wire /\ routed' = routed
            /\ is_open' = is_open /\ read_buf' \in BufferType /\ BufferOK(requests, read_buf')
            /\ ~EndOfStream(read_buf')
            /\ \E n \in 0 .. Len(inq) :
                 /\ read_buf'.head = read_buf.head + n /\ inq' = SubSeq(inq, n + 1, Len(inq))
                 /\ n = 0 => DataBytes(inq) = <<>> \/ read_buf'.head = Capacity
<1>0. PICK filled :
        /\ filled = Recv(read_buf, DataBytes(inq)) /\ inq # <<>> /\ inq[1] # Rst /\ is_open
        /\ \/ close_connection
           \/ /\ ~EndOfStream(filled) /\ read_buf' = filled /\ inq' = Left(filled)
              /\ requests' = requests /\ peer' = peer /\ wire' = wire /\ routed' = routed
              /\ is_open' = is_open
  BY Zenon DEF handle_read, client
<1>1. /\ wire \in Seq(Byte) /\ inq \in Seq(Byte) /\ read_buf \in BufferType
      /\ BufferOK(requests, read_buf) /\ NetOK
  BY <1>0, Zenon DEF ReadInv, ReadTypeOK
<1>2. inq # <<Rst>>
  BY <1>0
<1>3. Incoming(requests, inq, read_buf.head)
  BY <1>1, <1>2, IncomingFront, Zenon DEF NetOK
<1>4. /\ filled \in BufferType /\ BufferOK(requests, filled)
      /\ \E n \in 0 .. Len(inq) :
           /\ filled.head = read_buf.head + n /\ Left(filled) = SubSeq(inq, n + 1, Len(inq))
           /\ n = 0 => DataBytes(inq) = <<>> \/ filled.head = Capacity
  BY <1>0, <1>1, <1>3, ReadsIs, Zenon
<1> QED BY <1>0, <1>4, Zenon

LEMMA HandleReadInv ==
  ASSUME ReadInv, handle_read
  PROVE  ReadInv'
<1>1. CASE close_connection
  <2>1. /\ UNCHANGED <<requests, peer, wire, inq, read_buf>> /\ routed' = routed /\ is_open' = FALSE
    BY <1>1, Zenon DEF close_connection, client, buffers
  <2> QED BY <2>1, ReadUnchanged, Zenon DEF ReadInv, ReadTypeOK
<1>2. CASE /\ requests' = requests /\ peer' = peer /\ wire' = wire /\ routed' = routed
           /\ is_open' = is_open /\ read_buf' \in BufferType /\ BufferOK(requests, read_buf')
           /\ \E n \in 0 .. Len(inq) :
                read_buf'.head = read_buf.head + n /\ inq' = SubSeq(inq, n + 1, Len(inq))
  <2>0. PICK n \in 0 .. Len(inq) :
          read_buf'.head = read_buf.head + n /\ inq' = SubSeq(inq, n + 1, Len(inq))
    BY <1>2, Zenon
  <2>1. /\ ReadTypeOK /\ wire \in Seq(Byte) /\ inq \in Seq(Byte) /\ read_buf \in BufferType
        /\ inq # <<>> /\ inq[1] # Rst /\ is_open /\ NetOK
    BY Zenon DEF ReadInv, ReadTypeOK, handle_read
  <2>2. inq # <<Rst>>
    BY <2>1
  <2>3. read_buf.head \in Nat /\ <<>> \in Seq(Byte)
    BY <2>1, BufferFields
  <2>4. inq' \in Seq(Byte)
    BY <2>0, <2>1, <2>3, RestIs, Zenon
  <2>5. inq' \o <<>> = inq' /\ inq \o <<>> = inq
    BY <2>1, <2>4
  <2>6. ASSUME NEW w \in Seq(Byte)
        PROVE  /\ Incoming(requests, inq \o w, read_buf.head) => Incoming(requests, inq' \o w, read_buf'.head)
               /\ Unended(requests, inq \o w, read_buf.head) => Unended(requests, inq' \o w, read_buf'.head)
    <3>1. /\ Incoming(requests, inq \o w, read_buf.head)
               => Incoming(requests, SubSeq(inq, n + 1, Len(inq)) \o w, read_buf.head + n)
          /\ Unended(requests, inq \o w, read_buf.head)
               => Unended(requests, SubSeq(inq, n + 1, Len(inq)) \o w, read_buf.head + n)
      BY <2>1, <2>3, IncomingRest, Zenon
    <3> QED BY <2>0, <3>1, Zenon
  <2>7. ReadTypeOK'
    BY <1>2, <2>1, <2>4, Zenon DEF ReadTypeOK
  <2>8. Incoming(requests, inq, read_buf.head) => Incoming(requests, inq', read_buf'.head)
    BY <2>3, <2>5, <2>6, Zenon
  <2>9. NetOK'
    BY <1>2, <2>1, <2>2, <2>6, <2>8, Zenon DEF NetOK
  <2> QED BY <1>2, <2>7, <2>9, ReadSame, Zenon
<1> QED BY <1>1, <1>2, HandleReadIs, Zenon

\* The header that process_request finds is the first request's.
LEMMA HeaderIs ==
  ASSUME requests \in Seq(Kinds), read_buf \in BufferType, BufferOK(requests, read_buf),
         HeaderEnds(data) # {}
  PROVE  /\ requests # <<>> /\ data \in Seq(Byte) /\ Len(data) = read_buf.head
         /\ header_end = requests[1].head /\ requests[1].head <= Len(data)
         /\ data[1][1] = 1 /\ First = requests[1]
         /\ \A i \in 1 .. Len(data) : i <= FirstLen(requests) => data[i] = <<1, i>>
<1> DEFINE h == requests[1].head
           z == FirstLen(requests)
           H == HeaderEnds(data)
<1>1. /\ data \in Seq(Byte) /\ Len(data) = read_buf.head
      /\ \A i \in 1 .. read_buf.head : data[i] = read_buf.data[i - 1]
  BY DataIs, Zenon
<1>2. \A i \in 1 .. Len(data) : Good(requests, data[i], i)
  BY <1>1, Zenon DEF BufferOK
<1>3. H = {i \in 1 .. Len(data) : data[i][2] = requests[data[i][1]].head}
  BY Zenon DEF HeaderEnds
<1>4. PICK e \in 1 .. Len(data) : e \in H
  BY <1>3, Zenon
<1>5. requests # <<>>
  BY <1>2, <1>4, Zenon DEF Good
<1>6. h \in Nat /\ h > 0 /\ z \in Nat /\ h <= z /\ Len(data) \in Nat
  <2>1. h \in Nat /\ h > 0 /\ requests[1].body \in Nat /\ z = h + requests[1].body
    BY <1>5, FirstType, Zenon
  <2>2. Len(data) \in Nat
    BY <1>1
  <2> QED BY <2>1, <2>2
<1>7. \A i \in 1 .. Len(data) : i <= z => data[i] = <<1, i>>
  BY <1>2, Zenon DEF Good
<1> HIDE DEF h, z
<1>8. ASSUME NEW i \in 1 .. Len(data), i <= z PROVE i \in H <=> i = h
  <2>1. data[i][1] = 1 /\ data[i][2] = i
    BY <1>7, <1>8
  <2> QED BY <1>3, <2>1, Zenon DEF h
<1>9. ASSUME NEW i \in H PROVE i >= h /\ i \in 1 .. Len(data) /\ h <= Len(data)
  <2>1. i \in 1 .. Len(data)
    BY <1>3, Zenon
  <2>2. i <= z => i = h
    BY <1>8, <2>1, Zenon
  <2> QED BY <1>6, <2>1, <2>2
<1>10. h \in 1 .. Len(data) /\ h <= Len(data)
  <2>1. h <= Len(data)
    BY <1>4, <1>9, Zenon
  <2> QED BY <1>6, <2>1
<1>11. h \in H
  BY <1>6, <1>8, <1>10, Zenon
<1>12. header_end = h
  <2>1. header_end = CHOOSE i \in H : \A j \in H : i <= j
    BY Zenon DEF header_end
  <2>2. \A j \in H : h <= j
    BY <1>6, <1>9
  <2>3. \A i \in H : (\A j \in H : i <= j) => i = h
    BY <1>6, <1>9, <1>11
  <2> HIDE DEF H
  <2> QED BY <1>11, <2>1, <2>2, <2>3, Zenon
<1>13. data[1][1] = 1
  <2>1. 1 \in 1 .. Len(data) /\ 1 <= z
    BY <1>6, <1>10
  <2> QED BY <1>7, <2>1
<1>14. First = requests[1]
  BY <1>13, Zenon DEF First
<1> QED BY <1>1, <1>5, <1>7, <1>10, <1>12, <1>13, <1>14, Zenon DEF h, z

\* Parts of sequences that agree so far.
LEMMA SamePart ==
  ASSUME NEW p \in Seq(Byte), NEW q \in Seq(Byte), NEW a \in Nat, NEW b \in Nat, a >= 1, a <= b + 1,
         b <= Len(p), b <= Len(q), \A i \in 1 .. b : p[i] = q[i]
  PROVE  SubSeq(p, a, b) = SubSeq(q, a, b) /\ SubSeq(p, a, b) \in Seq(Byte)
<1> DEFINE s == SubSeq(p, a, b)
           t == SubSeq(q, a, b)
           n == (b - a) + 1
<1>1. s \in Seq(Byte) /\ t \in Seq(Byte) /\ Len(s) = n /\ Len(t) = n
  OBVIOUS
<1>2. ASSUME NEW i \in 1 .. n PROVE s[i] = t[i]
  <2>1. s[i] = p[(a + i) - 1] /\ t[i] = q[(a + i) - 1] /\ (a + i) - 1 \in 1 .. b
    OBVIOUS
  <2> QED BY <2>1, Zenon
<1> HIDE DEF s, t, n
<1>3. s = t
  BY <1>1, <1>2, SeqEqual
<1> QED BY <1>1, <1>3, Zenon DEF s, t

\* What route hands to the handler.
LEMMA RouteIs ==
  ASSUME requests \in Seq(Kinds), read_buf \in BufferType, BufferOK(requests, read_buf), route
  PROVE  /\ requests # <<>> /\ data[1][1] = 1 /\ First = requests[1]
         /\ requests[1].length # "last" => FirstLen(requests) <= read_buf.head
         /\ \E call \in Calls :
              /\ call.call = route_request(requests[1].method, requests[1].path)
              /\ requests[1].length # "last" => call.body = BodyBytes(1)
              /\ routed' = IF Len(routed) < MaxRouted THEN Append(routed, call) ELSE routed
<1> DEFINE k == requests[1]
           z == FirstLen(requests)
           e == header_end + content_length
<1>0. /\ HeaderEnds(data) # {} /\ BodyComplete
      /\ \E call \in {[call |-> route_request(First.method, First.path),
                       body |-> SubSeq(data, header_end + 1, Smaller(total_needed, Len(data)))]} :
           routed' = IF Len(routed) < MaxRouted THEN Append(routed, call) ELSE routed
  BY Zenon DEF route, Parsed
<1>1. /\ requests # <<>> /\ data \in Seq(Byte) /\ Len(data) = read_buf.head
      /\ header_end = k.head /\ k.head <= Len(data) /\ data[1][1] = 1 /\ First = k
      /\ \A i \in 1 .. Len(data) : i <= z => data[i] = <<1, i>>
  BY <1>0, HeaderIs, Zenon
<1>2. /\ k \in Kinds /\ k.head \in Nat /\ k.head > 0 /\ k.body \in Nat /\ z \in Nat /\ z = k.head + k.body
      /\ k.length \in {"none", "first", "last"} /\ (k.length = "none" => k.body = 0) /\ Len(data) \in Nat
  <2>1. Len(data) \in Nat
    BY <1>1
  <2> QED BY <1>1, <2>1, FirstType, Zenon
<1>3. /\ content_length = IF k.length = "first" THEN k.body ELSE 0
  BY <1>1, Zenon DEF content_length
<1>4. e \in Nat /\ k.head <= e /\ (k.length # "last" => e = z)
  BY <1>1, <1>2, <1>3
<1>5. e <= Len(data) /\ Smaller(total_needed, Len(data)) = e
  <2>1. total_needed = e /\ Len(data) >= e
    BY <1>0, Zenon DEF total_needed, BodyComplete
  <2> QED BY <1>2, <1>4, <2>1 DEF Smaller
<1> DEFINE body == SubSeq(data, k.head + 1, e)
           call == [call |-> route_request(k.method, k.path), body |-> body]
<1>6. routed' = IF Len(routed) < MaxRouted THEN Append(routed, call) ELSE routed
  BY <1>0, <1>1, <1>5, Zenon
<1>7. k.head + 1 \in Nat /\ k.head + 1 >= 1 /\ k.head + 1 <= e + 1
  BY <1>2, <1>4
<1> HIDE DEF k, e, z
<1>8. body \in Seq(Byte)
  BY <1>1, <1>4, <1>5, <1>7, SamePart, Zenon
<1>9. ASSUME k.length # "last" PROVE body = BodyBytes(1) /\ z <= read_buf.head
  <2>1. e = z /\ z <= Len(data) /\ z = k.head + k.body /\ z \in Nat
    BY <1>2, <1>4, <1>5, <1>9, Zenon
  <2> DEFINE m == RequestBytes(1, requests[1])
  <2>2. \A i \in 1 .. z : <<1, i>> \in Byte
    BY <2>1 DEF Byte
  <2>3. m \in [1 .. z -> Byte] /\ \A i \in 1 .. z : m[i] = <<1, i>>
    BY <2>1, <2>2, Zenon DEF RequestBytes, k
  <2> HIDE DEF m
  <2>4. m \in Seq(Byte) /\ Len(m) = z
    BY <2>1, <2>3, SequenceIs, Zenon
  <2>5. \A i \in 1 .. z : i \in 1 .. Len(data) /\ i <= z
    BY <1>2, <2>1
  <2>6. \A i \in 1 .. z : data[i] = m[i]
    BY <1>1, <2>3, <2>5, Zenon
  <2>7. z <= Len(m)
    BY <2>1, <2>4
  <2>8. SubSeq(data, k.head + 1, z) = SubSeq(m, k.head + 1, z)
    BY <1>1, <1>7, <2>1, <2>4, <2>6, <2>7, SamePart, Zenon
  <2>9. BodyBytes(1) = SubSeq(m, k.head + 1, z)
    BY <2>1, Zenon DEF BodyBytes, m, k
  <2> QED BY <1>1, <2>1, <2>8, <2>9, Zenon
<1>10. call \in Calls /\ call.call = route_request(k.method, k.path) /\ call.body = body
  <2>1. route_request(k.method, k.path) \in {route_request(j.method, j.path) : j \in Kinds}
    BY <1>2, Zenon
  <2> HIDE DEF body
  <2> QED BY <1>8, <2>1 DEF Calls
<1> HIDE DEF call, body
<1> QED BY <1>1, <1>6, <1>9, <1>10, Zenon DEF k, z

\* A step that routes nothing, and leaves the first request as it is.
LEMMA RoutedSame ==
  ASSUME RoutedWhole, routed \in Seq(Calls), routed' = routed,
         routed # <<>> => requests # <<>> /\ requests' # <<>> /\ requests'[1] = requests[1]
  PROVE  RoutedWhole'
<1>1. CASE routed = <<>>
  <2>1. \A j \in 1 .. Len(routed') : FALSE
    BY <1>1
  <2> QED BY <2>1, Zenon DEF RoutedWhole, BodyDelivered
<1>2. CASE routed # <<>>
  <2>1. BodyBytes(1)' = BodyBytes(1)
    BY <1>2, Zenon DEF BodyBytes
  <2> QED BY <1>2, <2>1, Zenon DEF RoutedWhole, BodyDelivered
<1> QED BY <1>1, <1>2, Zenon

\* The elements of a sequence that has got one more.
LEMMA CallsGrow ==
  ASSUME NEW q \in Seq(Calls), NEW c \in Calls
  PROVE  /\ Append(q, c) \in Seq(Calls) /\ Len(Append(q, c)) = Len(q) + 1
         /\ \A j \in 1 .. Len(Append(q, c)) : Append(q, c)[j] = c \/ (j \in 1 .. Len(q) /\ Append(q, c)[j] = q[j])
  OBVIOUS

\* process_request routes the first request.
LEMMA RouteInv ==
  ASSUME ReadInv, RoutedWhole, route
  PROVE  ReadInv' /\ RoutedWhole'
<1>0. /\ UNCHANGED <<requests, peer, wire, inq, read_buf>> /\ is_open' = is_open /\ is_open
  BY Zenon DEF route, Parsed, Processing, Wait, client
<1>1. /\ requests \in Seq(Kinds) /\ read_buf \in BufferType /\ BufferOK(requests, read_buf)
      /\ routed \in Seq(Calls)
  BY <1>0, Zenon DEF ReadInv, ReadTypeOK
<1>2. PICK call \in Calls :
        /\ requests # <<>> /\ call.call = route_request(requests[1].method, requests[1].path)
        /\ requests[1].length # "last" => call.body = BodyBytes(1)
        /\ routed' = IF Len(routed) < MaxRouted THEN Append(routed, call) ELSE routed
  BY <1>1, RouteIs, Zenon
<1>3. routed' \in Seq(Calls)
  BY <1>1, <1>2, CallsGrow, Zenon
<1>4. ReadInv'
  BY <1>0, <1>2, <1>3, ReadUnchanged, Zenon
<1>5. \A j \in 1 .. Len(routed') : routed'[j] = call \/ (j \in 1 .. Len(routed) /\ routed'[j] = routed[j])
  BY <1>1, <1>2, CallsGrow, Zenon
<1>6. requests' = requests /\ BodyBytes(1)' = BodyBytes(1)
  BY <1>0, Zenon DEF BodyBytes
<1>7. RoutedWhole'
  BY <1>2, <1>5, <1>6, Zenon DEF RoutedWhole, BodyDelivered
<1> QED BY <1>4, <1>7, Zenon

\* The steps of a connection.
LEMMA Steps ==
  ASSUME [Next]_vars
  PROVE  \/ \E k \in Kinds : SendRequest(k)
         \/ Shutdown \/ Reset
         \/ \E n \in 1 .. Len(wire) : Deliver(n)
         \/ DeliverLate \/ ReceiveResponse
         \/ handle_read \/ incomplete_headers \/ bad_request_line \/ body_too_large
         \/ incomplete_body \/ route \/ handle_write \/ socket_error
         \/ UNCHANGED vars
  BY Zenon DEF Next, Client, Network, Server, process_request

\* A step that routes nothing leaves the history as it is.
LEMMA RoutedUnchanged ==
  ASSUME [Next]_vars, ~route
  PROVE  routed' = routed
<1>1. (\E k \in Kinds : SendRequest(k)) => routed' = routed
  BY Zenon DEF SendRequest
<1>2. (\E n \in 1 .. Len(wire) : Deliver(n)) => routed' = routed
  BY Zenon DEF Deliver
<1>3. Shutdown \/ Reset \/ DeliverLate \/ ReceiveResponse => routed' = routed
  BY Zenon DEF Shutdown, Reset, DeliverLate, ReceiveResponse
<1>4. close_connection => routed' = routed
  BY Zenon DEF close_connection
<1>5. handle_read \/ bad_request_line \/ socket_error => routed' = routed
  BY <1>4, Zenon DEF handle_read, bad_request_line, socket_error
<1>6. incomplete_headers \/ body_too_large \/ incomplete_body \/ handle_write => routed' = routed
  BY Zenon DEF incomplete_headers, body_too_large, incomplete_body, handle_write
<1>7. UNCHANGED vars => routed' = routed
  BY Zenon DEF vars
<1> QED BY <1>1, <1>2, <1>3, <1>5, <1>6, <1>7, Steps, Zenon

\* Every step keeps the stream in order.
LEMMA NextReadInv ==
  ASSUME ReadInv, RoutedWhole, [Next]_vars
  PROVE  ReadInv'
<1>0. /\ routed \in Seq(Calls) /\ (routed # <<>> => requests # <<>>)
  BY Zenon DEF ReadInv, ReadTypeOK
<1>1. ASSUME NEW k \in Kinds, SendRequest(k) PROVE ReadInv'
  BY <1>1, SendRequestReadInv, Zenon
<1>2. CASE Shutdown
  BY <1>2, ShutdownReadInv, Zenon
<1>3. CASE Reset
  BY <1>3, ResetReadInv, Zenon
<1>4. ASSUME NEW n \in 1 .. Len(wire), Deliver(n) PROVE ReadInv'
  BY <1>4, DeliverReadInv, Zenon
<1>5. CASE DeliverLate
  <2>1. /\ wire' = <<>> /\ is_open' = is_open /\ ~is_open /\ requests' = requests /\ inq' = inq
        /\ read_buf' = read_buf /\ routed' = routed
    BY <1>5, Zenon DEF DeliverLate, buffers
  <2>2. <<>> \in Seq(Byte)
    OBVIOUS
  <2>3. ReadTypeOK'
    BY <2>1, <2>2, Zenon DEF ReadInv, ReadTypeOK
  <2> QED BY <2>1, <2>3, ReadSame, Zenon
<1>6. CASE ReceiveResponse
  <2>1. UNCHANGED <<requests, peer, wire, inq, read_buf>> /\ is_open' = is_open /\ routed' = routed
    BY <1>6, Zenon DEF ReceiveResponse, buffers
  <2> QED BY <1>0, <2>1, ReadUnchanged, Zenon
<1>7. CASE handle_read
  BY <1>7, HandleReadInv, Zenon
<1>8. CASE bad_request_line \/ socket_error
  <2>1. UNCHANGED <<requests, peer, wire, inq, read_buf>> /\ is_open' = FALSE /\ routed' = routed
    BY <1>8, Zenon DEF bad_request_line, socket_error, close_connection, client, buffers
  <2> QED BY <1>0, <2>1, ReadUnchanged, Zenon
<1>9. CASE incomplete_headers \/ body_too_large \/ incomplete_body
  <2>1. UNCHANGED <<requests, peer, wire, inq, read_buf>> /\ is_open' = is_open /\ routed' = routed
    BY <1>9, Zenon DEF incomplete_headers, body_too_large, incomplete_body, Wait, client
  <2> QED BY <1>0, <2>1, ReadUnchanged, Zenon
<1>10. CASE route
  BY <1>10, RouteInv, Zenon
<1>11. CASE handle_write
  <2>1. UNCHANGED <<requests, peer, wire, inq, read_buf>> /\ is_open /\ routed' = routed
    BY <1>11, Zenon DEF handle_write, client
  <2> QED BY <1>0, <2>1, ReadUnchanged, Zenon
<1>12. CASE UNCHANGED vars
  <2>1. UNCHANGED <<requests, peer, wire, inq, read_buf>> /\ is_open' = is_open /\ routed' = routed
    BY <1>12, Zenon DEF vars, client, buffers
  <2> QED BY <1>0, <2>1, ReadUnchanged, Zenon
<1> QED BY <1>1, <1>2, <1>3, <1>4, <1>5, <1>6, <1>7, <1>8, <1>9, <1>10, <1>11, <1>12, Steps, Zenon

\* Every step but SendRequest leaves the requests as they are.
LEMMA RequestsUnchanged ==
  ASSUME [Next]_vars, requests \in Seq(Kinds)
  PROVE  \/ requests' = requests
         \/ \E k \in Kinds : SendRequest(k) /\ requests' = Append(requests, k)
<1>1. ASSUME NEW k \in Kinds, SendRequest(k) PROVE requests' = Append(requests, k)
  BY <1>1, Zenon DEF SendRequest
<1>2. (\E n \in 1 .. Len(wire) : Deliver(n)) => requests' = requests
  BY Zenon DEF Deliver
<1>3. Shutdown \/ Reset \/ DeliverLate \/ ReceiveResponse => requests' = requests
  BY Zenon DEF Shutdown, Reset, DeliverLate, ReceiveResponse
<1>4. close_connection => requests' = requests
  BY Zenon DEF close_connection, client
<1>5. handle_read \/ bad_request_line \/ socket_error => requests' = requests
  BY <1>4, Zenon DEF handle_read, bad_request_line, socket_error, client
<1>6. incomplete_headers \/ body_too_large \/ incomplete_body \/ route \/ handle_write => requests' = requests
  BY Zenon DEF incomplete_headers, body_too_large, incomplete_body, route, handle_write, Wait, client
<1>7. UNCHANGED vars => requests' = requests
  BY Zenon DEF vars, client
<1> QED BY <1>1, <1>2, <1>3, <1>5, <1>6, <1>7, Steps, Zenon

\* Every step keeps what was routed whole.
LEMMA NextRoutedWhole ==
  ASSUME ReadInv, RoutedWhole, [Next]_vars
  PROVE  RoutedWhole'
<1>1. CASE route
  BY <1>1, RouteInv, Zenon
<1>2. CASE ~route
  <2>1. /\ routed' = routed /\ requests \in Seq(Kinds) /\ routed \in Seq(Calls)
        /\ (routed # <<>> => requests # <<>>)
    BY <1>2, RoutedUnchanged, Zenon DEF ReadInv, ReadTypeOK
  <2>2. requests # <<>> => requests' # <<>> /\ requests'[1] = requests[1]
    <3>1. \A k \in Kinds : /\ Append(requests, k) # <<>>
                           /\ requests # <<>> => Append(requests, k)[1] = requests[1]
      BY <2>1, GoodStays, Zenon
    <3>2. requests' = requests \/ \E k \in Kinds : requests' = Append(requests, k)
      BY <2>1, RequestsUnchanged, Zenon
    <3> QED BY <3>1, <3>2
  <2> QED BY <2>1, <2>2, RoutedSame, Zenon
<1> QED BY <1>1, <1>2, Zenon

LEMMA ReadInvariant == Spec => [](ReadInv /\ RoutedWhole)
<1>1. Init => ReadInv /\ RoutedWhole
  <2> SUFFICES ASSUME Init PROVE ReadInv /\ RoutedWhole
    BY Zenon
  <2>1. routed = <<>>
    BY Zenon DEF Init
  <2>2. \A j \in 1 .. Len(routed) : FALSE
    BY <2>1
  <2> QED BY <2>2, InitReadInv, Zenon DEF RoutedWhole, BodyDelivered
<1>2. (ReadInv /\ RoutedWhole) /\ [Next]_vars => (ReadInv /\ RoutedWhole)'
  BY NextReadInv, NextRoutedWhole, Zenon
<1> QED BY <1>1, <1>2, PTL DEF Spec

\* However the network cuts the stream, and whatever follows the first request,
\* route_request is called for that request only, with all of its body, for
\* every size of the buffers and every kind of request: a handler never sees a
\* part of a body, nor bytes of the next request (process_request).
THEOREM RoutedCorrect == Spec => []RoutedWhole
  BY ReadInvariant, PTL

-----------------------------------------------------------------------------
(***************************************************************************)
(* One call of a handler                                                   *)
(***************************************************************************)

\* A step that leaves the server where it is, or lets it wait.
LEMMA OnceKept ==
  ASSUME OnceInv, requests' = requests, routed' = routed, peer' = "open" => peer = "open",
         is_open' => is_open /\ (pc = "wait" => pc' = "wait") /\ read_buf' = read_buf
  PROVE  OnceInv'
<1>1. Alone' => Alone
  BY Zenon DEF Alone, Sole
<1> QED BY <1>1, Zenon DEF OnceInv

\* The stream of a request that is alone ends with it.
LEMMA AloneEnds ==
  ASSUME Sole, NEW x, NEW p, ~(p <= FirstLen(requests))
  PROVE  ~Good(requests, x, p)
<1>1. ~(Len(requests) > 1)
  BY DEF Sole
<1> QED BY <1>1, Zenon DEF Good

\* When all of it is in read_buf, only the end of the stream can arrive, and
\* handle_read closes the connection.
LEMMA HandleReadCloses ==
  ASSUME ReadInv, Alone, is_open, read_buf.head = FirstLen(requests), handle_read
  PROVE  close_connection
<1>0. /\ inq # <<>> /\ inq[1] # Rst /\ wire \in Seq(Byte) /\ inq \in Seq(Byte)
      /\ read_buf \in BufferType /\ NetOK
  BY Zenon DEF handle_read, ReadInv, ReadTypeOK
<1>1. /\ read_buf.head \in Nat /\ Len(inq) \in Nat /\ Len(inq) >= 1 /\ 1 \in 1 .. Len(inq)
      /\ inq # <<Rst>>
  BY <1>0, BufferFields
<1>2. Incoming(requests, inq, read_buf.head)
  BY <1>0, <1>1, IncomingFront, Zenon DEF NetOK
<1>3. ~(read_buf.head + 1 <= FirstLen(requests))
  BY <1>1
<1>4. \A x : ~Good(requests, x, read_buf.head + 1)
  BY <1>3, AloneEnds, Zenon DEF Alone
<1>5. Len(inq) = 1 /\ inq[1] = Fin
  BY <1>1, <1>2, <1>4, Zenon DEF Incoming
<1>6. peer # "open"
  <2> SUFFICES ASSUME peer = "open" PROVE FALSE
    BY Zenon
  <2>1. peer # "reset"
    BY Zenon
  <2>2. Unended(requests, inq \o wire, read_buf.head)
    BY <1>0, <2>1, Zenon DEF NetOK
  <2>3. 1 \in 1 .. Len(inq \o wire)
    BY <1>0, <1>1
  <2> QED BY <1>4, <2>2, <2>3, Zenon DEF Unended
<1>7. FirstLen(requests) < Capacity
  BY <1>6, Zenon DEF Alone
<1> SUFFICES ASSUME ~close_connection PROVE FALSE
  BY Zenon
<1>8. PICK n \in 0 .. Len(inq) :
        /\ read_buf'.head = read_buf.head + n /\ read_buf' \in BufferType
        /\ BufferOK(requests, read_buf') /\ ~EndOfStream(read_buf')
  BY HandleReadIs, Zenon
<1>9. n = 0
  <2> SUFFICES ASSUME n # 0 PROVE FALSE
    BY Zenon
  <2>1. read_buf.head + 1 \in 1 .. read_buf'.head
    BY <1>1, <1>5, <1>8
  <2> QED BY <1>4, <1>8, <2>1, Zenon DEF BufferOK
<1>10. read_buf'.head = read_buf.head /\ read_buf'.head - read_buf.head + 1 = 1
  BY <1>1, <1>8, <1>9
<1>11. SubSeq(inq, 1, 1) = <<Fin>>
  <2>1. 1 \in 0 .. Len(inq) /\ 1 \in 1 .. 1
    BY <1>1
  <2>2. SubSeq(inq, 1, 1) \in Seq(Byte) /\ Len(SubSeq(inq, 1, 1)) = 1 /\ SubSeq(inq, 1, 1)[1] = Fin
    BY <1>0, <1>5, <2>1, FrontIs, Zenon
  <2>3. <<Fin>> \in Seq(Byte) /\ Len(<<Fin>>) = 1 /\ <<Fin>>[1] = Fin
    BY MarksDiffer
  <2>4. \A i \in 1 .. 1 : i = 1
    OBVIOUS
  <2>5. \A i \in 1 .. Len(SubSeq(inq, 1, 1)) : SubSeq(inq, 1, 1)[i] = <<Fin>>[i]
    BY <2>2, <2>3, <2>4, Zenon
  <2> QED BY <2>2, <2>3, <2>5, SeqEqual, Zenon
<1>12. Left(read_buf') = <<Fin>>
  BY <1>5, <1>10, <1>11, Zenon DEF Left
<1>13. free_space(read_buf') = Capacity - read_buf'.head
  BY <1>8, BufferFields, Zenon
<1>14. free_space(read_buf') > 0
  BY <1>1, <1>7, <1>10, <1>13, CapacityType
<1> QED BY <1>8, <1>12, <1>14, Zenon DEF EndOfStream

\* route leaves all of a request that is alone in read_buf.
LEMMA RouteOnceInv ==
  ASSUME ReadInv, OnceInv, route
  PROVE  OnceInv'
<1> SUFFICES ASSUME Alone' PROVE (/\ Len(routed) = 1
                                  /\ is_open => pc = "wait" /\ read_buf.head = FirstLen(requests))'
  BY Zenon DEF OnceInv
<1>0. /\ requests' = requests /\ peer' = peer /\ read_buf' = read_buf /\ pc = "process" /\ pc' = "wait"
      /\ is_open
  BY Zenon DEF route, Wait, Parsed, Processing, client
<1>1. /\ requests \in Seq(Kinds) /\ read_buf \in BufferType /\ BufferOK(requests, read_buf)
      /\ routed \in Seq(Calls)
  BY <1>0, Zenon DEF ReadInv, ReadTypeOK
<1>2. Alone
  BY <1>0, Zenon DEF Alone, Sole
<1>3. routed = <<>>
  <2>1. pc # "wait"
    BY <1>0, Zenon
  <2> QED BY <1>0, <1>2, <2>1, Zenon DEF OnceInv
<1>4. /\ requests # <<>> /\ FirstLen(requests) <= read_buf.head
      /\ \E call \in Calls : routed' = IF Len(routed) < MaxRouted THEN Append(routed, call) ELSE routed
  BY <1>1, <1>2, RouteIs, Zenon DEF Alone
<1>5. Len(routed') = 1
  BY <1>3, <1>4, CapacityType
<1>6. read_buf.head \in Nat /\ FirstLen(requests) \in Nat
  BY <1>1, <1>4, BufferFields, FirstType, Zenon
<1>7. read_buf.head <= FirstLen(requests)
  <2> SUFFICES ASSUME ~(read_buf.head <= FirstLen(requests)) PROVE FALSE
    BY Zenon
  <2>1. read_buf.head \in 1 .. read_buf.head
    BY <1>6
  <2> QED BY <1>1, <1>2, <2>1, AloneEnds, Zenon DEF BufferOK, Alone
<1>8. read_buf.head = FirstLen(requests)
  BY <1>4, <1>6, <1>7
<1> QED BY <1>0, <1>5, <1>8, Zenon

LEMMA NextOnceInv ==
  ASSUME ReadInv, OnceInv, [Next]_vars
  PROVE  OnceInv'
<1>1. ASSUME NEW k \in Kinds, SendRequest(k) PROVE OnceInv'
  <2>1. /\ requests' = Append(requests, k) /\ routed' = routed /\ requests \in Seq(Kinds)
        /\ routed # <<>> => requests # <<>>
    BY <1>1, Zenon DEF SendRequest, ReadInv, ReadTypeOK
  <2>2. requests # <<>> => Len(requests') # 1
    BY <2>1
  <2> QED BY <2>1, <2>2, Zenon DEF OnceInv, Alone, Sole
<1>2. CASE Shutdown \/ Reset
  <2>1. /\ requests' = requests /\ routed' = routed /\ peer' # "open" /\ is_open' = is_open
        /\ pc' = pc /\ read_buf' = read_buf
    BY <1>2, Zenon DEF Shutdown, Reset, buffers
  <2> QED BY <2>1, OnceKept, Zenon
<1>3. ASSUME NEW n \in 1 .. Len(wire), Deliver(n) PROVE OnceInv'
  <2>1. /\ requests' = requests /\ routed' = routed /\ peer' = peer /\ is_open' = is_open
        /\ pc' = pc /\ read_buf' = read_buf
    BY <1>3, Zenon DEF Deliver, buffers
  <2> QED BY <2>1, OnceKept, Zenon
<1>4. CASE DeliverLate \/ ReceiveResponse
  <2>1. /\ requests' = requests /\ routed' = routed /\ peer' = peer /\ is_open' = is_open
        /\ pc' = pc /\ read_buf' = read_buf
    BY <1>4, Zenon DEF DeliverLate, ReceiveResponse, buffers
  <2> QED BY <2>1, OnceKept, Zenon
<1>5. CASE close_connection
  <2>1. requests' = requests /\ routed' = routed /\ peer' = peer /\ is_open' = FALSE
    BY <1>5, Zenon DEF close_connection, client
  <2> QED BY <2>1, OnceKept, Zenon
<1>6. CASE handle_read
  <2>1. CASE Alone /\ routed # <<>>
    <3>1. is_open /\ read_buf.head = FirstLen(requests)
      BY <1>6, <2>1, Zenon DEF OnceInv, handle_read
    <3> QED BY <1>5, <1>6, <2>1, <3>1, HandleReadCloses, Zenon
  <2>2. CASE ~(Alone /\ routed # <<>>) /\ ~close_connection
    <3>1. requests' = requests /\ peer' = peer /\ routed' = routed
      BY <1>6, <2>2, HandleReadIs, Zenon
    <3> QED BY <2>2, <3>1, Zenon DEF OnceInv, Alone, Sole
  <2> QED BY <1>5, <2>1, <2>2, Zenon
<1>7. CASE bad_request_line \/ socket_error
  BY <1>5, <1>7, Zenon DEF bad_request_line, socket_error
<1>8. CASE incomplete_headers \/ body_too_large \/ incomplete_body
  <2>1. /\ requests' = requests /\ routed' = routed /\ peer' = peer /\ is_open' = is_open
        /\ pc' = "wait" /\ read_buf' = read_buf
    BY <1>8, Zenon DEF incomplete_headers, body_too_large, incomplete_body, Wait, client
  <2> QED BY <2>1, OnceKept, Zenon
<1>9. CASE route
  BY <1>9, RouteOnceInv, Zenon
<1>10. CASE handle_write
  <2>1. /\ requests' = requests /\ routed' = routed /\ peer' = peer /\ is_open
        /\ pc' = pc /\ read_buf' = read_buf
    BY <1>10, Zenon DEF handle_write, client
  <2> QED BY <2>1, OnceKept, Zenon
<1>11. CASE UNCHANGED vars
  <2>1. /\ requests' = requests /\ routed' = routed /\ peer' = peer /\ is_open' = is_open
        /\ pc' = pc /\ read_buf' = read_buf
    BY <1>11, Zenon DEF vars, client, buffers
  <2> QED BY <2>1, OnceKept, Zenon
<1> QED BY <1>1, <1>2, <1>3, <1>4, <1>6, <1>7, <1>8, <1>9, <1>10, <1>11, Steps, Zenon

\* A request that is alone on its connection is routed at most once, for every
\* size of the buffers: although process_request leaves it in the read buffer,
\* no event leads back to it but the end of the stream, and handle_read closes
\* the connection on that one before it looks at the buffer.
THEOREM OnceCorrect == Spec => []RoutedOnce
<1>1. Init => OnceInv
  BY Zenon DEF Init, OnceInv
<1>2. ReadInv /\ OnceInv /\ [Next]_vars => OnceInv'
  BY NextOnceInv, Zenon
<1>3. ReadInv /\ OnceInv => RoutedOnce
  <2> SUFFICES ASSUME ReadInv, OnceInv, Alone PROVE Len(routed) <= 1
    BY Zenon DEF RoutedOnce, Alone, FirstLen
  <2>1. CASE routed = <<>>
    BY <2>1
  <2>2. CASE routed # <<>>
    <3>1. Len(routed) = 1
      BY <2>2, Zenon DEF OnceInv
    <3> QED BY <3>1
  <2> QED BY <2>1, <2>2, Zenon
<1> QED BY <1>1, <1>2, <1>3, ReadInvariant, PTL DEF Spec

-----------------------------------------------------------------------------
(***************************************************************************)
(* The response                                                            *)
(***************************************************************************)

LEMMA ReplyByteType == \A i \in Nat : <<1, i, "200">> \in ReplyByte
  BY Zenon DEF ReplyByte

\* p is the m bytes of the response behind the first t.
Part(p, t, m) ==
  /\ p \in Seq(ReplyByte) /\ Len(p) = m
  /\ \A i \in 1 .. m : p[i] = <<1, t + i, "200">>

\* What a buffer that holds the response gives back.
LEMMA PeekIs ==
  ASSUME NEW n, NEW b, NEW t, Holds(n, b, t), NEW m \in 0 .. n - t
  PROVE  Part(peek(b, m), t, m)
<1> DEFINE C == Capacity
           pos == t % C
           s == Load(b.data, pos, m)
<1>1. /\ b.capacity = C /\ b.head = n /\ b.tail = t /\ C \in Nat /\ C > 0 /\ t \in 0 .. C
      /\ n \in Nat /\ n <= C /\ t \in Nat /\ t <= n /\ m \in Nat /\ m <= n - t
  BY CapacityType DEF Holds
<1>2. pos = IF t < C THEN t ELSE 0
  BY <1>1, Position, Zenon
<1>3. Smaller(m, size(b)) = m /\ Smaller(m, C - pos) = m /\ m - m = 0
  BY <1>1, <1>2 DEF Smaller, size
<1>4. peek(b, m) = s \o Load(b.data, 0, 0)
  BY <1>1, <1>3, Zenon DEF peek
<1>5. \A i \in 1 .. m : s[i] = <<1, t + i, "200">>
  <2>1. ASSUME NEW i \in 1 .. m PROVE pos + i - 1 = (t + i) - 1 /\ t + i \in 1 .. n
    BY <1>1, <1>2
  <2> QED BY <2>1, Zenon DEF Load, Holds
<1>6. s \in [1 .. m -> ReplyByte]
  <2>1. \A i \in 1 .. m : t + i \in Nat
    BY <1>1
  <2>2. \A i \in 1 .. m : s[i] \in ReplyByte
    BY <1>5, <2>1, ReplyByteType, Zenon
  <2>3. s = [i \in 1 .. m |-> s[i]]
    BY Zenon DEF Load
  <2> HIDE DEF s
  <2> QED BY <2>2, <2>3, Zenon
<1> HIDE DEF s
<1>7. s \in Seq(ReplyByte) /\ Len(s) = m
  BY <1>1, <1>6, SequenceIs, Zenon
<1>8. Load(b.data, 0, 0) = <<>>
  BY DEF Load
<1>9. s \o <<>> = s
  BY <1>7
<1>10. peek(b, m) = s
  BY <1>4, <1>8, <1>9, Zenon
<1> QED BY <1>5, <1>7, <1>10, Zenon DEF Part

\* Bytes of a response may be appended one message after the other.
LEMMA RepliesAssociative ==
  ASSUME NEW p \in Seq(ReplyByte), NEW q \in Seq(ReplyByte), NEW r \in Seq(ReplyByte)
  PROVE  (p \o q) \o r = p \o (q \o r)
  OBVIOUS

LEMMA RepliesJoined ==
  ASSUME NEW p \in Seq(ReplyByte), NEW q \in Seq(ReplyByte)
  PROVE  p \o q \in Seq(ReplyByte) /\ Len(p \o q) = Len(p) + Len(q)
  OBVIOUS

\* A response is continued.
LEMMA RepliedGrows ==
  ASSUME NEW q \in Seq(ReplyByte), NEW p \in Seq(ReplyByte), Replied(q),
         \A i \in 1 .. Len(p) : p[i] = <<1, Len(q) + i, "200">>
  PROVE  Replied(q \o p)
<1> DEFINE w == q \o p
<1>1. Len(w) = Len(q) + Len(p) /\ Len(q) \in Nat /\ Len(p) \in Nat
  OBVIOUS
<1>2. ASSUME NEW i \in 1 .. Len(q) + Len(p) PROVE w[i] = <<1, i, "200">>
  <2>1. CASE i <= Len(q)
    <3>1. w[i] = q[i] /\ i \in 1 .. Len(q)
      BY <1>1, <2>1
    <3> QED BY <3>1, Zenon DEF Replied
  <2>2. CASE ~(i <= Len(q))
    <3>1. w[i] = p[i - Len(q)]
      BY <1>1, <2>2
    <3>2. PICK j \in 1 .. Len(p) : j = i - Len(q) /\ Len(q) + j = i
      <4>1. i - Len(q) \in 1 .. Len(p) /\ Len(q) + (i - Len(q)) = i
        BY <1>1, <2>2
      <4> QED BY <4>1, Zenon
    <3> QED BY <3>1, <3>2, Zenon
  <2> QED BY <2>1, <2>2, Zenon
<1> QED BY <1>1, <1>2, Zenon DEF Replied

\* One send moves bytes of the response from the buffer to the socket.
LEMMA SendIs ==
  ASSUME NEW n, NEW b, NEW a \in Seq(ReplyByte), NEW q \in Seq(ReplyByte), Len(q) <= SocketRoom,
         Queued(n, b, a \o q), NEW m, m = Sendable(b, q), NEW r, r = q \o peek(b, m), NEW c, c = advance_tail(b, m)
  PROVE  r \in Seq(ReplyByte) /\ Len(r) <= SocketRoom /\ Queued(n, c, a \o r)
<1> DEFINE t == Len(a \o q)
           C == Capacity
           p == peek(b, m)
<1>1. Holds(n, b, t) /\ Replied(a \o q)
  BY Zenon DEF Queued
<1>2. a \o q \in Seq(ReplyByte) /\ t \in Nat /\ Len(q) \in Nat /\ Len(a) \in Nat
  OBVIOUS
<1>3. C \in Nat /\ C > 0 /\ SocketRoom \in Nat
  BY CapacityType
<1> HIDE DEF t
<1>4. /\ b.capacity = C /\ b.head = n /\ b.tail = t /\ t \in 0 .. C
      /\ n \in Nat /\ n <= C /\ t <= n
  BY <1>1, <1>2, <1>3 DEF Holds
<1>5. t % C = IF t < C THEN t ELSE 0
  BY <1>3, <1>4, Position, Zenon
<1>6. read_head(b) = n - t
  BY <1>2, <1>3, <1>4, <1>5 DEF read_head, Smaller, size
<1>7. m \in Nat /\ m \in 0 .. n - t /\ m <= SocketRoom - Len(q) /\ t + m \in 0 .. n
  BY <1>2, <1>3, <1>4, <1>6 DEF Sendable, Smaller
<1>8. /\ p \in Seq(ReplyByte) /\ Len(p) = m
      /\ \A i \in 1 .. m : p[i] = <<1, t + i, "200">>
  <2>1. Holds(n, b, t) /\ m \in 0 .. n - t
    BY <1>1, <1>7, Zenon
  <2>2. Part(p, t, m)
    BY <2>1, PeekIs, Zenon
  <2> QED BY <2>2, Zenon DEF Part
<1>9. Holds(n, c, t + m)
  <2>1. b \in [data : {b.data}, capacity : {C}, head : {n}, tail : {t}]
    BY <1>1, Zenon DEF Holds
  <2>2. c \in [data : {c.data}, capacity : {C}, head : {n}, tail : {t + m}] /\ c.data = b.data
    BY <2>1 DEF advance_tail
  <2> QED BY <1>1, <1>7, <2>2, Zenon DEF Holds
<1> HIDE DEF p
<1>10. r \in Seq(ReplyByte) /\ Len(r) = Len(q) + m
  <2>1. r = q \o p
    BY Zenon DEF p
  <2> QED BY <1>8, <2>1, RepliesJoined, Zenon
<1>11. a \o r = (a \o q) \o p
  <2>1. r = q \o p
    BY Zenon DEF p
  <2>2. (a \o q) \o p = a \o (q \o p)
    BY <1>8, RepliesAssociative, Zenon
  <2> QED BY <2>1, <2>2, Zenon
<1>12. Len(a \o r) = t + m
  <2>1. Len((a \o q) \o p) = Len(a \o q) + Len(p)
    BY <1>2, <1>8, RepliesJoined, Zenon
  <2> QED BY <1>8, <1>11, <2>1, Zenon DEF t
<1>13. Replied(a \o r)
  <2>1. \A i \in 1 .. Len(p) : p[i] = <<1, Len(a \o q) + i, "200">>
    BY <1>8, Zenon DEF t
  <2>2. Replied((a \o q) \o p)
    BY <1>1, <1>2, <1>8, <2>1, RepliedGrows, Zenon
  <2> QED BY <1>11, <2>2, Zenon
<1>14. Len(r) <= SocketRoom
  BY <1>2, <1>3, <1>7, <1>10
<1>15. Queued(n, c, a \o r)
  BY <1>9, <1>12, <1>13, Zenon DEF Queued
<1> QED BY <1>10, <1>14, <1>15, Zenon

\* The response to the first request.
LEMMA ResponseIs ==
  ASSUME NEW n \in Nat, n = requests[1].resp
  PROVE  /\ ResponseBytes(1, "200") \in Seq(ReplyByte) /\ Len(ResponseBytes(1, "200")) = n
         /\ \A i \in 1 .. n : ResponseBytes(1, "200")[i] = <<1, i, "200">>
<1> DEFINE s == ResponseBytes(1, "200")
<1>1. \A i \in 1 .. n : <<1, i, "200">> \in ReplyByte
  <2>1. \A i \in 1 .. n : i \in Nat
    OBVIOUS
  <2> QED BY <2>1, ReplyByteType, Zenon
<1>2. s \in [1 .. n -> ReplyByte] /\ \A i \in 1 .. n : s[i] = <<1, i, "200">>
  BY <1>1, Zenon DEF ResponseBytes
<1> HIDE DEF s
<1>3. s \in Seq(ReplyByte) /\ Len(s) = n
  BY <1>2, SequenceIs, Zenon
<1> QED BY <1>2, <1>3, Zenon DEF s

\* A response that write_buf can hold is written as a whole to an empty one.
LEMMA WriteIs ==
  ASSUME NEW n \in Nat, n = requests[1].resp, n <= Capacity,
         NEW src, src = ResponseBytes(1, "200"), NEW b, b = write(Empty(Capacity, Fin), src)
  PROVE  Holds(n, b, 0)
<1> DEFINE C == Capacity
           E == [p \in 0 .. C - 1 |-> Fin]
           e == [data |-> E, capacity |-> C, head |-> 0, tail |-> 0]
           d1 == Store(E, 0, SubSeq(src, 1, n))
           d == Store(d1, 0, SubSeq(src, n + 1, n))
<1>1. C \in Nat /\ C > 0 /\ 0 \in 0 .. C
  BY CapacityType
<1>2. src \in Seq(ReplyByte) /\ Len(src) = n /\ \A i \in 1 .. n : src[i] = <<1, i, "200">>
  BY ResponseIs, Zenon
<1>3. 0 % C = 0
  BY <1>1, Position, Zenon
<1>4. /\ e.data = E /\ e.capacity = C /\ e.head = 0 /\ e.tail = 0
      /\ size(e) = 0 /\ free_space(e) = C
  BY <1>1 DEF size, free_space
<1>5. Smaller(n, C) = n /\ Smaller(n, C - 0) = n
  BY <1>1 DEF Smaller
<1>6. Empty(C, Fin) = e
  BY Zenon DEF Empty
<1>7. write(e, src) = [e EXCEPT !.data = d, !.head = 0 + n]
  <2> HIDE DEF e, E
  <2>1. e.head % e.capacity = 0 /\ Smaller(Len(src), free_space(e)) = n /\ Smaller(n, e.capacity - 0) = n
    BY <1>2, <1>3, <1>4, <1>5, Zenon
  <2>2. write(e, src) = [e EXCEPT !.data = Store(Store(e.data, 0, SubSeq(src, 1, n)), 0, SubSeq(src, n + 1, n)),
                                  !.head = e.head + n]
    BY <2>1, Zenon DEF write
  <2> QED BY <1>4, <2>2, Zenon
<1>8. SubSeq(src, 1, n) = src /\ Len(SubSeq(src, n + 1, n)) = 0
  BY <1>2
<1>9. \A i \in 1 .. n : d1[i - 1] = src[i] /\ i - 1 \in DOMAIN d1
  <2>1. ASSUME NEW i \in 1 .. n
        PROVE  i - 1 \in 0 .. C - 1 /\ i - 1 \in 0 .. 0 + n - 1 /\ i - 1 - 0 + 1 = i
    BY <1>1
  <2>2. d1 = [p \in 0 .. C - 1 |-> IF p \in 0 .. 0 + n - 1 THEN src[p - 0 + 1] ELSE E[p]]
    BY <1>2, <1>8, Zenon DEF Store
  <2> HIDE DEF d1
  <2> QED BY <2>1, <2>2, Zenon
<1> HIDE DEF d1
<1>10. \A i \in 1 .. n : d[i - 1] = d1[i - 1]
  <2>1. \A j : j \notin 0 .. 0 + 0 - 1
    OBVIOUS
  <2> QED BY <1>8, <1>9, <2>1, Zenon DEF Store
<1> HIDE DEF d
<1>11. b \in [data : {b.data}, capacity : {C}, head : {n}, tail : {0}] /\ b.data = d
  <2>1. b = [e EXCEPT !.data = d, !.head = 0 + n]
    BY <1>6, <1>7, Zenon
  <2>2. e \in [data : {E}, capacity : {C}, head : {0}, tail : {0}] /\ 0 + n = n
    OBVIOUS
  <2> HIDE DEF E, e
  <2> QED BY <2>1, <2>2
<1>12. 0 \in 0 .. n
  OBVIOUS
<1> QED BY <1>2, <1>9, <1>10, <1>11, <1>12, Zenon DEF Holds

\* The server sends what the socket takes.
LEMMA HandleWriteResponded ==
  ASSUME Responded, handle_write
  PROVE  Responded'
<1> DEFINE n == requests[1].resp
<1>0. PICK n1, q1, b1, n2 :
        /\ n1 = Sendable(write_buf, outq) /\ q1 = outq \o peek(write_buf, n1)
        /\ b1 = advance_tail(write_buf, n1) /\ n2 = Sendable(b1, q1)
        /\ outq' = q1 \o peek(b1, n2) /\ write_buf' = advance_tail(b1, n2)
        /\ Len(outq) < SocketRoom /\ is_open' = ~Sent(write_buf')
        /\ requests' = requests /\ received' = received /\ wire' = wire /\ inq' = inq /\ pc' = pc
  BY Zenon DEF handle_write, client
<1>1. /\ received \in Seq(ReplyByte) /\ outq \in Seq(ReplyByte)
      /\ Queued(n, write_buf, received \o outq)
  BY Zenon DEF Responded
<1>2. Len(outq) <= SocketRoom
  <2>1. Len(outq) \in Nat /\ SocketRoom \in Nat
    BY <1>1, CapacityType
  <2> QED BY <1>0, <2>1
<1> HIDE DEF n
<1>3. q1 \in Seq(ReplyByte) /\ Len(q1) <= SocketRoom /\ Queued(n, b1, received \o q1)
  <2>1. n1 = Sendable(write_buf, outq) /\ q1 = outq \o peek(write_buf, n1) /\ b1 = advance_tail(write_buf, n1)
    BY <1>0, Zenon
  <2> QED BY ONLY <1>1, <1>2, <2>1, SendIs
<1>4. outq' \in Seq(ReplyByte) /\ Queued(n, write_buf', received \o outq')
  <2>1. received \in Seq(ReplyByte) /\ n2 = Sendable(b1, q1) /\ outq' = q1 \o peek(b1, n2) /\ write_buf' = advance_tail(b1, n2)
    BY <1>0, <1>1, Zenon
  <2> QED BY ONLY <1>3, <2>1, SendIs
<1>5. ~is_open' => write_buf'.tail = write_buf'.head
  BY <1>0, Zenon DEF Sent, empty
<1> QED BY <1>0, <1>1, <1>4, <1>5, Zenon DEF Responded, n

\* A client that has not ended its stream: nothing in it but its requests.
LEMMA OpenStream ==
  ASSUME ReadInv, is_open, peer = "open"
  PROVE  /\ Unended(requests, inq \o wire, read_buf.head)
         /\ \A k \in 1 .. Len(inq) : Good(requests, inq[k], read_buf.head + k)
<1>1. inq \in Seq(Byte) /\ wire \in Seq(Byte) /\ peer # "reset" /\ NetOK
  BY Zenon DEF ReadInv, ReadTypeOK
<1>2. Unended(requests, inq \o wire, read_buf.head)
  BY <1>1, Zenon DEF NetOK
<1>3. \A k \in 1 .. Len(inq) : k \in 1 .. Len(inq \o wire) /\ (inq \o wire)[k] = inq[k]
  BY <1>1
<1> QED BY <1>2, <1>3, Zenon DEF Unended

\* While the client has not ended its stream, no event of reading closes the
\* connection.
LEMMA OpenReads ==
  ASSUME ReadInv, is_open, peer = "open"
  PROVE  /\ ~socket_error
         /\ handle_read => UNCHANGED <<client, is_open, write_buf, epollout, outq>>
<1>1. /\ inq \in Seq(Byte) /\ read_buf \in BufferType /\ BufferOK(requests, read_buf)
      /\ \A k \in 1 .. Len(inq) : Good(requests, inq[k], read_buf.head + k)
  BY OpenStream, Zenon DEF ReadInv, ReadTypeOK
<1>2. ASSUME inq # <<>> PROVE 1 \in 1 .. Len(inq) /\ Len(inq) \in 1 .. Len(inq)
  BY <1>1, <1>2
<1>3. ~socket_error
  BY <1>1, <1>2, MarksDiffer, Zenon DEF socket_error
<1>4. ASSUME handle_read PROVE UNCHANGED <<client, is_open, write_buf, epollout, outq>>
  <2>1. PICK filled :
          /\ filled = Recv(read_buf, DataBytes(inq))
          /\ \/ EndOfStream(filled)
             \/ UNCHANGED <<client, is_open, write_buf, epollout, outq>>
    BY <1>4, Zenon DEF handle_read
  <2>2. Incoming(requests, inq, read_buf.head)
    BY <1>1, Zenon DEF Incoming
  <2>3. PICK m \in 0 .. Len(inq) : Left(filled) = SubSeq(inq, m + 1, Len(inq))
    BY <1>1, <2>1, <2>2, ReadsIs, Zenon
  <2>4. ~EndOfStream(filled)
    <3> SUFFICES ASSUME Left(filled) = <<Fin>> PROVE FALSE
      BY Zenon DEF EndOfStream
    <3>1. SubSeq(inq, m + 1, Len(inq)) = <<Fin>>
      BY <2>3, Zenon
    <3>2. Len(<<Fin>>) = 1 /\ <<Fin>>[1] = Fin
      OBVIOUS
    <3>3. Len(SubSeq(inq, m + 1, Len(inq))) = 1 /\ SubSeq(inq, m + 1, Len(inq))[1] = Fin
      BY <3>1, <3>2, Zenon
    <3>4. m + 1 \in 1 .. Len(inq) /\ SubSeq(inq, m + 1, Len(inq))[1] = inq[m + 1]
      BY <1>1, <3>3
    <3> QED BY <1>1, <3>3, <3>4, MarksDiffer, Zenon
  <2> QED BY <2>1, <2>4, Zenon
<1> QED BY <1>3, <1>4, Zenon

\* A step that leaves both sides of the response as they are.
LEMMA UnansweredKept ==
  ASSUME Unanswered, UNCHANGED <<is_open, epollout, write_buf, outq, received>>
  PROVE  Unanswered'
  BY Zenon DEF Unanswered

\* process_request neither refuses a request that can be answered, nor gets to
\* its end before one was sent.
LEMMA Accepts ==
  ASSUME ReadInv, peer = "open",
         requests = <<>> \/ (Sole /\ Answerable(requests[1]))
  PROVE  ~bad_request_line /\ ~body_too_large /\ (route => Sole /\ Answerable(requests[1]))
<1> SUFFICES ASSUME is_open, HeaderEnds(data) # {}
             PROVE  First.line /\ ~(content_length > MaxBodySize) /\ Sole /\ Answerable(requests[1])
  BY Zenon DEF bad_request_line, body_too_large, route, Parsed, Processing
<1>1. requests \in Seq(Kinds) /\ read_buf \in BufferType /\ BufferOK(requests, read_buf)
  BY Zenon DEF ReadInv, ReadTypeOK
<1>2. requests # <<>> /\ First = requests[1]
  BY <1>1, HeaderIs, Zenon
<1>3. Sole /\ Answerable(requests[1])
  BY <1>2, Zenon
<1>4. First.line /\ First.body <= MaxBodySize
  BY <1>2, <1>3, Zenon DEF Answerable
<1>5. MaxBodySize \in Nat /\ First.body \in Nat
  BY <1>1, <1>2, FirstType, HttpAssumption, Zenon
<1>6. ~(content_length > MaxBodySize)
  BY <1>4, <1>5 DEF content_length
<1> QED BY <1>3, <1>4, <1>6, Zenon

\* route queues the whole response.
LEMMA RouteResponded ==
  ASSUME ReadInv, Unanswered, peer = "open", Sole, Answerable(requests[1]), route
  PROVE  Responded'
<1> DEFINE n == requests[1].resp
<1>0. /\ is_open /\ write_buf' = write(write_buf, ResponseBytes(data[1][1], "200"))
      /\ pc' = "wait" /\ requests' = requests /\ wire' = wire /\ received' = received /\ inq' = inq
      /\ is_open' = is_open /\ outq' = outq
  BY Zenon DEF route, queue_write, Wait, Parsed, Processing, client
<1>1. /\ requests \in Seq(Kinds) /\ read_buf \in BufferType /\ BufferOK(requests, read_buf)
      /\ inq \in Seq(Byte) /\ wire \in Seq(Byte)
  BY <1>0, Zenon DEF ReadInv, ReadTypeOK
<1>2. requests[1].length # "last" /\ n <= Capacity
  BY Zenon DEF Answerable
<1>3. requests # <<>> /\ data[1][1] = 1 /\ FirstLen(requests) <= read_buf.head
  BY <1>1, <1>2, RouteIs, Zenon
<1>4. n \in Nat /\ FirstLen(requests) \in Nat /\ read_buf.head \in Nat
  BY <1>1, <1>3, FirstType, BufferFields, Zenon
<1>5. Len(inq \o wire) = 0
  <2>1. Len(inq \o wire) \in Nat /\ Unended(requests, inq \o wire, read_buf.head)
    <3>1. Len(inq \o wire) \in Nat
      BY <1>1
    <3> QED BY <1>0, <3>1, OpenStream, Zenon
  <2> SUFFICES ASSUME Len(inq \o wire) # 0 PROVE FALSE
    BY Zenon
  <2>2. 1 \in 1 .. Len(inq \o wire) /\ ~(read_buf.head + 1 <= FirstLen(requests))
    BY <1>3, <1>4, <2>1
  <2> QED BY <2>1, <2>2, AloneEnds, Zenon DEF Unended
<1>6. inq = <<>> /\ wire = <<>>
  BY <1>1, <1>5
<1>7. Holds(n, write_buf', 0)
  <2>1. write_buf' = write(Empty(Capacity, Fin), ResponseBytes(1, "200"))
    BY <1>0, <1>3, Zenon DEF Unanswered
  <2> HIDE DEF n
  <2>2. n \in Nat /\ n = requests[1].resp /\ n <= Capacity
    BY <1>2, <1>4, Zenon DEF n
  <2> QED BY <2>1, <2>2, WriteIs, Zenon
<1>8. received' = <<>> /\ outq' = <<>>
  BY <1>0, Zenon DEF Unanswered
<1>9. received' \o outq' = <<>> /\ Len(<<>>) = 0 /\ Replied(<<>>) /\ <<>> \in Seq(ReplyByte)
  <2>1. <<>> \o <<>> = <<>> /\ Len(<<>>) = 0 /\ <<>> \in Seq(ReplyByte)
    OBVIOUS
  <2>2. Replied(<<>>)
    BY DEF Replied
  <2> QED BY <1>8, <2>1, <2>2, Zenon
<1>10. Queued(n, write_buf', received' \o outq')
  BY <1>7, <1>9, Zenon DEF Queued
<1> QED BY <1>0, <1>6, <1>8, <1>9, <1>10, Zenon DEF Responded

\* The client takes what the socket holds.
LEMMA ReceiveResponded ==
  ASSUME Responded, ReceiveResponse
  PROVE  Responded'
<1>0. /\ received' = received \o outq /\ outq' = <<>> /\ requests' = requests /\ wire' = wire
      /\ inq' = inq /\ pc' = pc /\ is_open' = is_open /\ write_buf' = write_buf
  BY Zenon DEF ReceiveResponse, buffers
<1>1. received \in Seq(ReplyByte) /\ outq \in Seq(ReplyByte)
  BY Zenon DEF Responded
<1>2. /\ received \o outq \in Seq(ReplyByte) /\ (received \o outq) \o <<>> = received \o outq
      /\ <<>> \in Seq(ReplyByte)
  BY <1>1
<1> QED BY <1>0, <1>1, <1>2, Zenon DEF Responded

\* The conditions of ResponseWhole, before the request is sent and after.
Served == peer = "open" /\ (requests = <<>> \/ (Sole /\ Answerable(requests[1])))

\* A step that is neither SendRequest nor the client's end.
LEMMA WriteStep ==
  ASSUME WriteInv, requests' = requests, peer' = peer,
         Served /\ Unanswered => Unanswered' \/ (Sole /\ Responded'), Served /\ Responded => Responded'
  PROVE  WriteInv'
<1>1. requests = <<>> => ~Sole
  BY DEF Sole
<1> QED BY <1>1, Zenon DEF WriteInv, Served, Sole, Answerable

LEMMA NextWriteInv ==
  ASSUME ReadInv, WriteInv, [Next]_vars
  PROVE  WriteInv'
<1>0. /\ Unanswered => is_open /\ ~epollout /\ outq = <<>>
      /\ Responded => pc = "wait" /\ inq = <<>> /\ wire = <<>>
  BY Zenon DEF Unanswered, Responded
<1>1. ASSUME NEW k \in Kinds, SendRequest(k) PROVE WriteInv'
  <2>1. /\ requests' = Append(requests, k) /\ peer' = peer /\ peer = "open" /\ requests \in Seq(Kinds)
        /\ UNCHANGED <<is_open, epollout, write_buf, outq, received>>
    BY <1>1, Zenon DEF SendRequest, ReadInv, ReadTypeOK, buffers
  <2>2. requests' # <<>> /\ (requests # <<>> => Len(requests') # 1)
    BY <2>1
  <2> QED BY <2>1, <2>2, UnansweredKept, Zenon DEF WriteInv, Sole
<1>2. CASE Shutdown \/ Reset
  <2>1. peer' # "open"
    BY <1>2, Zenon DEF Shutdown, Reset
  <2> QED BY <2>1, Zenon DEF WriteInv
<1>3. ASSUME NEW n \in 1 .. Len(wire), Deliver(n) PROVE WriteInv'
  <2>1. /\ requests' = requests /\ peer' = peer
        /\ UNCHANGED <<is_open, epollout, write_buf, outq, received>>
    BY <1>3, Zenon DEF Deliver, buffers
  <2>2. wire # <<>>
    OBVIOUS
  <2> QED BY <1>0, <2>1, <2>2, UnansweredKept, WriteStep, Zenon
<1>4. CASE DeliverLate
  <2>1. requests' = requests /\ peer' = peer /\ ~is_open /\ wire # <<>>
    BY <1>4, Zenon DEF DeliverLate
  <2> QED BY <1>0, <2>1, WriteStep, Zenon
<1>5. CASE ReceiveResponse
  <2>1. requests' = requests /\ peer' = peer /\ outq # <<>>
    BY <1>5, Zenon DEF ReceiveResponse
  <2> QED BY <1>0, <1>5, <2>1, ReceiveResponded, WriteStep, Zenon
<1>6. CASE handle_read
  <2>1. requests' = requests /\ peer' = peer /\ inq # <<>> /\ is_open
    BY <1>6, Zenon DEF handle_read, close_connection, client
  <2>2. peer = "open" => UNCHANGED <<is_open, epollout, write_buf, outq, received>>
    BY <1>6, <2>1, OpenReads, Zenon DEF client
  <2> QED BY <1>0, <2>1, <2>2, UnansweredKept, WriteStep, Zenon DEF Served
<1>7. CASE socket_error
  <2>1. requests' = requests /\ peer' = peer /\ is_open
    BY <1>7, Zenon DEF socket_error, close_connection, client
  <2> QED BY <1>7, <2>1, OpenReads, WriteStep, Zenon DEF Served
<1>8. CASE bad_request_line
  <2>1. requests' = requests /\ peer' = peer
    BY <1>8, Zenon DEF bad_request_line, close_connection, client
  <2> QED BY <1>8, <2>1, Accepts, WriteStep, Zenon DEF Served
<1>9. CASE body_too_large
  <2>1. requests' = requests /\ peer' = peer
    BY <1>9, Zenon DEF body_too_large, Wait, client
  <2> QED BY <1>9, <2>1, Accepts, WriteStep, Zenon DEF Served
<1>10. CASE incomplete_headers \/ incomplete_body
  <2>1. /\ requests' = requests /\ peer' = peer /\ pc = "process"
        /\ UNCHANGED <<is_open, epollout, write_buf, outq, received>>
    BY <1>10, Zenon DEF incomplete_headers, incomplete_body, Parsed, Processing, Wait, client
  <2>2. pc # "wait"
    BY <2>1, Zenon
  <2> QED BY <1>0, <2>1, <2>2, UnansweredKept, WriteStep, Zenon
<1>11. CASE route
  <2>1. requests' = requests /\ peer' = peer /\ pc = "process"
    BY <1>11, Zenon DEF route, Parsed, Processing, Wait, client
  <2>2. pc # "wait"
    BY <2>1, Zenon
  <2>3. Served => peer = "open" /\ Sole /\ Answerable(requests[1])
    BY <1>11, Accepts, Zenon DEF Served
  <2>4. Served /\ Unanswered => Sole /\ Responded'
    BY <1>11, <2>3, RouteResponded, Zenon
  <2> QED BY <1>0, <2>1, <2>2, <2>4, WriteStep, Zenon
<1>12. CASE handle_write
  <2>1. requests' = requests /\ peer' = peer /\ epollout
    BY <1>12, Zenon DEF handle_write, client
  <2> QED BY <1>0, <1>12, <2>1, HandleWriteResponded, WriteStep, Zenon
<1>13. CASE UNCHANGED vars
  <2>1. /\ requests' = requests /\ peer' = peer /\ pc' = pc /\ inq' = inq /\ wire' = wire
        /\ UNCHANGED <<is_open, epollout, write_buf, outq, received>>
    BY <1>13, Zenon DEF vars, client, buffers
  <2>2. Responded => Responded'
    BY <2>1, Zenon DEF Responded
  <2> QED BY <2>1, <2>2, UnansweredKept, WriteStep, Zenon
<1> QED BY <1>1, <1>2, <1>3, <1>4, <1>5, <1>6, <1>7, <1>8, <1>9, <1>10, <1>11, <1>12, <1>13, Steps, Zenon

\* What the invariant says of the bytes of the response.
LEMMA WholeResponse ==
  ASSUME ReadInv, WriteInv
  PROVE  ResponseWhole
<1> SUFFICES ASSUME Sole, Answerable(requests[1]), peer = "open"
             PROVE  /\ received \o outq = SubSeq(Response, 1, Len(received \o outq))
                    /\ ~is_open => received \o outq = Response
  BY Zenon DEF ResponseWhole
<1> DEFINE n == requests[1].resp
           q == received \o outq
           r == Response
<1>0. requests \in Seq(Kinds) /\ requests # <<>>
  <2>1. requests \in Seq(Kinds)
    BY Zenon DEF ReadInv, ReadTypeOK
  <2>2. requests = <<>> => ~Sole
    BY ONLY DEF Sole
  <2> QED BY <2>1, <2>2, Zenon
<1>1. n \in Nat
  BY <1>0, FirstType, Zenon
<1>2. r \in Seq(ReplyByte) /\ Len(r) = n /\ \A i \in 1 .. n : r[i] = <<1, i, "200">>
  BY <1>1, ResponseIs, Zenon DEF Response
<1>3. CASE Unanswered
  <2>1. is_open /\ q = <<>> \o <<>>
    BY <1>3, Zenon DEF Unanswered
  <2>2. q = <<>> /\ Len(q) = 0
    BY <2>1
  <2> HIDE DEF r, q
  <2>3. SubSeq(r, 1, 0) = <<>>
    BY <1>2
  <2> QED BY <2>1, <2>2, <2>3, Zenon DEF r, q
<1>4. CASE Responded
  <2>1. /\ received \in Seq(ReplyByte) /\ outq \in Seq(ReplyByte) /\ Holds(n, write_buf, Len(q)) /\ Replied(q)
        /\ ~is_open => write_buf.tail = write_buf.head
    BY <1>4, Zenon DEF Responded, Queued
  <2>2. q \in Seq(ReplyByte)
    BY <2>1, RepliesJoined, Zenon
  <2> HIDE DEF r, q, n
  <2>3. Len(q) \in 0 .. n /\ write_buf.tail = Len(q) /\ write_buf.head = n /\ Len(q) \in Nat
    BY <1>1, <2>1 DEF Holds
  <2>4. /\ SubSeq(r, 1, Len(q)) \in Seq(ReplyByte) /\ Len(SubSeq(r, 1, Len(q))) = Len(q)
        /\ \A i \in 1 .. Len(q) : SubSeq(r, 1, Len(q))[i] = r[i] /\ i \in 1 .. n
    BY <1>1, <1>2, <2>3
  <2>5. \A i \in 1 .. Len(q) : q[i] = SubSeq(r, 1, Len(q))[i] /\ q[i] = r[i]
    BY <1>2, <2>1, <2>4, Zenon DEF Replied
  <2>6. q = SubSeq(r, 1, Len(q))
    BY <2>2, <2>4, <2>5, SeqEqual, Zenon
  <2>7. ASSUME ~is_open PROVE q = r
    <3>1. Len(q) = Len(r)
      BY <1>2, <2>1, <2>3, <2>7, Zenon
    <3> QED BY <1>2, <2>2, <2>5, <3>1, SeqEqual, Zenon
  <2> QED BY <2>6, <2>7, Zenon DEF r, q
<1> QED BY <1>3, <1>4, Zenon DEF WriteInv

\* A client that sends one request the server can read and answer, and stays,
\* gets the bytes of one response in order, for every size of the buffers and of
\* the socket's; and when handle_write closes the connection the client has got
\* or will get all of it.
THEOREM ResponseCorrect == Spec => []ResponseWhole
<1>1. Init => WriteInv
  <2> SUFFICES ASSUME Init PROVE WriteInv
    BY Zenon
  <2>1. Unanswered
    BY Zenon DEF Init, Unanswered
  <2> QED BY <2>1, Zenon DEF WriteInv
<1>2. ReadInv /\ WriteInv /\ [Next]_vars => WriteInv'
  BY NextWriteInv, Zenon
<1>3. ReadInv /\ WriteInv => ResponseWhole
  BY WholeResponse, Zenon
<1> QED BY <1>1, <1>2, <1>3, ReadInvariant, PTL DEF Spec
=============================================================================
