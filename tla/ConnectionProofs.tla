-------------------------- MODULE ConnectionProofs --------------------------
(***************************************************************************)
(* Proofs about CircularBuffer and Connection, for buffers, sockets and    *)
(* length prefixes of any size, any kinds of requests and any cuts of the  *)
(* stream: what the buffer returns is what was stored, the frames the      *)
(* worker routes are the requests the client sent, and what the client     *)
(* gets are the responses to them, provided that write_buf can hold as     *)
(* many as the client has outstanding.                                     *)
(***************************************************************************)
EXTENDS Connection, Integers, FiniteSetTheorems, SequenceTheorems, TLAPS

-----------------------------------------------------------------------------
(***************************************************************************)
(* FixedCircularBuffer: head and tail count all bytes ever stored and      *)
(* taken, and the p-th byte is at position (p - 1) modulo the capacity     *)
(***************************************************************************)

\* The bytes of requests and responses, and the marks of the end of a stream.
Byte == Nat \X Nat

BufferType == [data : [0 .. Capacity - 1 -> Byte], capacity : {Capacity}, head : Nat, tail : Nat]

\* b is a buffer that holds no more than its capacity.
IsBuffer(b) == b \in BufferType /\ b.tail <= b.head /\ b.head <= b.tail + Capacity

\* The p-th element, counted from the first one ever stored.
Slot(b, p) == b.data[(p - 1) % Capacity]

\* Division with remainder.
LEMMA Remainder ==
  ASSUME NEW m \in Nat, m > 0, NEW x \in Int, NEW q \in Int, NEW r \in 0 .. m - 1, x = m * q + r
  PROVE  x % m = r
  OBVIOUS

\* Every number has a quotient and a remainder.
LEMMA Division ==
  ASSUME NEW m \in Nat, m > 0, NEW x \in Int
  PROVE  \E q \in Int, r \in 0 .. m - 1 : x = m * q + r
<1>1. x \div m \in Int /\ x % m \in 0 .. m - 1
  OBVIOUS
<1>2. x = m * (x \div m) + (x % m)
  OBVIOUS
<1> QED BY <1>1, <1>2, Zenon

\* Going j positions on from x wraps at most once.
LEMMA Wraps ==
  ASSUME NEW c \in Nat, c > 0, NEW x \in Nat, NEW j \in 0 .. c
  PROVE  /\ x % c \in 0 .. c - 1
         /\ (x + j) % c = IF (x % c) + j < c THEN (x % c) + j ELSE (x % c) + j - c
<1>0. x \in Int
  OBVIOUS
<1>1. PICK q \in Int, r \in 0 .. c - 1 : x = c * q + r
  BY <1>0, Division, Zenon
<1>2. x % c = r
  BY <1>1, Remainder
<1>3. CASE r + j < c
  <2>1. x + j = c * q + (r + j) /\ r + j \in 0 .. c - 1
    BY <1>1, <1>3
  <2>2. (x + j) % c = r + j
    BY <2>1, Remainder
  <2> QED BY <1>2, <1>3, <2>2, Zenon
<1>4. CASE r + j >= c
  <2>1. x + j = c * (q + 1) + (r + j - c) /\ r + j - c \in 0 .. c - 1
    BY <1>1, <1>4
  <2>2. PICK y \in Int, k \in Int, t \in 0 .. c - 1 : y = x + j /\ k = q + 1 /\ t = r + j - c
    BY <2>1
  <2>3. y = c * k + t
    BY <2>1, <2>2, Zenon
  <2>4. y % c = t
    BY <2>3, Remainder, Zenon
  <2>5. (x + j) % c = r + j - c /\ ~(r + j < c)
    BY <1>4, <2>2, <2>4
  <2> QED BY <1>2, <2>5, Zenon
<1> QED BY <1>3, <1>4

\* Elements less than a capacity apart are at different positions.
LEMMA SlotsDiffer ==
  ASSUME NEW c \in Nat, c > 0, NEW x \in Nat, NEW y \in Nat, x < y, y < x + c
  PROVE  x % c # y % c
<1>1. PICK d \in 0 .. c : y = x + d /\ d # 0 /\ d # c
  OBVIOUS
<1>2. /\ x % c \in 0 .. c - 1
      /\ (x + d) % c = IF (x % c) + d < c THEN (x % c) + d ELSE (x % c) + d - c
  BY Wraps, Zenon
<1> QED BY <1>1, <1>2

\* The capacity is positive.
LEMMA CapacityType == Capacity \in Nat /\ Capacity > 0
  BY ConnectionAssumption

\* The fields of a buffer.
LEMMA BufferFields ==
  ASSUME NEW b, IsBuffer(b)
  PROVE  /\ b.capacity = Capacity /\ b.head \in Nat /\ b.tail \in Nat /\ b.data \in [0 .. Capacity - 1 -> Byte]
         /\ b.tail <= b.head /\ b.head <= b.tail + Capacity /\ size(b) \in 0 .. Capacity
         /\ free_space(b) = Capacity - size(b) /\ size(b) = b.head - b.tail
  BY CapacityType DEF IsBuffer, BufferType, size, free_space

\* A position where recv or write puts new elements is not the one of an element
\* the buffer holds.
LEMMA NewSlots ==
  ASSUME NEW b, IsBuffer(b), NEW p \in b.tail + 1 .. b.head, NEW j \in Nat, j < free_space(b)
  PROVE  (p - 1) % Capacity # (b.head + j) % Capacity
<1>1. PICK x \in Nat, y \in Nat : x = p - 1 /\ y = b.head + j
  BY BufferFields
<1>2. x < y /\ y < x + Capacity
  <2>1. /\ b.head \in Nat /\ b.tail \in Nat /\ b.head <= b.tail + Capacity
        /\ free_space(b) = Capacity - (b.head - b.tail)
    BY BufferFields, Zenon
  <2> QED BY <1>1, <2>1, CapacityType
<1>3. x % Capacity # y % Capacity
  BY <1>2, SlotsDiffer, CapacityType, Zenon
<1> QED BY <1>1, <1>3, Zenon

\* Receive stores what was received behind what the buffer holds.
LEMMA ReceiveSlots ==
  ASSUME NEW b, IsBuffer(b), NEW src \in Seq(Byte), Len(src) <= write_head(b)
  PROVE  /\ IsBuffer(Receive(b, src))
         /\ Receive(b, src).head = b.head + Len(src) /\ Receive(b, src).tail = b.tail
         /\ \A p \in b.tail + 1 .. b.head : Slot(Receive(b, src), p) = Slot(b, p)
         /\ \A k \in 1 .. Len(src) : Slot(Receive(b, src), b.head + k) = src[k]
<1> DEFINE C == Capacity
           n == Len(src)
           pos == b.head % C
           d == b.data
           r == Receive(b, src)
<1>0. /\ b.capacity = C /\ b.head \in Nat /\ b.tail \in Nat /\ d \in [0 .. C - 1 -> Byte]
      /\ b.tail <= b.head /\ b.head <= b.tail + C /\ free_space(b) = C - (b.head - b.tail)
  BY BufferFields, Zenon
<1>1. C \in Nat /\ C > 0 /\ n \in Nat /\ pos \in 0 .. C - 1
  BY <1>0, CapacityType
<1>2. n <= C - pos /\ n <= free_space(b)
  BY <1>0, <1>1 DEF write_head, Smaller, free_space, size
<1>3. \A x \in 0 .. C - 1 : Store(d, pos, src)[x] = IF x \in pos .. pos + n - 1 THEN src[x - pos + 1] ELSE d[x]
  BY <1>0, Zenon DEF Store
<1>a. \A j \in 0 .. C - 1 : (b.head + j) % C = IF pos + j < C THEN pos + j ELSE pos + j - C
  <2> SUFFICES ASSUME NEW j \in 0 .. C - 1
               PROVE  (b.head + j) % C = IF pos + j < C THEN pos + j ELSE pos + j - C
    BY Zenon
  <2>1. j \in 0 .. Capacity /\ b.head \in Nat
    BY <1>0, <1>1
  <2> QED BY <2>1, CapacityType, Wraps, Zenon
<1>b. r = [b EXCEPT !.data = Store(d, pos, src), !.head = b.head + n]
  BY <1>0, Zenon DEF Receive
<1>c. \A k \in 1 .. n : src[k] \in Byte
  OBVIOUS
<1> HIDE DEF r, pos, d, n, C
<1>4. Store(d, pos, src) \in [0 .. C - 1 -> Byte]
  <2>1. ASSUME NEW x \in 0 .. C - 1
        PROVE  (IF x \in pos .. pos + n - 1 THEN src[x - pos + 1] ELSE d[x]) \in Byte
    BY <1>0, <1>1, <1>c
  <2>2. DOMAIN d = 0 .. C - 1
    BY <1>0, Zenon
  <2> QED BY <2>1, <2>2, Zenon DEF Store, n
<1>5. /\ r.data = Store(d, pos, src) /\ r.head = b.head + n /\ r.tail = b.tail /\ r.capacity = C
      /\ r \in BufferType
  <2>1. b \in BufferType
    BY Zenon DEF IsBuffer
  <2>2. Store(d, pos, src) \in [0 .. Capacity - 1 -> Byte] /\ b.head + n \in Nat
    BY <1>0, <1>1, <1>4 DEF C
  <2> QED BY <1>0, <1>b, <2>1, <2>2, Zenon DEF BufferType
<1>6. IsBuffer(r)
  BY <1>0, <1>1, <1>2, <1>5 DEF IsBuffer, C
<1>7. ASSUME NEW p \in b.tail + 1 .. b.head PROVE Slot(r, p) = Slot(b, p)
  <2>1. PICK x \in 0 .. C - 1 : x = (p - 1) % Capacity
    BY <1>0, <1>1 DEF C
  <2>2. ASSUME x \in pos .. pos + n - 1 PROVE FALSE
    <3>1. PICK j \in 0 .. C - 1 : j < n /\ x = pos + j
      BY <1>1, <2>2
    <3>2. (b.head + j) % Capacity = x
      BY <1>a, <1>1, <3>1 DEF C
    <3>3. j \in Nat /\ j < free_space(b)
      BY <1>0, <1>1, <1>2, <3>1
    <3> QED BY <2>1, <3>2, <3>3, NewSlots, Zenon
  <2>3. r.data[x] = d[x]
    BY <1>3, <1>5, <2>2, Zenon
  <2> QED BY <2>1, <2>3, Zenon DEF Slot, d
<1>8. ASSUME NEW k \in 1 .. n PROVE Slot(r, b.head + k) = src[k]
  <2>1. PICK j \in 0 .. C - 1 : j = k - 1
    BY <1>1, <1>2
  <2>2. (b.head + j) % Capacity = pos + j /\ pos + j \in 0 .. C - 1
    BY <1>a, <1>1, <1>2, <2>1 DEF C
  <2>3. (b.head + k) - 1 = b.head + j
    BY <1>0, <1>1, <2>1
  <2>4. Store(d, pos, src)[pos + j] = src[k]
    BY <1>1, <1>3, <2>1, <2>2
  <2>5. Slot(r, b.head + k) = r.data[(b.head + j) % Capacity]
    BY <2>3, Zenon DEF Slot
  <2> QED BY <1>5, <2>2, <2>4, <2>5, Zenon
<1> QED BY <1>5, <1>6, <1>7, <1>8, Zenon DEF r, n

\* A function on 1 .. n is a sequence.
LEMMA BytesIs ==
  ASSUME NEW n \in Nat, NEW m \in [1 .. n -> Byte]
  PROVE  m \in Seq(Byte) /\ Len(m) = n
<1>1. m \in Seq(Byte) /\ DOMAIN m = 1 .. n
  OBVIOUS
<1>2. Len(m) = n
  BY <1>1, LenProperties
<1> QED BY <1>1, <1>2, Zenon

\* Concatenation is associative.
LEMMA BytesAssociative ==
  ASSUME NEW s \in Seq(Byte), NEW t \in Seq(Byte), NEW u \in Seq(Byte)
  PROVE  (s \o t) \o u = s \o (t \o u)
  BY ConcatAssociative

\* advance_tail gives up the oldest elements.
LEMMA AdvanceIs ==
  ASSUME NEW b, IsBuffer(b), NEW n \in 0 .. size(b), NEW c, c = advance_tail(b, n)
  PROVE  /\ IsBuffer(c) /\ c.tail = b.tail + n /\ c.head = b.head
         /\ \A p : Slot(c, p) = Slot(b, p)
         /\ \A p \in c.tail + 1 .. c.head : p \in b.tail + 1 .. b.head
<1>1. /\ b.head \in Nat /\ b.tail \in Nat /\ size(b) = b.head - b.tail
      /\ b.head <= b.tail + Capacity
  BY BufferFields, Zenon
<1>2. b \in BufferType /\ b.tail + n \in Nat
  BY <1>1 DEF IsBuffer
<1>3. c = [b EXCEPT !.tail = b.tail + n]
  BY Zenon DEF advance_tail
<1>4. c.tail = b.tail + n /\ c.head = b.head /\ c.data = b.data /\ c \in BufferType
  BY <1>2, <1>3, Zenon DEF BufferType
<1>5. c.tail <= c.head /\ c.head <= c.tail + Capacity /\ \A p \in c.tail + 1 .. c.head : p \in b.tail + 1 .. b.head
  BY <1>1, <1>4, CapacityType
<1> QED BY <1>4, <1>5, Zenon DEF IsBuffer, Slot

\* Load reads a part of the storage.
LEMMA LoadIs ==
  ASSUME NEW d \in [0 .. Capacity - 1 -> Byte], NEW pos \in Nat, NEW n \in Nat, pos + n <= Capacity
  PROVE  /\ Load(d, pos, n) \in Seq(Byte) /\ Len(Load(d, pos, n)) = n
         /\ \A i \in 1 .. n : Load(d, pos, n)[i] = d[pos + i - 1]
<1>1. \A i \in 1 .. n : pos + i - 1 \in 0 .. Capacity - 1
  BY CapacityType
<1>2. \A i \in 1 .. n : d[pos + i - 1] \in Byte
  BY <1>1, Zenon
<1>3. Load(d, pos, n) \in [1 .. n -> Byte]
  BY <1>2, Zenon DEF Load
<1>4. Load(d, pos, n) \in Seq(Byte) /\ DOMAIN Load(d, pos, n) = 1 .. n
  BY <1>3
<1>5. Len(Load(d, pos, n)) = n
  BY <1>4, LenProperties
<1> QED BY <1>4, <1>5, Zenon DEF Load

\* peek returns the oldest elements.
LEMMA PeekIs ==
  ASSUME NEW b, IsBuffer(b), NEW len \in 0 .. size(b)
  PROVE  /\ peek(b, len) \in Seq(Byte) /\ Len(peek(b, len)) = len
         /\ \A i \in 1 .. len : peek(b, len)[i] = Slot(b, b.tail + i)
<1> DEFINE C == Capacity
           pos == b.tail % C
           d == b.data
           first == Smaller(len, C - pos)
           s == Load(d, pos, first)
           u == Load(d, 0, len - first)
<1>0. /\ b.capacity = C /\ b.head \in Nat /\ b.tail \in Nat /\ d \in [0 .. C - 1 -> Byte]
      /\ size(b) \in 0 .. C
  BY BufferFields, Zenon
<1>1. C \in Nat /\ C > 0 /\ len \in Nat /\ len <= C /\ pos \in 0 .. C - 1
  BY <1>0, CapacityType
<1>2. /\ first \in 0 .. len /\ first <= C - pos
      /\ first # len => first = C - pos
  BY <1>1 DEF Smaller
<1>3. peek(b, len) = s \o u
  <2>1. Smaller(len, size(b)) = len
    BY <1>0 DEF Smaller
  <2> QED BY <1>0, <2>1, Zenon DEF peek
<1>4. \A j \in 0 .. C - 1 : (b.tail + j) % C = IF pos + j < C THEN pos + j ELSE pos + j - C
  <2> SUFFICES ASSUME NEW j \in 0 .. C - 1
               PROVE  (b.tail + j) % C = IF pos + j < C THEN pos + j ELSE pos + j - C
    BY Zenon
  <2>1. j \in 0 .. Capacity /\ b.tail \in Nat
    BY <1>0, <1>1
  <2> QED BY <2>1, CapacityType, Wraps, Zenon
<1> HIDE DEF pos, first, d, C
<1>5. /\ s \in Seq(Byte) /\ Len(s) = first /\ \A i \in 1 .. first : s[i] = d[pos + i - 1]
  <2>1. d \in [0 .. Capacity - 1 -> Byte] /\ pos \in Nat /\ first \in Nat /\ pos + first <= Capacity
    BY <1>0, <1>1, <1>2 DEF C
  <2> QED BY <2>1, LoadIs, Zenon
<1>6. /\ u \in Seq(Byte) /\ Len(u) = len - first /\ \A i \in 1 .. len - first : u[i] = d[0 + i - 1]
  <2>1. d \in [0 .. Capacity - 1 -> Byte] /\ 0 \in Nat /\ len - first \in Nat /\ 0 + (len - first) <= Capacity
    BY <1>0, <1>1, <1>2 DEF C
  <2> QED BY <2>1, LoadIs, Zenon
<1> HIDE DEF s, u
<1>7. /\ s \o u \in Seq(Byte) /\ Len(s \o u) = len
      /\ \A i \in 1 .. len : (s \o u)[i] = IF i <= first THEN s[i] ELSE u[i - first]
  <2>1. s \in Seq(Byte) /\ u \in Seq(Byte) /\ Len(s) + Len(u) = len
    BY <1>1, <1>2, <1>5, <1>6
  <2>2. s \o u \in Seq(Byte) /\ Len(s \o u) = Len(s) + Len(u)
    BY <2>1
  <2>3. \A i \in 1 .. Len(s) + Len(u) : (s \o u)[i] = IF i <= Len(s) THEN s[i] ELSE u[i - Len(s)]
    BY <2>1
  <2> QED BY <1>5, <2>1, <2>2, <2>3, Zenon
<1>8. ASSUME NEW i \in 1 .. len PROVE (s \o u)[i] = Slot(b, b.tail + i)
  <2>1. PICK j \in 0 .. C - 1 : j = i - 1
    BY <1>1
  <2>2. (b.tail + i) - 1 = b.tail + j
    BY <1>0, <2>1
  <2>3. Slot(b, b.tail + i) = d[(b.tail + j) % C]
    BY <2>2, Zenon DEF Slot, d, C
  <2>4. CASE i <= first
    <3>1. (b.tail + j) % C = pos + i - 1
      BY <1>1, <1>2, <1>4, <2>1, <2>4
    <3> QED BY <1>5, <1>7, <2>3, <2>4, <3>1
  <2>5. CASE i > first
    <3>1. first = C - pos
      BY <1>1, <1>2, <2>5
    <3>2. (b.tail + j) % C = (i - first) - 1
      BY <1>1, <1>4, <2>1, <2>5, <3>1
    <3>3. i - first \in 1 .. len - first /\ 0 + (i - first) - 1 = (i - first) - 1
      BY <1>1, <1>2, <2>5
    <3>4. u[i - first] = d[(i - first) - 1]
      BY <1>6, <3>3, Zenon
    <3> QED BY <1>2, <1>7, <2>3, <2>5, <3>2, <3>4
  <2>6. i <= first \/ i > first
    BY <1>1, <1>2
  <2> QED BY <2>4, <2>5, <2>6, Zenon
<1> QED BY <1>3, <1>7, <1>8, Zenon

\* write stores what it is given, when it fits, behind what the buffer holds.
LEMMA WriteSlots ==
  ASSUME NEW b, IsBuffer(b), NEW src \in Seq(Byte), Len(src) <= free_space(b)
  PROVE  /\ IsBuffer(write(b, src))
         /\ write(b, src).head = b.head + Len(src) /\ write(b, src).tail = b.tail
         /\ \A p \in b.tail + 1 .. b.head : Slot(write(b, src), p) = Slot(b, p)
         /\ \A k \in 1 .. Len(src) : Slot(write(b, src), b.head + k) = src[k]
<1> DEFINE C == Capacity
           n == Len(src)
           pos == b.head % C
           d == b.data
           first == Smaller(n, C - pos)
           one == SubSeq(src, 1, first)
           two == SubSeq(src, first + 1, n)
           e == Store(Store(d, pos, one), 0, two)
           r == write(b, src)
<1>0. /\ b.capacity = C /\ b.head \in Nat /\ b.tail \in Nat /\ d \in [0 .. C - 1 -> Byte]
      /\ b.tail <= b.head /\ b.head <= b.tail + C /\ free_space(b) = C - (b.head - b.tail)
  BY BufferFields, Zenon
<1>1. C \in Nat /\ C > 0 /\ n \in Nat /\ pos \in 0 .. C - 1 /\ n <= C
  BY <1>0, CapacityType
<1>2. first \in 0 .. n /\ first <= C - pos /\ (first # n => first = C - pos)
  BY <1>1 DEF Smaller
<1>3. \A j \in 0 .. C - 1 : (b.head + j) % C = IF pos + j < C THEN pos + j ELSE pos + j - C
  <2> SUFFICES ASSUME NEW j \in 0 .. C - 1
               PROVE  (b.head + j) % C = IF pos + j < C THEN pos + j ELSE pos + j - C
    BY Zenon
  <2>1. j \in 0 .. Capacity /\ b.head \in Nat
    BY <1>0, <1>1
  <2> QED BY <2>1, CapacityType, Wraps, Zenon
<1>4. r = [b EXCEPT !.data = e, !.head = b.head + n]
  <2>1. Smaller(Len(src), free_space(b)) = n
    BY <1>0, <1>1, Zenon DEF Smaller
  <2> QED BY <1>0, <2>1, Zenon DEF write
<1>5. \A k \in 1 .. n : src[k] \in Byte
  OBVIOUS
<1>6. Len(one) = first /\ \A k \in 1 .. first : one[k] = src[k]
  BY <1>1, <1>2
<1>7. Len(two) = n - first /\ \A k \in 1 .. n - first : two[k] = src[first + k]
  <2>1. first + 1 \in 1 .. n + 1 /\ n \in 0 .. Len(src)
    BY <1>1, <1>2
  <2> HIDE DEF first
  <2>2. Len(two) = n - first
    BY <1>1, <1>2, <2>1
  <2>3. ASSUME NEW k \in 1 .. n - first PROVE two[k] = src[first + k]
    BY <1>1, <1>2, <2>1, <2>2
  <2> QED BY <2>2, <2>3, Zenon
<1> HIDE DEF r, e, pos, d, n, C, first, one, two
<1>8. ASSUME NEW x \in 0 .. C - 1
      PROVE  e[x] = IF x < n - first THEN src[first + x + 1]
                    ELSE IF x \in pos .. pos + first - 1 THEN src[x - pos + 1] ELSE d[x]
  <2> DEFINE m == Store(d, pos, one)
  <2>1. DOMAIN d = 0 .. C - 1 /\ DOMAIN m = 0 .. C - 1
    BY <1>0, Zenon DEF Store
  <2>2. m[x] = IF x \in pos .. pos + first - 1 THEN one[x - pos + 1] ELSE d[x]
    BY <1>6, <2>1, Zenon DEF Store
  <2>3. x \in pos .. pos + first - 1 => x - pos + 1 \in 1 .. first
    BY <1>1, <1>2
  <2>4. m[x] = IF x \in pos .. pos + first - 1 THEN src[x - pos + 1] ELSE d[x]
    BY <1>6, <2>2, <2>3, Zenon
  <2> HIDE DEF m
  <2>5. e = Store(m, 0, two)
    BY Zenon DEF e, m
  <2>6. e[x] = IF x \in 0 .. 0 + Len(two) - 1 THEN two[x - 0 + 1] ELSE m[x]
    BY <2>1, <2>5, Zenon DEF Store
  <2>7. x \in 0 .. 0 + Len(two) - 1 <=> x < n - first
    BY <1>1, <1>2, <1>7
  <2>8. x < n - first => two[x - 0 + 1] = src[first + x + 1]
    <3>1. ASSUME x < n - first
          PROVE  x + 1 \in 1 .. n - first /\ x - 0 + 1 = x + 1 /\ first + x + 1 = first + (x + 1)
      BY <1>1, <1>2, <3>1
    <3> QED BY <1>7, <3>1
  <2> QED BY <2>4, <2>6, <2>7, <2>8, Zenon
<1>9. e \in [0 .. C - 1 -> Byte]
  <2>1. ASSUME NEW x \in 0 .. C - 1 PROVE e[x] \in Byte
    <3>1. x < n - first => first + x + 1 \in 1 .. n
      BY <1>1, <1>2
    <3>2. x \in pos .. pos + first - 1 => x - pos + 1 \in 1 .. n
      BY <1>1, <1>2
    <3> QED BY <1>0, <1>5, <1>8, <3>1, <3>2, Zenon
  <2>2. e = [x \in 0 .. C - 1 |-> e[x]]
    BY <1>0, Zenon DEF e, Store
  <2> QED BY <2>1, <2>2, Zenon
<1>10. /\ r.data = e /\ r.head = b.head + n /\ r.tail = b.tail /\ r.capacity = C
       /\ r \in BufferType
  <2>1. b \in BufferType
    BY Zenon DEF IsBuffer
  <2>2. e \in [0 .. Capacity - 1 -> Byte] /\ b.head + n \in Nat
    BY <1>0, <1>1, <1>9 DEF C
  <2> QED BY <1>0, <1>4, <2>1, <2>2, Zenon DEF BufferType
<1>11. n <= free_space(b)
  BY Zenon DEF n
<1>12. IsBuffer(r)
  BY <1>0, <1>1, <1>10, <1>11 DEF IsBuffer, C
<1>13. ASSUME NEW p \in b.tail + 1 .. b.head PROVE Slot(r, p) = Slot(b, p)
  <2>1. PICK x \in 0 .. C - 1 : x = (p - 1) % Capacity
    BY <1>0, <1>1 DEF C
  <2>2. ASSUME NEW j \in 0 .. C - 1, j < n PROVE (b.head + j) % Capacity # x
    <3>1. j \in Nat /\ j < free_space(b)
      BY <1>0, <1>1, <1>11, <2>2
    <3> QED BY <2>1, <3>1, NewSlots, Zenon
  <2>3. ~(x \in pos .. pos + first - 1)
    <3> SUFFICES ASSUME x \in pos .. pos + first - 1 PROVE FALSE
      BY Zenon
    <3>1. PICK j \in 0 .. C - 1 : j < n /\ x = pos + j
      BY <1>1, <1>2
    <3>2. (b.head + j) % Capacity = x
      BY <1>1, <1>3, <3>1 DEF C
    <3> QED BY <2>2, <3>1, <3>2, Zenon
  <2>4. ~(x < n - first)
    <3> SUFFICES ASSUME x < n - first PROVE FALSE
      BY Zenon
    <3>1. PICK j \in 0 .. C - 1 : j < n /\ j = first + x /\ first = C - pos
      BY <1>1, <1>2
    <3>2. (b.head + j) % Capacity = x
      BY <1>1, <1>3, <3>1 DEF C
    <3> QED BY <2>2, <3>1, <3>2, Zenon
  <2>5. r.data[x] = d[x]
    BY <1>8, <1>10, <2>3, <2>4, Zenon
  <2> QED BY <2>1, <2>5, Zenon DEF Slot, d
<1>14. ASSUME NEW k \in 1 .. n PROVE Slot(r, b.head + k) = src[k]
  <2>1. PICK j \in 0 .. C - 1 : j = k - 1
    BY <1>1
  <2>2. (b.head + k) - 1 = b.head + j
    BY <1>0, <1>1, <2>1
  <2>3. Slot(r, b.head + k) = e[(b.head + j) % C]
    BY <1>10, <2>2, Zenon DEF Slot, C
  <2>4. CASE k <= first
    <3>1. PICK x \in 0 .. C - 1 : x = (b.head + j) % C /\ x = pos + j
      BY <1>1, <1>2, <1>3, <2>1, <2>4
    <3>2. ~(x < n - first) /\ x \in pos .. pos + first - 1 /\ x - pos + 1 = k
      BY <1>1, <1>2, <2>1, <2>4, <3>1
    <3> QED BY <1>8, <2>3, <3>1, <3>2, Zenon
  <2>5. CASE k > first
    <3>1. first = C - pos
      BY <1>1, <1>2, <2>5
    <3>2. PICK x \in 0 .. C - 1 : x = (b.head + j) % C /\ x = pos + j - C
      BY <1>1, <1>2, <1>3, <2>1, <2>5, <3>1
    <3>3. x < n - first /\ first + x + 1 = k
      BY <1>1, <1>2, <2>1, <2>5, <3>1, <3>2
    <3> QED BY <1>8, <2>3, <3>2, <3>3, Zenon
  <2>6. k <= first \/ k > first
    BY <1>1, <1>2
  <2> QED BY <2>4, <2>5, <2>6, Zenon
<1> QED BY <1>10, <1>12, <1>13, <1>14, Zenon DEF r, n

-----------------------------------------------------------------------------
(***************************************************************************)
(* Streams of messages of given lengths                                    *)
(***************************************************************************)

\* f[n] is the number of bytes in front of the n-th message of the lengths l.
Offsets(f, l) ==
  /\ f \in [1 .. Len(l) + 1 -> Nat] /\ f[1] = 0
  /\ \A n \in 1 .. Len(l) : f[n + 1] = f[n] + l[n]
  /\ \A n \in 1 .. Len(l), m \in 1 .. Len(l) + 1 : n < m => f[n] + l[n] <= f[m]
  /\ \A p \in 1 .. f[Len(l) + 1] : \E n \in 1 .. Len(l) : \E i \in 1 .. l[n] : p = f[n] + i

\* x is the p-th byte of the stream.
IsByte(f, l, x, p) ==
  \E n \in 1 .. Len(l) : \E i \in 1 .. l[n] : x = <<n, i>> /\ p = f[n] + i

\* Positions in two messages, one behind the other, are different.
LEMMA Apart ==
  ASSUME NEW a \in Nat, NEW h \in Nat, NEW i \in 1 .. h, NEW b \in Nat, a + h <= b,
         NEW k \in Nat, NEW j \in 1 .. k
  PROVE  a + i # b + j
OBVIOUS

\* A position has one byte.
LEMMA ByteAt ==
  ASSUME NEW l \in Seq(Nat), NEW f, Offsets(f, l), NEW n \in 1 .. Len(l), NEW i \in 1 .. l[n],
         NEW x, IsByte(f, l, x, f[n] + i)
  PROVE  x = <<n, i>>
<1>0. PICK m \in 1 .. Len(l) : \E j \in 1 .. l[m] : x = <<m, j>> /\ f[n] + i = f[m] + j
  BY Zenon DEF IsByte
<1>1. PICK j \in 1 .. l[m] : x = <<m, j>> /\ f[n] + i = f[m] + j
  BY <1>0, Zenon
<1>2. f[n] \in Nat /\ f[m] \in Nat /\ l[n] \in Nat /\ l[m] \in Nat /\ i \in Nat /\ j \in Nat
  <2>1. l[n] \in Nat /\ l[m] \in Nat /\ Len(l) \in Nat
    OBVIOUS
  <2>2. n \in 1 .. Len(l) + 1 /\ m \in 1 .. Len(l) + 1
    BY <2>1
  <2>3. f[n] \in Nat /\ f[m] \in Nat
    BY <2>2, Zenon DEF Offsets
  <2> QED BY <2>1, <2>3
<1>3. CASE n < m
  <2>1. f[n] + l[n] <= f[m]
    BY <1>3 DEF Offsets
  <2> QED BY <1>1, <1>2, <2>1, Apart, Zenon
<1>4. CASE m < n
  <2>1. f[m] + l[m] <= f[n]
    BY <1>4 DEF Offsets
  <2> QED BY <1>1, <1>2, <2>1, Apart, Zenon
<1>5. CASE n = m
  BY <1>1, <1>2, <1>5
<1> QED BY <1>3, <1>4, <1>5

\* Two bytes at one position are one.
LEMMA SameByte ==
  ASSUME NEW l \in Seq(Nat), NEW f, Offsets(f, l), NEW p, NEW x, IsByte(f, l, x, p),
         NEW y, IsByte(f, l, y, p)
  PROVE  x = y
<1>1. PICK n \in 1 .. Len(l) : \E i \in 1 .. l[n] : x = <<n, i>> /\ p = f[n] + i
  BY Zenon DEF IsByte
<1>2. PICK i \in 1 .. l[n] : x = <<n, i>> /\ p = f[n] + i
  BY <1>1, Zenon
<1>3. y = <<n, i>>
  BY <1>2, ByteAt, Zenon
<1> QED BY <1>2, <1>3, Zenon

\* The stream ends with the last message.
LEMMA ByteBound ==
  ASSUME NEW l \in Seq(Nat), NEW f, Offsets(f, l), NEW x, NEW p, IsByte(f, l, x, p)
  PROVE  p \in 1 .. f[Len(l) + 1]
<1>0. PICK m \in 1 .. Len(l) : \E j \in 1 .. l[m] : x = <<m, j>> /\ p = f[m] + j
  BY Zenon DEF IsByte
<1>1. PICK j \in 1 .. l[m] : x = <<m, j>> /\ p = f[m] + j
  BY <1>0, Zenon
<1>2. f[m] + l[m] <= f[Len(l) + 1] /\ f[m] \in Nat /\ l[m] \in Nat /\ f[Len(l) + 1] \in Nat
  <2>1. l[m] \in Nat /\ Len(l) \in Nat
    OBVIOUS
  <2>2. m \in 1 .. Len(l) + 1 /\ Len(l) + 1 \in 1 .. Len(l) + 1 /\ m < Len(l) + 1
    BY <2>1
  <2> QED BY <2>1, <2>2, Zenon DEF Offsets
<1>3. j \in Nat /\ 1 <= j /\ j <= l[m] /\ p = f[m] + j
  BY <1>1, <1>2, SMTT(30)
<1> QED BY <1>2, <1>3, SMTT(30)

\* A further message.
LEMMA OneMore ==
  ASSUME NEW l \in Seq(Nat), NEW f, Offsets(f, l), NEW k \in Nat
  PROVE  \E g : /\ Offsets(g, Append(l, k))
                /\ \A n \in 1 .. Len(l) + 1 : g[n] = f[n]
                /\ g[Len(l) + 2] = f[Len(l) + 1] + k
<1> DEFINE N == Len(l)
           L == Append(l, k)
           g == [n \in 1 .. N + 2 |-> IF n <= N + 1 THEN f[n] ELSE f[N + 1] + k]
<1>1. /\ N \in Nat /\ L \in Seq(Nat) /\ Len(L) = N + 1 /\ L[N + 1] = k
      /\ \A n \in 1 .. N : L[n] = l[n] /\ l[n] \in Nat
  OBVIOUS
<1>2. \A n \in 1 .. N + 1 : f[n] \in Nat
  BY Zenon DEF Offsets
<1> HIDE DEF L, N
<1>3. /\ \A n \in 1 .. N + 1 : g[n] = f[n]
      /\ g[N + 2] = f[N + 1] + k /\ g \in [1 .. N + 2 -> Nat]
  BY <1>1, <1>2
<1> HIDE DEF g
<1>4. /\ \A n \in 1 .. N : f[n + 1] = f[n] + l[n]
      /\ \A n \in 1 .. N, m \in 1 .. N + 1 : n < m => f[n] + l[n] <= f[m]
      /\ f[1] = 0
  BY Zenon DEF Offsets, N
<1>5. g[1] = 0
  BY <1>1, <1>3, <1>4
<1>6. ASSUME NEW n \in 1 .. N + 1 PROVE g[n + 1] = g[n] + L[n]
  <2>1. CASE n <= N
    BY <1>1, <1>3, <1>4, <2>1
  <2>2. CASE n = N + 1
    BY <1>1, <1>3, <2>2
  <2> QED BY <1>1, <2>1, <2>2
<1>7. ASSUME NEW n \in 1 .. N + 1, NEW m \in 1 .. N + 2, n < m PROVE g[n] + L[n] <= g[m]
  <2>1. CASE m <= N + 1
    <3>1. n \in 1 .. N /\ n \in 1 .. N + 1 /\ m \in 1 .. N + 1
      BY <1>1, <1>7, <2>1, SMTT(30)
    <3>2. g[n] = f[n] /\ L[n] = l[n] /\ g[m] = f[m]
      BY <1>1, <1>3, <3>1, Zenon
    <3> QED BY <1>4, <1>7, <3>1, <3>2, Zenon
  <2>2. CASE m = N + 2 /\ n = N + 1
    BY <1>1, <1>2, <1>3, <2>2
  <2>3. CASE m = N + 2 /\ n <= N
    <3>1. f[n] + l[n] <= f[N + 1] /\ f[n] \in Nat /\ f[N + 1] \in Nat
      BY <1>1, <1>2, <1>4, <2>3
    <3>2. n \in 1 .. N /\ n \in 1 .. N + 1
      BY <1>1, <2>3
    <3>3. g[n] = f[n] /\ L[n] = l[n] /\ g[m] = f[N + 1] + k
      BY <1>1, <1>3, <2>3, <3>2, Zenon
    <3>4. f[n] + l[n] <= f[N + 1] + k
      BY <1>1, <3>1, <3>2
    <3> QED BY <3>3, <3>4, Zenon
  <2> QED BY <1>1, <1>7, <2>1, <2>2, <2>3
<1>8. ASSUME NEW p \in 1 .. g[N + 2]
      PROVE  \E n \in 1 .. N + 1 : \E i \in 1 .. L[n] : p = g[n] + i
  <2>0. f[N + 1] \in Nat
    BY <1>1, <1>2
  <2>1. CASE p <= f[N + 1]
    <3>1. p \in 1 .. f[N + 1]
      BY <2>0, <2>1
    <3>2. PICK n \in 1 .. N : \E i \in 1 .. l[n] : p = f[n] + i
      BY <3>1, Zenon DEF Offsets, N
    <3>3. n \in 1 .. N + 1
      BY <1>1
    <3> QED BY <1>1, <1>3, <3>2, <3>3, Zenon
  <2>2. CASE p > f[N + 1]
    <3>1. N + 1 \in 1 .. N + 1 /\ p - f[N + 1] \in 1 .. L[N + 1] /\ p = g[N + 1] + (p - f[N + 1])
      BY <1>1, <1>3, <2>0, <2>2
    <3> QED BY <3>1, Zenon
  <2> QED BY <2>0, <2>1, <2>2
<1>9. Offsets(g, L)
  <2>1. Len(L) + 1 = N + 2
    BY <1>1
  <2>2. Len(L) = N + 1
    BY <1>1, Zenon
  <2>3. g \in [1 .. Len(L) + 1 -> Nat] /\ \A n \in 1 .. Len(L) : g[n + 1] = g[n] + L[n]
    BY <1>3, <1>6, <2>1, <2>2, Zenon
  <2>4. \A n \in 1 .. Len(L), m \in 1 .. Len(L) + 1 : n < m => g[n] + L[n] <= g[m]
    BY <1>7, <2>1, <2>2, Zenon
  <2>5. \A p \in 1 .. g[Len(L) + 1] : \E n \in 1 .. Len(L) : \E i \in 1 .. L[n] : p = g[n] + i
    <3> SUFFICES ASSUME NEW p \in 1 .. g[Len(L) + 1]
                 PROVE  \E n \in 1 .. Len(L) : \E i \in 1 .. L[n] : p = g[n] + i
      BY Zenon
    <3>1. p \in 1 .. g[N + 2]
      BY <2>1, Zenon
    <3>2. \E n \in 1 .. N + 1 : \E i \in 1 .. L[n] : p = g[n] + i
      BY <1>8, <3>1, Zenon
    <3> QED BY <2>2, <3>2, Zenon
  <2> QED BY <1>5, <2>3, <2>4, <2>5, Zenon DEF Offsets
<1> QED BY <1>3, <1>9, Zenon DEF L, N

\* A further message comes behind the bytes there are.
LEMMA BytesStay ==
  ASSUME NEW l \in Seq(Nat), NEW f, Offsets(f, l), NEW k \in Nat,
         NEW g, \A n \in 1 .. Len(l) + 1 : g[n] = f[n]
  PROVE  /\ \A x, p : IsByte(f, l, x, p) => IsByte(g, Append(l, k), x, p)
         /\ \A i \in 1 .. k : IsByte(g, Append(l, k), <<Len(l) + 1, i>>, f[Len(l) + 1] + i)
<1> DEFINE L == Append(l, k)
<1>1. Len(L) = Len(l) + 1 /\ L[Len(l) + 1] = k /\ \A n \in 1 .. Len(l) : L[n] = l[n]
  OBVIOUS
<1> HIDE DEF L
<1>2. ASSUME NEW x, NEW p, IsByte(f, l, x, p) PROVE IsByte(g, L, x, p)
  <2>0. PICK n \in 1 .. Len(l) : \E i \in 1 .. l[n] : x = <<n, i>> /\ p = f[n] + i
    BY <1>2, Zenon DEF IsByte
  <2>1. PICK i \in 1 .. l[n] : x = <<n, i>> /\ p = f[n] + i
    BY <2>0, Zenon
  <2>2. n \in 1 .. Len(L) /\ i \in 1 .. L[n] /\ g[n] = f[n]
    BY <1>1
  <2> QED BY <2>1, <2>2, Zenon DEF IsByte
<1>3. ASSUME NEW i \in 1 .. k PROVE IsByte(g, L, <<Len(l) + 1, i>>, f[Len(l) + 1] + i)
  <2>1. Len(l) + 1 \in 1 .. Len(L) /\ i \in 1 .. L[Len(l) + 1] /\ g[Len(l) + 1] = f[Len(l) + 1]
    BY <1>1
  <2> QED BY <2>1, Zenon DEF IsByte
<1> QED BY <1>2, <1>3, Zenon DEF L

\* The messages that are not empty, come before the b-th and end behind position x.
Ahead(f, l, x, b) == {m \in 1 .. b - 1 : l[m] > 0 /\ f[m + 1] > x}

\* What lies between position x and a message belongs to these messages, which
\* have at most R bytes each.
Counted(f, l, R) ==
  \A x \in Nat, b \in 1 .. Len(l) + 1 : f[b] - x <= R * Cardinality(Ahead(f, l, x, b))

\* A set of messages is finite.
LEMMA AheadFinite ==
  ASSUME NEW f, NEW l, NEW x, NEW b \in Int
  PROVE  IsFiniteSet(Ahead(f, l, x, b)) /\ Cardinality(Ahead(f, l, x, b)) \in Nat
<1>1. Ahead(f, l, x, b) \in SUBSET (1 .. b - 1)
  BY Zenon DEF Ahead
<1>2. 1 \in Int /\ b - 1 \in Int
  OBVIOUS
<1>3. IsFiniteSet(1 .. b - 1)
  BY <1>2, FS_Interval, Zenon
<1>4. IsFiniteSet(Ahead(f, l, x, b))
  BY <1>1, <1>3, FS_Subset, Zenon
<1> QED BY <1>4, FS_CardinalityType, Zenon

\* Products of numbers.
LEMMA Products ==
  ASSUME NEW R \in Nat, NEW m \in Nat, NEW n \in Nat
  PROVE  R * m \in Nat /\ R * (m + 1) = R * m + R /\ (m <= n => R * m <= R * n)
<1>1. R * m \in Nat /\ R * n \in Nat /\ R * (m + 1) = R * m + R
  OBVIOUS
<1>2. ASSUME m <= n PROVE R * m <= R * n
  <2>1. PICK d \in Nat : n = m + d
    <3>1. n - m \in Nat /\ n = m + (n - m)
      BY <1>2
    <3> QED BY <3>1, Zenon
  <2>2. R * (m + d) = R * m + R * d /\ R * d \in Nat
    OBVIOUS
  <2> QED BY <1>1, <2>1, <2>2
<1> QED BY <1>1, <1>2, Zenon

\* A further message is counted.
LEMMA CountGrows ==
  ASSUME NEW l \in Seq(Nat), NEW f, Offsets(f, l), NEW R \in Nat, Counted(f, l, R),
         NEW k \in Nat, k <= R, NEW g, \A n \in 1 .. Len(l) + 1 : g[n] = f[n],
         g[Len(l) + 2] = f[Len(l) + 1] + k
  PROVE  Counted(g, Append(l, k), R)
<1> DEFINE N == Len(l)
           L == Append(l, k)
<1>1. N \in Nat /\ Len(L) = N + 1 /\ L[N + 1] = k /\ \A n \in 1 .. N : L[n] = l[n]
  OBVIOUS
<1>2. f[N + 1] \in Nat
  <2>1. N + 1 \in 1 .. N + 1
    BY <1>1
  <2> QED BY <2>1, Zenon DEF Offsets
<1> HIDE DEF N, L
<1>3. ASSUME NEW x \in Nat, NEW b \in 1 .. N + 1 PROVE Ahead(g, L, x, b) = Ahead(f, l, x, b)
  <2>1. ASSUME NEW m \in 1 .. b - 1 PROVE m \in 1 .. N /\ m + 1 \in 1 .. N + 1
    BY <1>1
  <2>2. \A m \in 1 .. b - 1 : L[m] = l[m] /\ g[m + 1] = f[m + 1]
    BY <1>1, <2>1, Zenon DEF N
  <2> QED BY <2>2, Zenon DEF Ahead
<1>4. ASSUME NEW x \in Nat, NEW b \in 1 .. N + 1 PROVE g[b] - x <= R * Cardinality(Ahead(g, L, x, b))
  <2>1. f[b] - x <= R * Cardinality(Ahead(f, l, x, b)) /\ g[b] = f[b]
    BY Zenon DEF Counted, N
  <2> QED BY <1>3, <2>1, Zenon
<1>5. ASSUME NEW x \in Nat PROVE g[N + 2] - x <= R * Cardinality(Ahead(g, L, x, N + 2))
  <2> DEFINE S == Ahead(g, L, x, N + 1)
             T == Ahead(g, L, x, N + 2)
  <2>1. /\ IsFiniteSet(S) /\ Cardinality(S) \in Nat /\ Cardinality(T) \in Nat
        /\ N + 1 \in 1 .. N + 1 /\ N + 1 + 1 = N + 2 /\ (N + 2) - 1 = N + 1 /\ (N + 1) - 1 = N
    <3>1. N + 1 \in Int /\ N + 2 \in Int
      BY <1>1
    <3>2. IsFiniteSet(S) /\ Cardinality(S) \in Nat /\ Cardinality(T) \in Nat
      BY <3>1, AheadFinite, Zenon
    <3>3. N + 1 \in 1 .. N + 1 /\ N + 1 + 1 = N + 2 /\ (N + 2) - 1 = N + 1 /\ (N + 1) - 1 = N
      BY <1>1
    <3> QED BY <3>2, <3>3, Zenon
  <2>2. g[N + 1] - x <= R * Cardinality(S) /\ g[N + 1] = f[N + 1] /\ g[N + 2] = f[N + 1] + k
    BY <1>4, <2>1, Zenon DEF N
  <2>3. N + 1 \notin S
    <3>1. N + 1 \notin 1 .. N
      BY <1>1
    <3> QED BY <2>1, <3>1, Zenon DEF Ahead
  <2>4. \A m \in 1 .. N + 1 : m \in 1 .. N \/ m = N + 1
    BY <1>1
  <2>5. \A m \in 1 .. N : m \in 1 .. N + 1
    BY <1>1
  <2>6. CASE k > 0 /\ g[N + 2] > x
    <3>1. T = S \cup {N + 1}
      BY <1>1, <2>1, <2>4, <2>5, <2>6, Zenon DEF Ahead
    <3>2. Cardinality(T) = Cardinality(S) + 1
      BY <2>1, <2>3, <3>1, FS_AddElement, Zenon
    <3> DEFINE c == Cardinality(S)
    <3> HIDE DEF S, T
    <3>3. R * (c + 1) = R * c + R
      BY <2>1, Products, Zenon
    <3>4. PICK a \in Nat : a = R * c
      BY <2>1, Products, Zenon
    <3>5. g[N + 2] - x <= a + R
      BY <1>2, <2>2, <3>4
    <3> QED BY <3>2, <3>3, <3>4, <3>5, Zenon DEF T
  <2>7. CASE k = 0 \/ g[N + 2] <= x
    <3>1. R * Cardinality(T) \in Nat
      BY <2>1, Products, Zenon
    <3>2. CASE g[N + 2] <= x
      BY <1>2, <2>2, <3>1, <3>2
    <3>3. CASE k = 0
      <4>1. ~(k > 0)
        BY <3>3
      <4>2. T = S
        BY <1>1, <2>1, <2>4, <2>5, <4>1, Zenon DEF Ahead
      <4>3. g[N + 2] = g[N + 1]
        BY <1>2, <2>2, <3>3
      <4> QED BY <2>2, <4>2, <4>3, Zenon
    <3> QED BY <2>7, <3>2, <3>3, Zenon
  <2> QED BY <1>2, <2>2, <2>6, <2>7
<1>6. \A b \in 1 .. Len(L) + 1 : b \in 1 .. N + 1 \/ b = N + 2
  BY <1>1
<1> QED BY <1>4, <1>5, <1>6, Zenon DEF Counted, L

-----------------------------------------------------------------------------
(***************************************************************************)
(* The inductive invariants                                                *)
(***************************************************************************)

\* The lengths of the frames and of the responses of requests r.
Sizes(r) == [n \in 1 .. Len(r) |-> r[n].size]
Resps(r) == [n \in 1 .. Len(r) |-> r[n].resp]

FrameLens == Sizes(requests)
RespLens == Resps(requests)

\* What the variables on the way of the requests hold.
ReadTypeOK ==
  /\ requests \in Seq(Kinds) /\ peer \in {"open", "shut", "reset"}
  /\ wire \in Seq(Byte) /\ inq \in Seq(Byte)
  /\ routed \in Seq(Seq(Byte))
  /\ IsBuffer(read_buf)

\* q is the stream from its from-th byte on, perhaps with its end.
Incoming(f, l, q, from) ==
  \A k \in 1 .. Len(q) : IsByte(f, l, q[k], from + k) \/ (k = Len(q) /\ q[k] = Fin)

\* The same while the client has not ended it.
Unended(f, l, q, from) ==
  /\ \A k \in 1 .. Len(q) : IsByte(f, l, q[k], from + k)
  /\ from + Len(q) = f[Len(l) + 1]

\* The receive queue and the network hold what follows the bytes received, until
\* a reset overtakes it.
NetOK(f) ==
  \/ peer = "reset" /\ inq = <<Rst>> /\ wire = <<>>
  \/ peer = "reset" /\ wire = <<Rst>> /\ Incoming(f, FrameLens, inq, read_buf.head)
  \/ /\ peer # "reset" /\ Incoming(f, FrameLens, inq \o wire, read_buf.head)
     /\ peer = "open" => Unended(f, FrameLens, inq \o wire, read_buf.head)

\* b holds the bytes of the stream between its tail and its head.
BufferOK(f, l, b) == \A p \in b.tail + 1 .. b.head : IsByte(f, l, Slot(b, p), p)

\* The frames routed are in front of the tail of read_buf.
ReadOK(f) ==
  /\ Len(routed) <= Len(requests) /\ read_buf.tail = f[Len(routed) + 1]
  /\ BufferOK(f, FrameLens, read_buf)
  /\ NetOK(f)

ReadInv == ReadTypeOK /\ FramesIntact /\ \E f : Offsets(f, FrameLens) /\ ReadOK(f)

\* What the variables on the way of the responses hold.
WriteTypeOK ==
  received \in Seq(Byte) /\ outq \in Seq(Byte) /\ IsBuffer(write_buf) /\ is_open \in BOOLEAN

\* q is a part of the stream, from its from-th byte on.
InStream(f, l, q, from) == \A k \in 1 .. Len(q) : IsByte(f, l, q[k], from + k)

\* The client, the socket and write_buf have the responses one after another.
WriteOK(g) ==
  /\ InStream(g, RespLens, received, 0) /\ InStream(g, RespLens, outq, Len(received))
  /\ Len(received) + Len(outq) <= g[Len(routed) + 1]
  /\ is_open => /\ write_buf.head = g[Len(routed) + 1]
                /\ write_buf.tail = Len(received) + Len(outq)
                /\ BufferOK(g, RespLens, write_buf)

\* The client keeps to its limit, and no response has more than R bytes.
WriteInv(R) ==
  /\ WriteTypeOK /\ Cardinality(Outstanding) <= MaxOutstanding
  /\ \E g : Offsets(g, RespLens) /\ Counted(g, RespLens, R) /\ WriteOK(g)

-----------------------------------------------------------------------------
(***************************************************************************)
(* Reading                                                                 *)
(***************************************************************************)

\* Lengths are numbers.
LEMMA LensType ==
  ASSUME NEW r \in Seq(Kinds)
  PROVE  /\ Sizes(r) \in Seq(Nat) /\ Len(Sizes(r)) = Len(r)
         /\ Resps(r) \in Seq(Nat) /\ Len(Resps(r)) = Len(r)
         /\ \A n \in 1 .. Len(r) : /\ Sizes(r)[n] = r[n].size /\ r[n].size \in Nat /\ r[n].size > Header
                                   /\ Resps(r)[n] = r[n].resp /\ r[n].resp \in Nat
<1>1. \A n \in 1 .. Len(r) : r[n] \in Kinds /\ Len(r) \in Nat
  OBVIOUS
<1>2. \A n \in 1 .. Len(r) : r[n].size \in Nat /\ r[n].size > Header /\ r[n].resp \in Nat
  BY <1>1, ConnectionAssumption, Zenon
<1>3. Sizes(r) \in [1 .. Len(r) -> Nat] /\ Resps(r) \in [1 .. Len(r) -> Nat]
  BY <1>2, Zenon DEF Sizes, Resps
<1>4. /\ Sizes(r) \in Seq(Nat) /\ DOMAIN Sizes(r) = 1 .. Len(r)
      /\ Resps(r) \in Seq(Nat) /\ DOMAIN Resps(r) = 1 .. Len(r) /\ Len(r) \in Nat
  <2>1. PICK n \in Nat : n = Len(r)
    OBVIOUS
  <2>2. [1 .. n -> Nat] \subseteq Seq(Nat)
    OBVIOUS
  <2> QED BY <1>3, <2>1, <2>2, Zenon
<1>5. Len(Sizes(r)) = Len(r) /\ Len(Resps(r)) = Len(r)
  BY <1>4, LenProperties
<1> QED BY <1>2, <1>4, <1>5, Zenon DEF Sizes, Resps

\* DataBytes drops the end of the stream.
LEMMA DataIs ==
  ASSUME NEW l, NEW f, NEW from, NEW q \in Seq(Byte), Incoming(f, l, q, from)
  PROVE  /\ DataBytes(q) \in Seq(Byte) /\ Len(DataBytes(q)) <= Len(q)
         /\ \A k \in 1 .. Len(DataBytes(q)) : DataBytes(q)[k] = q[k] /\ IsByte(f, l, q[k], from + k)
<1>1. CASE q # <<>> /\ q[Len(q)] = Fin
  <2>1. Len(q) \in Nat /\ Len(q) >= 1
    BY <1>1
  <2>2. DataBytes(q) = SubSeq(q, 1, Len(q) - 1)
    BY <1>1, Zenon DEF DataBytes
  <2>3. /\ SubSeq(q, 1, Len(q) - 1) \in Seq(Byte) /\ Len(SubSeq(q, 1, Len(q) - 1)) = Len(q) - 1
        /\ \A k \in 1 .. Len(q) - 1 : SubSeq(q, 1, Len(q) - 1)[k] = q[k]
    <3>1. PICK n \in Nat : n = Len(q) - 1 /\ n \in 0 .. Len(q)
      <4>1. Len(q) - 1 \in Nat /\ Len(q) - 1 \in 0 .. Len(q)
        BY <2>1
      <4> QED BY <4>1, Zenon
    <3>2. SubSeq(q, 1, n) \in Seq(Byte) /\ Len(SubSeq(q, 1, n)) = n /\ \A k \in 1 .. n : SubSeq(q, 1, n)[k] = q[k]
      BY <3>1
    <3> QED BY <3>1, <3>2, Zenon
  <2>4. ASSUME NEW k \in 1 .. Len(q) - 1 PROVE IsByte(f, l, q[k], from + k)
    BY <2>1 DEF Incoming
  <2> QED BY <2>1, <2>2, <2>3, <2>4
<1>2. CASE ~(q # <<>> /\ q[Len(q)] = Fin)
  <2>1. DataBytes(q) = q /\ Len(q) \in Nat
    BY <1>2 DEF DataBytes
  <2>2. ASSUME NEW k \in 1 .. Len(q) PROVE IsByte(f, l, q[k], from + k)
    <3>1. q # <<>>
      BY <2>1
    <3> QED BY <1>2, <3>1, Zenon DEF Incoming
  <2> QED BY <2>1, <2>2
<1> QED BY <1>1, <1>2, Zenon

\* One recv moves bytes of the stream from the queue to the buffer.
LEMMA RecvIs ==
  ASSUME NEW l, NEW f, NEW b, IsBuffer(b), BufferOK(f, l, b),
         NEW q \in Seq(Byte), Incoming(f, l, q, b.head),
         NEW r, r = Recv(b, DataBytes(q))
  PROVE  /\ IsBuffer(r) /\ BufferOK(f, l, r) /\ r.tail = b.tail
         /\ \E n \in 0 .. Len(q) : r.head = b.head + n
<1> DEFINE d == DataBytes(q)
           n == Smaller(write_head(b), Len(d))
           src == SubSeq(d, 1, n)
<1>0. r = Receive(b, src)
  BY Zenon DEF Recv
<1>1. /\ d \in Seq(Byte) /\ Len(d) <= Len(q) /\ Len(d) \in Nat
      /\ \A k \in 1 .. Len(d) : d[k] = q[k] /\ IsByte(f, l, q[k], b.head + k)
  BY DataIs
<1>2. write_head(b) \in Nat
  <2>1. /\ b.capacity = Capacity /\ b.head \in Nat /\ free_space(b) = Capacity - size(b) /\ size(b) \in 0 .. Capacity
    BY BufferFields, Zenon
  <2>2. b.head % Capacity \in 0 .. Capacity - 1
    BY <2>1, CapacityType
  <2> QED BY <2>1, <2>2, CapacityType DEF write_head, Smaller
<1>3. n \in 0 .. Len(d) /\ n <= write_head(b)
  BY <1>1, <1>2 DEF Smaller
<1> HIDE DEF d, n
<1>4. src \in Seq(Byte) /\ Len(src) = n /\ \A k \in 1 .. n : src[k] = d[k]
  BY <1>1, <1>3
<1> HIDE DEF src
<1>5. /\ IsBuffer(r) /\ r.head = b.head + n /\ r.tail = b.tail
      /\ \A p \in b.tail + 1 .. b.head : Slot(r, p) = Slot(b, p)
      /\ \A k \in 1 .. n : Slot(r, b.head + k) = src[k]
  BY <1>0, <1>3, <1>4, ReceiveSlots
<1>6. b.head \in Nat /\ b.tail \in Nat /\ b.tail <= b.head
  BY BufferFields, Zenon
<1>7. ASSUME NEW p \in r.tail + 1 .. r.head PROVE IsByte(f, l, Slot(r, p), p)
  <2>1. CASE p <= b.head
    <3>1. p \in b.tail + 1 .. b.head
      BY <1>5, <1>6, <2>1
    <3> QED BY <1>5, <3>1, Zenon DEF BufferOK
  <2>2. CASE p > b.head
    <3>1. PICK k \in 1 .. n : p = b.head + k
      <4>1. p - b.head \in 1 .. n /\ p = b.head + (p - b.head)
        BY <1>1, <1>3, <1>5, <1>6, <2>2
      <4> QED BY <4>1, Zenon
    <3>2. k \in 1 .. Len(d)
      BY <1>1, <1>3
    <3> QED BY <1>1, <1>4, <1>5, <3>1, <3>2, Zenon
  <2> QED BY <1>5, <1>6, <2>1, <2>2
<1>8. n \in 0 .. Len(q)
  BY <1>1, <1>3
<1> QED BY <1>5, <1>7, <1>8, Zenon DEF BufferOK

\* What is left of a queue, in front of what is still to come.
LEMMA RestIs ==
  ASSUME NEW q \in Seq(Byte), NEW w \in Seq(Byte), NEW n \in 0 .. Len(q)
  PROVE  /\ SubSeq(q, n + 1, Len(q)) \in Seq(Byte)
         /\ Len(SubSeq(q, n + 1, Len(q)) \o w) = Len(q \o w) - n
         /\ \A k \in 1 .. Len(q \o w) - n : (SubSeq(q, n + 1, Len(q)) \o w)[k] = (q \o w)[n + k]
<1> DEFINE s == SubSeq(q, n + 1, Len(q))
<1>0. Len(q) \in Nat /\ Len(w) \in Nat /\ n \in Nat /\ n <= Len(q)
  OBVIOUS
<1>1. s \in Seq(Byte) /\ Len(s) = Len(q) - n
  BY <1>0
<1>2. \A k \in 1 .. Len(q) - n : s[k] = q[n + k]
  <2> SUFFICES ASSUME NEW k \in 1 .. Len(q) - n PROVE s[k] = q[n + k]
    BY Zenon
  <2>1. s[k] = q[(n + 1 + k) - 1]
    BY <1>0, <1>1
  <2>2. (n + 1 + k) - 1 = n + k
    BY <1>0
  <2> QED BY <2>1, <2>2, Zenon
<1> HIDE DEF s
<1>3. Len(s \o w) = Len(q) - n + Len(w) /\ Len(q \o w) = Len(q) + Len(w)
  <2>1. Len(s \o w) = Len(s) + Len(w)
    BY <1>1, ConcatProperties, Zenon
  <2>2. Len(q \o w) = Len(q) + Len(w)
    BY ConcatProperties, Zenon
  <2> QED BY <1>1, <2>1, <2>2, Zenon
<1>4. ASSUME NEW k \in 1 .. Len(q \o w) - n PROVE (s \o w)[k] = (q \o w)[n + k]
  <2>0. k \in 1 .. Len(s) + Len(w) /\ n + k \in 1 .. Len(q) + Len(w)
    BY <1>0, <1>1, <1>3
  <2>1. (s \o w)[k] = IF k <= Len(s) THEN s[k] ELSE w[k - Len(s)]
    BY <1>1, <2>0
  <2>2. (q \o w)[n + k] = IF n + k <= Len(q) THEN q[n + k] ELSE w[n + k - Len(q)]
    BY <2>0
  <2>3. (k <= Len(s) <=> n + k <= Len(q)) /\ k - Len(s) = n + k - Len(q)
    BY <1>0, <1>1, <2>0
  <2>4. k <= Len(s) => k \in 1 .. Len(q) - n
    BY <1>0, <1>1, <2>0
  <2> QED BY <1>2, <2>1, <2>2, <2>3, <2>4, Zenon
<1>5. Len(s \o w) = Len(q \o w) - n
  BY <1>0, <1>3
<1> QED BY <1>1, <1>4, <1>5, Zenon DEF s

\* A further request has its lengths behind the others.
LEMMA LensGrow ==
  ASSUME NEW r \in Seq(Kinds), NEW k \in Kinds, NEW s, s = Append(r, k)
  PROVE  /\ Sizes(s) = Append(Sizes(r), k.size) /\ Resps(s) = Append(Resps(r), k.resp)
         /\ s \in Seq(Kinds) /\ k.size \in Nat /\ k.resp \in Nat /\ Len(s) = Len(r) + 1
         /\ \A n \in 1 .. Len(r) : s[n] = r[n]
<1>1. k.size \in Nat /\ k.resp \in Nat
  BY ConnectionAssumption, Zenon
<1>2. /\ s \in Seq(Kinds) /\ Len(s) = Len(r) + 1 /\ Len(r) \in Nat
      /\ s[Len(r) + 1] = k /\ \A n \in 1 .. Len(r) : s[n] = r[n]
  OBVIOUS
<1>3. /\ Sizes(r) \in Seq(Nat) /\ Len(Sizes(r)) = Len(r) /\ Resps(r) \in Seq(Nat) /\ Len(Resps(r)) = Len(r)
      /\ \A n \in 1 .. Len(r) : Sizes(r)[n] = r[n].size /\ Resps(r)[n] = r[n].resp
  BY LensType, Zenon
<1>4. /\ Sizes(s) \in Seq(Nat) /\ Len(Sizes(s)) = Len(r) + 1 /\ Resps(s) \in Seq(Nat) /\ Len(Resps(s)) = Len(r) + 1
      /\ \A n \in 1 .. Len(r) + 1 : Sizes(s)[n] = s[n].size /\ Resps(s)[n] = s[n].resp
  BY <1>2, LensType, Zenon
<1>5. Sizes(s) = Append(Sizes(r), k.size)
  <2> DEFINE t == Append(Sizes(r), k.size)
  <2>1. /\ t \in Seq(Nat) /\ Len(t) = Len(r) + 1 /\ t[Len(r) + 1] = k.size
        /\ \A n \in 1 .. Len(r) : t[n] = Sizes(r)[n]
    BY <1>1, <1>3
  <2> HIDE DEF t
  <2>2. ASSUME NEW n \in 1 .. Len(r) + 1 PROVE Sizes(s)[n] = t[n]
    <3>1. CASE n \in 1 .. Len(r)
      BY <1>2, <1>3, <1>4, <2>1, <3>1, Zenon
    <3>2. CASE n = Len(r) + 1
      BY <1>2, <1>4, <2>1, <3>2, Zenon
    <3> QED BY <1>2, <3>1, <3>2
  <2>3. Sizes(s) = t
    BY <1>4, <2>1, <2>2, SeqEqual, Zenon
  <2> QED BY <2>3, Zenon DEF t
<1>6. Resps(s) = Append(Resps(r), k.resp)
  <2> DEFINE t == Append(Resps(r), k.resp)
  <2>1. /\ t \in Seq(Nat) /\ Len(t) = Len(r) + 1 /\ t[Len(r) + 1] = k.resp
        /\ \A n \in 1 .. Len(r) : t[n] = Resps(r)[n]
    BY <1>1, <1>3
  <2> HIDE DEF t
  <2>2. ASSUME NEW n \in 1 .. Len(r) + 1 PROVE Resps(s)[n] = t[n]
    <3>1. CASE n \in 1 .. Len(r)
      BY <1>2, <1>3, <1>4, <2>1, <3>1, Zenon
    <3>2. CASE n = Len(r) + 1
      BY <1>2, <1>4, <2>1, <3>2, Zenon
    <3> QED BY <1>2, <3>1, <3>2
  <2>3. Resps(s) = t
    BY <1>4, <2>1, <2>2, SeqEqual, Zenon
  <2> QED BY <2>3, Zenon DEF t
<1> QED BY <1>1, <1>2, <1>5, <1>6, Zenon

\* A client that has not ended the stream sends a further frame at its end.
LEMMA UnendedGrows ==
  ASSUME NEW l \in Seq(Nat), NEW f, Offsets(f, l), NEW k \in Nat,
         NEW g, \A n \in 1 .. Len(l) + 1 : g[n] = f[n], g[Len(l) + 2] = f[Len(l) + 1] + k,
         NEW from \in Nat, NEW q \in Seq(Byte), Unended(f, l, q, from),
         NEW m \in Seq(Byte), Len(m) = k, \A i \in 1 .. k : m[i] = <<Len(l) + 1, i>>
  PROVE  Unended(g, Append(l, k), q \o m, from)
<1> DEFINE L == Append(l, k)
<1>1. /\ \A x, p : IsByte(f, l, x, p) => IsByte(g, L, x, p)
      /\ \A i \in 1 .. k : IsByte(g, L, <<Len(l) + 1, i>>, f[Len(l) + 1] + i)
  BY BytesStay, Zenon
<1>2. Len(L) = Len(l) + 1 /\ Len(l) \in Nat /\ Len(q) \in Nat /\ from + Len(q) = f[Len(l) + 1]
  BY DEF Unended
<1>3. /\ Len(q \o m) = Len(q) + k
      /\ \A j \in 1 .. Len(q) + k : (q \o m)[j] = IF j <= Len(q) THEN q[j] ELSE m[j - Len(q)]
  <2>1. /\ Len(q \o m) = Len(q) + Len(m)
        /\ \A j \in 1 .. Len(q) + Len(m) : (q \o m)[j] = IF j <= Len(q) THEN q[j] ELSE m[j - Len(q)]
    BY ConcatProperties, Zenon
  <2> QED BY <2>1, Zenon
<1> HIDE DEF L
<1>4. ASSUME NEW j \in 1 .. Len(q \o m) PROVE IsByte(g, L, (q \o m)[j], from + j)
  <2>1. CASE j <= Len(q)
    <3>1. IsByte(f, l, q[j], from + j)
      BY <1>2, <1>3, <2>1 DEF Unended
    <3> QED BY <1>1, <1>3, <2>1, <3>1, Zenon
  <2>2. CASE j > Len(q)
    <3>1. PICK i \in 1 .. k : i = j - Len(q)
      <4>1. j \in 1 .. Len(q) + k
        BY <1>3, Zenon
      <4>2. j - Len(q) \in 1 .. k
        BY <1>2, <2>2, <4>1
      <4> QED BY <4>2, Zenon
    <3>2. (q \o m)[j] = <<Len(l) + 1, i>> /\ from + j = f[Len(l) + 1] + i
      <4>1. (q \o m)[j] = m[i]
        BY <1>2, <1>3, <2>2, <3>1
      <4>2. from + j = (from + Len(q)) + i
        BY <1>2, <3>1
      <4> QED BY <1>2, <4>1, <4>2, Zenon
    <3> QED BY <1>1, <3>2, Zenon
  <2> QED BY <1>2, <1>3, <2>1, <2>2
<1>5. from + Len(q \o m) = g[Len(L) + 1]
  <2>1. Len(L) + 1 = Len(l) + 2
    BY <1>2
  <2>2. from + (Len(q) + k) = (from + Len(q)) + k
    BY <1>2
  <2> QED BY <1>2, <1>3, <2>1, <2>2, Zenon
<1> QED BY <1>4, <1>5, Zenon DEF Unended, L

\* FrameAt returns the oldest bytes.
LEMMA FrameIs ==
  ASSUME NEW b, IsBuffer(b), NEW total \in 0 .. size(b)
  PROVE  /\ FrameAt(b, total) \in Seq(Byte) /\ Len(FrameAt(b, total)) = total
         /\ \A i \in 1 .. total : FrameAt(b, total)[i] = Slot(b, b.tail + i)
<1>1. CASE read_head(b) >= total
  <2> DEFINE pos == b.tail % Capacity
  <2>0. /\ b.capacity = Capacity /\ b.tail \in Nat /\ b.data \in [0 .. Capacity - 1 -> Byte]
        /\ size(b) \in 0 .. Capacity
    BY BufferFields, Zenon
  <2>1. pos \in 0 .. Capacity - 1
    BY <2>0, CapacityType
  <2>2. pos + total <= Capacity /\ total \in Nat
    BY <1>1, <2>0, <2>1, CapacityType DEF read_head, Smaller
  <2>3. FrameAt(b, total) = Load(b.data, pos, total)
    BY <1>1, <2>0, Zenon DEF FrameAt
  <2>4. \A j \in 0 .. Capacity - 1 :
          (b.tail + j) % Capacity = IF pos + j < Capacity THEN pos + j ELSE pos + j - Capacity
    <3> SUFFICES ASSUME NEW j \in 0 .. Capacity - 1
                 PROVE  (b.tail + j) % Capacity = IF pos + j < Capacity THEN pos + j ELSE pos + j - Capacity
      BY Zenon
    <3>1. j \in 0 .. Capacity /\ b.tail \in Nat
      BY <2>0, CapacityType
    <3> QED BY <3>1, CapacityType, Wraps, Zenon
  <2> HIDE DEF pos
  <2>5. /\ Load(b.data, pos, total) \in Seq(Byte) /\ Len(Load(b.data, pos, total)) = total
        /\ \A i \in 1 .. total : Load(b.data, pos, total)[i] = b.data[pos + i - 1]
    <3>1. pos \in Nat
      BY <2>1
    <3> QED BY <2>0, <2>2, <3>1, LoadIs, Zenon
  <2>6. ASSUME NEW i \in 1 .. total PROVE b.data[pos + i - 1] = Slot(b, b.tail + i)
    <3>1. PICK j \in 0 .. Capacity - 1 : j = i - 1
      BY <2>1, <2>2, CapacityType
    <3>2. (b.tail + i) - 1 = b.tail + j
      BY <2>0, <3>1
    <3>3. (b.tail + j) % Capacity = pos + i - 1
      BY <2>1, <2>2, <2>4, <3>1, CapacityType
    <3> QED BY <3>2, <3>3, Zenon DEF Slot
  <2> QED BY <2>3, <2>5, <2>6, Zenon
<1>2. CASE ~(read_head(b) >= total)
  <2>1. FrameAt(b, total) = peek(b, total)
    BY <1>2, Zenon DEF FrameAt
  <2> QED BY <2>1, PeekIs, Zenon
<1> QED BY <1>1, <1>2, Zenon

\* The stream, n bytes further on.
LEMMA IncomingRest ==
  ASSUME NEW l, NEW f, NEW from \in Nat, NEW q \in Seq(Byte), NEW w \in Seq(Byte), NEW n \in 0 .. Len(q)
  PROVE  /\ Incoming(f, l, q \o w, from) => Incoming(f, l, SubSeq(q, n + 1, Len(q)) \o w, from + n)
         /\ Unended(f, l, q \o w, from) => Unended(f, l, SubSeq(q, n + 1, Len(q)) \o w, from + n)
<1> DEFINE c == q \o w
           s == SubSeq(q, n + 1, Len(q)) \o w
<1>1. Len(s) = Len(c) - n /\ \A k \in 1 .. Len(c) - n : s[k] = c[n + k]
  BY RestIs, Zenon
<1>2. Len(c) \in Nat /\ n \in Nat
  OBVIOUS
<1> HIDE DEF c, s
<1>3. ASSUME NEW k \in 1 .. Len(s)
      PROVE  /\ n + k \in 1 .. Len(c) /\ s[k] = c[n + k] /\ (from + n) + k = from + (n + k)
             /\ n + k = Len(c) => k = Len(s)
  BY <1>1, <1>2
<1>4. ASSUME Incoming(f, l, c, from) PROVE Incoming(f, l, s, from + n)
  BY <1>3, <1>4, Zenon DEF Incoming
<1>5. ASSUME Unended(f, l, c, from) PROVE Unended(f, l, s, from + n)
  <2>1. (from + n) + Len(s) = from + Len(c)
    BY <1>1, <1>2
  <2> QED BY <1>3, <1>5, <2>1, Zenon DEF Unended
<1> QED BY <1>4, <1>5, Zenon DEF c, s

\* The front of a stream.
LEMMA IncomingFront ==
  ASSUME NEW l, NEW f, NEW from, NEW q \in Seq(Byte), NEW w \in Seq(Byte), Incoming(f, l, q \o w, from)
  PROVE  Incoming(f, l, q, from)
<1> DEFINE c == q \o w
<1>1. /\ Len(c) = Len(q) + Len(w) /\ Len(q) \in Nat /\ Len(w) \in Nat
      /\ \A k \in 1 .. Len(q) : c[k] = q[k]
  OBVIOUS
<1> HIDE DEF c
<1>2. ASSUME NEW k \in 1 .. Len(q) PROVE k \in 1 .. Len(c) /\ (k = Len(c) => k = Len(q)) /\ c[k] = q[k]
  BY <1>1
<1>3. Incoming(f, l, c, from)
  BY Zenon DEF c
<1> QED BY <1>2, <1>3, Zenon DEF Incoming

\* The recv loop moves the front of the receive queue to the buffer.
LEMMA ReadsIs ==
  ASSUME NEW l, NEW f, IsBuffer(read_buf), BufferOK(f, l, read_buf),
         inq \in Seq(Byte), Incoming(f, l, inq, read_buf.head),
         NEW once, once = Recv(read_buf, DataBytes(inq)),
         NEW filled, filled = Recv(once, DataBytes(Left(once)))
  PROVE  /\ IsBuffer(filled) /\ BufferOK(f, l, filled) /\ filled.tail = read_buf.tail
         /\ \E n \in 0 .. Len(inq) :
              filled.head = read_buf.head + n /\ Left(filled) = SubSeq(inq, n + 1, Len(inq))
<1>0. read_buf.head \in Nat /\ Len(inq) \in Nat
  BY BufferFields
<1>1. /\ IsBuffer(once) /\ BufferOK(f, l, once) /\ once.tail = read_buf.tail
      /\ \E n \in 0 .. Len(inq) : once.head = read_buf.head + n
  BY RecvIs
<1>2. PICK n \in 0 .. Len(inq) : once.head = read_buf.head + n
  BY <1>1, Zenon
<1> DEFINE q == SubSeq(inq, n + 1, Len(inq))
<1>3. ASSUME NEW b, NEW m \in 0 .. Len(inq), b.head = read_buf.head + m
      PROVE  Left(b) = SubSeq(inq, m + 1, Len(inq))
  <2>1. b.head - read_buf.head + 1 = m + 1
    BY <1>0, <1>3
  <2> QED BY <2>1, Zenon DEF Left
<1>4. Left(once) = q
  BY <1>2, <1>3, Zenon
<1>5. q \in Seq(Byte) /\ Len(q) = Len(inq) - n
  BY <1>0
<1>6. Incoming(f, l, q, once.head)
  <2>1. <<>> \in Seq(Byte) /\ inq \o <<>> = inq /\ q \o <<>> = q
    BY <1>5
  <2> QED BY <2>1, <1>0, <1>2, IncomingRest, Zenon
<1> HIDE DEF q
<1>7. /\ IsBuffer(filled) /\ BufferOK(f, l, filled) /\ filled.tail = once.tail
      /\ \E k \in 0 .. Len(q) : filled.head = once.head + k
  BY <1>1, <1>4, <1>5, <1>6, RecvIs
<1>8. PICK k \in 0 .. Len(q) : filled.head = once.head + k
  BY <1>7, Zenon
<1>9. n + k \in 0 .. Len(inq) /\ filled.head = read_buf.head + (n + k)
  BY <1>0, <1>2, <1>5, <1>8
<1>10. Left(filled) = SubSeq(inq, (n + k) + 1, Len(inq))
  BY <1>3, <1>9, Zenon
<1> QED BY <1>1, <1>7, <1>9, <1>10, Zenon

-----------------------------------------------------------------------------
(***************************************************************************)
(* Every step keeps what is known of the way of the requests               *)
(***************************************************************************)

\* The marks of the end of a stream are no bytes of a message.
LEMMA MarksDiffer ==
  /\ Fin \in Byte /\ Rst \in Byte /\ Fin # Rst
  /\ \A f, l, x, p : IsByte(f, l, x, p) => x # Rst
<1>1. Fin \in Byte /\ Rst \in Byte /\ Fin # Rst
  BY DEF Byte, Fin, Rst
<1>2. ASSUME NEW f, NEW l, NEW x, NEW p, IsByte(f, l, x, p), x = Rst PROVE FALSE
  <2>1. PICK n \in 1 .. Len(l) : \E i \in 1 .. l[n] : x = <<n, i>> /\ p = f[n] + i
    BY <1>2, Zenon DEF IsByte
  <2>2. PICK i : x = <<n, i>>
    BY <2>1, Zenon
  <2>3. n = 0
    BY <1>2, <2>2 DEF Rst
  <2> QED BY <2>3
<1> QED BY <1>1, <1>2, Zenon

\* An unended stream is a stream.
LEMMA UnendedIncoming ==
  ASSUME NEW f, NEW l, NEW q, NEW from, Unended(f, l, q, from)
  PROVE  Incoming(f, l, q, from)
  BY Zenon DEF Unended, Incoming

\* What was routed stays what the client sent when more is sent.
LEMMA RoutedStay ==
  ASSUME FramesIntact, ReadTypeOK, ReadTypeOK', routed' = routed, Len(requests) <= Len(requests'),
         \A n \in 1 .. Len(requests) : requests'[n] = requests[n]
  PROVE  FramesIntact'
<1>1. /\ Len(routed) \in Nat /\ Len(requests) \in Nat /\ Len(requests') \in Nat
      /\ Len(routed) <= Len(requests)
  BY DEF FramesIntact, ReadTypeOK
<1>2. Len(routed) <= Len(requests')
  BY <1>1
<1>3. ASSUME NEW j \in 1 .. Len(routed) PROVE routed[j] = FrameBytes(j)'
  <2>1. j \in 1 .. Len(requests)
    BY <1>1
  <2>2. requests'[j] = requests[j] /\ routed[j] = FrameBytes(j)
    BY <2>1, Zenon DEF FramesIntact
  <2> QED BY <2>2, Zenon DEF FrameBytes
<1> QED BY <1>2, <1>3, Zenon DEF FramesIntact

\* A step that sends no request and routes none.
LEMMA ReadSame ==
  ASSUME ReadInv, ReadTypeOK', requests' = requests, routed' = routed,
         NEW f, Offsets(f, FrameLens), ReadOK(f), read_buf'.tail = read_buf.tail,
         BufferOK(f, FrameLens, read_buf'), NetOK(f)'
  PROVE  ReadInv'
<1>1. FrameLens' = FrameLens
  BY Zenon DEF FrameLens
<1>2. FramesIntact'
  BY Zenon DEF ReadInv, FramesIntact, FrameBytes
<1>3. (Offsets(f, FrameLens) /\ ReadOK(f))'
  BY <1>1, Zenon DEF ReadOK
<1> QED BY <1>2, <1>3, Zenon DEF ReadInv

\* A step that does not touch the way of the requests.
LEMMA ReadUnchanged ==
  ASSUME ReadInv, UNCHANGED <<requests, peer, wire, inq, read_buf, routed>>
  PROVE  ReadInv'
<1>0. /\ requests' = requests /\ peer' = peer /\ wire' = wire /\ inq' = inq
      /\ read_buf' = read_buf /\ routed' = routed
  BY Zenon
<1>1. PICK f : Offsets(f, FrameLens) /\ ReadOK(f)
  BY Zenon DEF ReadInv
<1>2. FrameLens' = FrameLens
  BY <1>0, Zenon DEF FrameLens
<1>3. ReadTypeOK'
  BY <1>0, Zenon DEF ReadInv, ReadTypeOK
<1>4. NetOK(f)' /\ BufferOK(f, FrameLens, read_buf')
  BY <1>0, <1>1, <1>2, Zenon DEF ReadOK, NetOK
<1> QED BY <1>0, <1>1, <1>3, <1>4, ReadSame, Zenon

\* A connection begins with nothing sent.
LEMMA InitReadInv == Init => ReadInv
<1> SUFFICES ASSUME Init PROVE ReadInv
  BY Zenon
<1> DEFINE f == [n \in 1 .. 1 |-> 0]
<1>1. /\ requests = <<>> /\ peer = "open" /\ wire = <<>> /\ inq = <<>> /\ routed = <<>>
      /\ read_buf = Empty(Capacity, Fin)
  BY Zenon DEF Init
<1>2. /\ read_buf.data \in [0 .. Capacity - 1 -> Byte] /\ read_buf.capacity = Capacity
      /\ read_buf.head = 0 /\ read_buf.tail = 0 /\ read_buf \in BufferType
  BY <1>1, MarksDiffer, Zenon DEF Empty, BufferType
<1>3. ReadTypeOK
  BY <1>1, <1>2, CapacityType DEF ReadTypeOK, IsBuffer
<1>4. FramesIntact
  BY <1>1 DEF FramesIntact
<1>5. FrameLens \in Seq(Nat) /\ Len(FrameLens) = 0
  <2>1. requests \in Seq(Kinds) /\ Len(requests) = 0
    BY <1>1
  <2> QED BY <2>1, LensType, Zenon DEF FrameLens
<1>6. Offsets(f, FrameLens)
  BY <1>5 DEF Offsets
<1>7. Len(routed) = 0 /\ Len(requests) = 0 /\ Len(inq \o wire) = 0
  BY <1>1
<1>8. BufferOK(f, FrameLens, read_buf)
  BY <1>2 DEF BufferOK
<1>9. Unended(f, FrameLens, inq \o wire, read_buf.head)
  BY <1>2, <1>5, <1>7 DEF Unended
<1>10. NetOK(f)
  <2>1. Incoming(f, FrameLens, inq \o wire, read_buf.head) /\ peer # "reset"
    BY <1>1, <1>9, UnendedIncoming, Zenon
  <2> QED BY <1>9, <2>1, Zenon DEF NetOK
<1>11. ReadOK(f)
  <2>1. Len(routed) <= Len(requests) /\ read_buf.tail = f[Len(routed) + 1]
    BY <1>2, <1>7
  <2> QED BY <1>8, <1>10, <2>1, Zenon DEF ReadOK
<1> QED BY <1>3, <1>4, <1>6, <1>11, Zenon DEF ReadInv

\* The client sends a further request.
LEMMA SendRequestReadInv ==
  ASSUME ReadInv, NEW k \in Kinds, SendRequest(k)
  PROVE  ReadInv'
<1> DEFINE l == FrameLens
           m == [i \in 1 .. k.size |-> <<Len(requests'), i>>]
<1>0. /\ peer = "open" /\ peer' = peer /\ requests' = Append(requests, k) /\ wire' = wire \o m
      /\ inq' = inq /\ read_buf' = read_buf /\ routed' = routed
  BY Zenon DEF SendRequest, worker
<1>1. ReadTypeOK /\ FramesIntact
  BY Zenon DEF ReadInv
<1>2. /\ requests \in Seq(Kinds) /\ wire \in Seq(Byte) /\ inq \in Seq(Byte) /\ IsBuffer(read_buf)
      /\ routed \in Seq(Seq(Byte)) /\ read_buf.head \in Nat
  BY <1>1, BufferFields, Zenon DEF ReadTypeOK
<1>3. PICK f : Offsets(f, l) /\ ReadOK(f)
  BY Zenon DEF ReadInv
<1>4. l \in Seq(Nat) /\ Len(l) = Len(requests) /\ Len(l) \in Nat
  <2>1. l \in Seq(Nat) /\ Len(l) = Len(requests)
    BY <1>2, LensType, Zenon DEF FrameLens
  <2> QED BY <2>1
<1>5. /\ FrameLens' = Append(l, k.size) /\ requests' \in Seq(Kinds) /\ k.size \in Nat
      /\ Len(requests') = Len(requests) + 1 /\ \A n \in 1 .. Len(requests) : requests'[n] = requests[n]
  BY <1>0, <1>2, LensGrow, Zenon DEF FrameLens
<1>6. PICK g : /\ Offsets(g, Append(l, k.size))
               /\ \A n \in 1 .. Len(l) + 1 : g[n] = f[n]
               /\ g[Len(l) + 2] = f[Len(l) + 1] + k.size
  <2> HIDE DEF l
  <2>1. l \in Seq(Nat) /\ k.size \in Nat /\ Offsets(f, l)
    BY <1>3, <1>4, <1>5, Zenon
  <2> QED BY <2>1, OneMore, Zenon
<1>7. m \in Seq(Byte) /\ Len(m) = k.size /\ \A i \in 1 .. k.size : m[i] = <<Len(l) + 1, i>>
  <2>1. Len(requests') = Len(l) + 1 /\ Len(l) + 1 \in Nat
    BY <1>4, <1>5
  <2>2. m \in [1 .. k.size -> Byte]
    BY <2>1, <1>5 DEF Byte
  <2>3. m \in Seq(Byte) /\ Len(m) = k.size
    BY <2>2, <1>5, BytesIs, Zenon
  <2> QED BY <2>1, <2>3, Zenon
<1> HIDE DEF l, m
<1>8. Unended(f, l, inq \o wire, read_buf.head)
  BY <1>0, <1>3, Zenon DEF ReadOK, NetOK, l
<1>9. inq \o wire \in Seq(Byte) /\ wire' \in Seq(Byte) /\ (inq \o wire) \o m = inq' \o wire'
  <2>1. inq \o wire \in Seq(Byte) /\ wire \o m \in Seq(Byte)
    BY <1>2, <1>7
  <2>2. (inq \o wire) \o m = inq \o (wire \o m)
    BY <1>2, <1>7, BytesAssociative, Zenon
  <2> QED BY <1>0, <2>1, <2>2, Zenon
<1>10. Unended(g, FrameLens', inq' \o wire', read_buf'.head)
  <2>1. Unended(g, Append(l, k.size), (inq \o wire) \o m, read_buf.head)
    BY <1>2, <1>3, <1>4, <1>5, <1>6, <1>7, <1>8, <1>9, UnendedGrows, Zenon
  <2> QED BY <1>0, <1>5, <1>9, <2>1, Zenon
<1>11. NetOK(g)'
  <2>1. peer' = "open" /\ peer' # "reset"
    BY <1>0, Zenon
  <2>2. Incoming(g, FrameLens', inq' \o wire', read_buf'.head)
    BY <1>10, UnendedIncoming, Zenon
  <2> QED BY <1>10, <2>1, <2>2, Zenon DEF NetOK
<1>12. BufferOK(g, FrameLens', read_buf')
  <2>1. \A x, p : IsByte(f, l, x, p) => IsByte(g, Append(l, k.size), x, p)
    BY <1>3, <1>4, <1>5, <1>6, BytesStay, Zenon
  <2>2. BufferOK(f, l, read_buf)
    BY <1>3, Zenon DEF ReadOK, l
  <2> QED BY <1>0, <1>5, <2>1, <2>2, Zenon DEF BufferOK
<1>13. Len(routed') <= Len(requests') /\ read_buf'.tail = g[Len(routed') + 1]
  <2>1. Len(routed) <= Len(requests) /\ read_buf.tail = f[Len(routed) + 1]
    BY <1>3, Zenon DEF ReadOK
  <2>2. Len(routed) \in Nat
    BY <1>2
  <2>3. Len(routed) + 1 \in 1 .. Len(l) + 1 /\ Len(routed) <= Len(requests')
    BY <1>4, <1>5, <2>1, <2>2
  <2> QED BY <1>0, <1>6, <2>1, <2>3, Zenon
<1>14. ReadTypeOK'
  BY <1>0, <1>1, <1>5, <1>9, Zenon DEF ReadTypeOK
<1>15. FramesIntact'
  <2>1. Len(requests) <= Len(requests')
    BY <1>4, <1>5
  <2> QED BY <1>0, <1>1, <1>5, <1>14, <2>1, RoutedStay, Zenon
<1>16. (Offsets(g, FrameLens) /\ ReadOK(g))'
  BY <1>5, <1>6, <1>11, <1>12, <1>13, Zenon DEF ReadOK
<1> QED BY <1>14, <1>15, <1>16, Zenon DEF ReadInv

\* The client ends the stream.
LEMMA ShutdownReadInv ==
  ASSUME ReadInv, Shutdown
  PROVE  ReadInv'
<1> DEFINE c == inq \o wire
<1>0. /\ peer = "open" /\ peer' = "shut" /\ wire' = Append(wire, Fin) /\ requests' = requests
      /\ inq' = inq /\ read_buf' = read_buf /\ routed' = routed
  BY Zenon DEF Shutdown, worker
<1>1. ReadTypeOK /\ wire \in Seq(Byte) /\ inq \in Seq(Byte)
  BY Zenon DEF ReadInv, ReadTypeOK
<1>2. PICK f : Offsets(f, FrameLens) /\ ReadOK(f)
  BY Zenon DEF ReadInv
<1>3. FrameLens' = FrameLens
  BY <1>0, Zenon DEF FrameLens
<1>4. Unended(f, FrameLens, c, read_buf.head)
  BY <1>0, <1>2, Zenon DEF ReadOK, NetOK
<1>5. wire' \in Seq(Byte) /\ inq' \o wire' = Append(c, Fin) /\ c \in Seq(Byte)
  <2>1. wire' \in Seq(Byte) /\ c \in Seq(Byte) /\ inq \o wire' \in Seq(Byte) /\ Append(c, Fin) \in Seq(Byte)
    BY <1>0, <1>1, MarksDiffer
  <2>2. inq \o Append(wire, Fin) = Append(inq \o wire, Fin)
    BY <1>1, MarksDiffer
  <2> QED BY <1>0, <2>1, <2>2, Zenon
<1>6. ReadTypeOK'
  <2>1. peer' \in {"open", "shut", "reset"}
    BY <1>0, Zenon
  <2> QED BY <1>0, <1>1, <1>5, <2>1, Zenon DEF ReadTypeOK
<1> HIDE DEF c
<1>7. ASSUME NEW i \in 1 .. Len(Append(c, Fin))
      PROVE  \/ i \in 1 .. Len(c) /\ Append(c, Fin)[i] = c[i]
             \/ i = Len(Append(c, Fin)) /\ Append(c, Fin)[i] = Fin
  BY <1>5
<1>8. Incoming(f, FrameLens, Append(c, Fin), read_buf.head)
  BY <1>4, <1>7, Zenon DEF Unended, Incoming
<1>9. NetOK(f)'
  <2>1. peer' # "reset" /\ peer' # "open"
    BY <1>0, Zenon
  <2> QED BY <1>0, <1>3, <1>5, <1>8, <2>1, Zenon DEF NetOK
<1>10. BufferOK(f, FrameLens, read_buf')
  BY <1>0, <1>2, Zenon DEF ReadOK
<1> QED BY <1>0, <1>2, <1>6, <1>9, <1>10, ReadSame, Zenon

\* The client dies or the network fails.
LEMMA ResetReadInv ==
  ASSUME ReadInv, Reset
  PROVE  ReadInv'
<1>0. /\ peer # "reset" /\ peer' = "reset" /\ wire' = <<Rst>> /\ requests' = requests
      /\ inq' = inq /\ read_buf' = read_buf /\ routed' = routed
  BY Zenon DEF Reset, worker
<1>1. ReadTypeOK /\ wire \in Seq(Byte) /\ inq \in Seq(Byte)
  BY Zenon DEF ReadInv, ReadTypeOK
<1>2. PICK f : Offsets(f, FrameLens) /\ ReadOK(f)
  BY Zenon DEF ReadInv
<1>3. FrameLens' = FrameLens
  BY <1>0, Zenon DEF FrameLens
<1>4. Incoming(f, FrameLens, inq, read_buf.head)
  <2>1. Incoming(f, FrameLens, inq \o wire, read_buf.head)
    BY <1>0, <1>2, Zenon DEF ReadOK, NetOK
  <2> QED BY <1>1, <2>1, IncomingFront, Zenon
<1>5. ReadTypeOK'
  <2>1. peer' \in {"open", "shut", "reset"} /\ wire' \in Seq(Byte)
    BY <1>0, MarksDiffer
  <2> QED BY <1>0, <1>1, <2>1, Zenon DEF ReadTypeOK
<1>6. NetOK(f)'
  BY <1>0, <1>3, <1>4, Zenon DEF NetOK
<1>7. BufferOK(f, FrameLens, read_buf')
  BY <1>0, <1>2, Zenon DEF ReadOK
<1> QED BY <1>0, <1>2, <1>5, <1>6, <1>7, ReadSame, Zenon

\* The network delivers some of its bytes, or the reset.
LEMMA DeliverReadInv ==
  ASSUME ReadInv, NEW n \in 1 .. Len(wire), Deliver(n)
  PROVE  ReadInv'
<1>0. /\ wire' = SubSeq(wire, n + 1, Len(wire)) /\ peer' = peer /\ requests' = requests
      /\ inq' = (IF wire[1] = Rst THEN <<Rst>> ELSE inq \o SubSeq(wire, 1, n))
      /\ read_buf' = read_buf /\ routed' = routed
  BY Zenon DEF Deliver, worker
<1>1. ReadTypeOK /\ wire \in Seq(Byte) /\ inq \in Seq(Byte)
  BY Zenon DEF ReadInv, ReadTypeOK
<1>2. PICK f : Offsets(f, FrameLens) /\ ReadOK(f)
  BY Zenon DEF ReadInv
<1>3. FrameLens' = FrameLens
  BY <1>0, Zenon DEF FrameLens
<1>4. BufferOK(f, FrameLens, read_buf')
  BY <1>0, <1>2, Zenon DEF ReadOK
<1>5. SubSeq(wire, 1, n) \in Seq(Byte) /\ SubSeq(wire, n + 1, Len(wire)) \in Seq(Byte) /\ Len(wire) \in Nat
  BY <1>1
<1>6. <<Rst>> \in Seq(Byte) /\ inq \o SubSeq(wire, 1, n) \in Seq(Byte)
  BY <1>1, <1>5, MarksDiffer
<1>7. ReadTypeOK'
  BY <1>0, <1>1, <1>5, <1>6, Zenon DEF ReadTypeOK
<1>8. CASE peer = "reset" /\ wire = <<Rst>>
  <2>1. wire[1] = Rst /\ Len(wire) = 1 /\ n = 1
    BY <1>8
  <2>2. wire' = <<>>
    BY <1>0, <1>5, <2>1
  <2>3. NetOK(f)'
    BY <1>0, <1>8, <2>1, <2>2, Zenon DEF NetOK
  <2> QED BY <1>0, <1>2, <1>4, <1>7, <2>3, ReadSame, Zenon
<1>9. CASE /\ peer # "reset" /\ Incoming(f, FrameLens, inq \o wire, read_buf.head)
           /\ peer = "open" => Unended(f, FrameLens, inq \o wire, read_buf.head)
  <2> DEFINE c == inq \o wire
             i == Len(inq) + 1
  <2>1. i \in 1 .. Len(c) /\ c[i] = wire[1]
    BY <1>1
  <2> HIDE DEF c, i
  <2>2. Incoming(f, FrameLens, c, read_buf.head)
    BY <1>9, Zenon DEF c
  <2>3. wire[1] # Rst
    BY <2>1, <2>2, MarksDiffer, Zenon DEF Incoming
  <2>4. inq' \o wire' = inq \o wire
    <3>1. SubSeq(wire, 1, n) \o SubSeq(wire, n + 1, Len(wire)) = wire
      BY <1>1, <1>5
    <3>2. (inq \o SubSeq(wire, 1, n)) \o SubSeq(wire, n + 1, Len(wire))
            = inq \o (SubSeq(wire, 1, n) \o SubSeq(wire, n + 1, Len(wire)))
      BY <1>1, <1>5, BytesAssociative, Zenon
    <3> QED BY <1>0, <2>3, <3>1, <3>2, Zenon
  <2>5. NetOK(f)'
    BY <1>0, <1>3, <1>9, <2>4, Zenon DEF NetOK
  <2> QED BY <1>0, <1>2, <1>4, <1>7, <2>5, ReadSame, Zenon
<1>10. wire # <<>>
  BY <1>1
<1> QED BY <1>2, <1>8, <1>9, <1>10, Zenon DEF ReadOK, NetOK

\* The worker receives, to the end of the queue or of the room in read_buf.
LEMMA HandleReadInv ==
  ASSUME ReadInv, handle_read
  PROVE  ReadInv'
<1>0. /\ inq # <<>> /\ inq[1] # Rst
      /\ \E once \in {Recv(read_buf, DataBytes(inq))} :
           \E filled \in {Recv(once, DataBytes(Left(once)))} :
             \/ close_connection
             \/ /\ read_buf' = filled /\ inq' = Left(filled)
                /\ UNCHANGED <<requests, peer, wire, is_open, write_buf, epollout, routed, outq, received>>
  BY Zenon DEF handle_read
<1>1. PICK once, filled :
        /\ once = Recv(read_buf, DataBytes(inq)) /\ filled = Recv(once, DataBytes(Left(once)))
        /\ \/ close_connection
           \/ /\ read_buf' = filled /\ inq' = Left(filled)
              /\ requests' = requests /\ peer' = peer /\ wire' = wire /\ routed' = routed
  BY <1>0, Zenon
<1>2. CASE close_connection
  BY <1>2, ReadUnchanged, Zenon DEF close_connection
<1>3. CASE /\ read_buf' = filled /\ inq' = Left(filled)
           /\ requests' = requests /\ peer' = peer /\ wire' = wire /\ routed' = routed
  <2>1. ReadTypeOK /\ wire \in Seq(Byte) /\ inq \in Seq(Byte) /\ IsBuffer(read_buf)
    BY Zenon DEF ReadInv, ReadTypeOK
  <2>2. PICK f : Offsets(f, FrameLens) /\ ReadOK(f)
    BY Zenon DEF ReadInv
  <2>3. FrameLens' = FrameLens
    BY <1>3, Zenon DEF FrameLens
  <2>4. BufferOK(f, FrameLens, read_buf) /\ NetOK(f)
    BY <2>2, Zenon DEF ReadOK
  <2>5. inq # <<Rst>>
    BY <1>0
  <2>6. Incoming(f, FrameLens, inq, read_buf.head)
    BY <2>1, <2>4, <2>5, IncomingFront, Zenon DEF NetOK
  <2> HIDE DEF FrameLens
  <2>7. /\ IsBuffer(filled) /\ BufferOK(f, FrameLens, filled) /\ filled.tail = read_buf.tail
        /\ \E n \in 0 .. Len(inq) :
             filled.head = read_buf.head + n /\ Left(filled) = SubSeq(inq, n + 1, Len(inq))
    BY <1>1, <2>1, <2>4, <2>6, ReadsIs, Zenon
  <2>8. PICK n \in 0 .. Len(inq) :
          filled.head = read_buf.head + n /\ Left(filled) = SubSeq(inq, n + 1, Len(inq))
    BY <2>7, Zenon
  <2>9. read_buf.head \in Nat /\ <<>> \in Seq(Byte)
    BY <2>1, BufferFields
  <2>10. inq' \in Seq(Byte) /\ inq' \o <<>> = inq' /\ inq \o <<>> = inq
    <3>1. SubSeq(inq, n + 1, Len(inq)) \in Seq(Byte)
      BY <2>1, <2>9, RestIs, Zenon
    <3>2. inq' \in Seq(Byte)
      BY <1>3, <2>8, <3>1, Zenon
    <3> QED BY <2>1, <3>2
  <2>11. ASSUME NEW w \in Seq(Byte)
         PROVE  /\ Incoming(f, FrameLens, inq \o w, read_buf.head) => Incoming(f, FrameLens, inq' \o w, read_buf'.head)
                /\ Unended(f, FrameLens, inq \o w, read_buf.head) => Unended(f, FrameLens, inq' \o w, read_buf'.head)
    <3>1. inq' = SubSeq(inq, n + 1, Len(inq)) /\ read_buf'.head = read_buf.head + n
      BY <1>3, <2>8, Zenon
    <3>2. /\ Incoming(f, FrameLens, inq \o w, read_buf.head)
               => Incoming(f, FrameLens, SubSeq(inq, n + 1, Len(inq)) \o w, read_buf.head + n)
          /\ Unended(f, FrameLens, inq \o w, read_buf.head)
               => Unended(f, FrameLens, SubSeq(inq, n + 1, Len(inq)) \o w, read_buf.head + n)
      BY <2>1, <2>9, IncomingRest, Zenon
    <3> QED BY <3>1, <3>2, Zenon
  <2>12. ReadTypeOK'
    BY <1>3, <2>1, <2>7, <2>10, Zenon DEF ReadTypeOK
  <2>13. Incoming(f, FrameLens, inq', read_buf'.head)
    BY <2>6, <2>9, <2>10, <2>11, Zenon
  <2>14. NetOK(f)'
    BY <1>3, <2>1, <2>3, <2>4, <2>5, <2>11, <2>13, Zenon DEF NetOK
  <2> QED BY <1>3, <2>2, <2>7, <2>12, <2>14, ReadSame, Zenon
<1> QED BY <1>1, <1>2, <1>3, Zenon

\* The frame process_frames finds complete is the next request.
LEMMA NextFrame ==
  ASSUME ReadInv, Complete, NEW n, n = Len(routed) + 1
  PROVE  /\ n \in 1 .. Len(requests) /\ Total = requests[n].size /\ Total \in 0 .. size(read_buf)
         /\ FrameAt(read_buf, Total) = FrameBytes(n) /\ FrameAt(read_buf, Total)[1][1] = n
<1> DEFINE l == FrameLens
           b == read_buf
<1>1. /\ requests \in Seq(Kinds) /\ IsBuffer(b) /\ routed \in Seq(Seq(Byte))
  BY Zenon DEF ReadInv, ReadTypeOK
<1>2. PICK f : Offsets(f, l) /\ ReadOK(f)
  BY Zenon DEF ReadInv
<1>3. Len(routed) <= Len(requests) /\ b.tail = f[n] /\ BufferOK(f, l, b)
  BY <1>2, Zenon DEF ReadOK
<1>4. /\ l \in Seq(Nat) /\ Len(l) = Len(requests)
      /\ \A i \in 1 .. Len(requests) : l[i] = requests[i].size /\ requests[i].size \in Nat /\ requests[i].size > Header
  BY <1>1, LensType, Zenon DEF FrameLens
<1>5. b.tail \in Nat /\ b.head \in Nat /\ size(b) = b.head - b.tail /\ b.tail <= b.head
  BY <1>1, BufferFields, Zenon
<1>6. Header \in Nat /\ Header >= 1 /\ size(b) >= Header /\ size(b) >= Total
  BY ConnectionAssumption DEF Complete, HasHeader
<1> HIDE DEF l, b
<1>7. \A p \in b.tail + 1 .. b.head : IsByte(f, l, Slot(b, p), p)
  BY <1>3, Zenon DEF BufferOK
<1>8. IsByte(f, l, Slot(b, b.tail + 1), b.tail + 1)
  <2>1. b.tail + 1 \in b.tail + 1 .. b.head
    BY <1>5, <1>6
  <2> QED BY <1>7, <2>1, Zenon
<1>9. n \in 1 .. Len(requests) /\ n \in 1 .. Len(l)
  <2>1. b.tail + 1 \in 1 .. f[Len(l) + 1]
    BY <1>2, <1>4, <1>8, ByteBound, Zenon DEF l
  <2>2. Len(l) + 1 \in 1 .. Len(l) + 1 /\ Len(l) \in Nat
    BY <1>4
  <2>3. f[Len(l) + 1] \in Nat
    BY <1>2, <2>2, Zenon DEF Offsets, l
  <2>4. b.tail # f[Len(l) + 1]
    BY <1>5, <2>1, <2>3
  <2>5. n # Len(l) + 1
    BY <1>3, <2>4, Zenon
  <2>6. Len(routed) \in Nat
    BY <1>1
  <2> QED BY <1>3, <1>4, <2>2, <2>5, <2>6
<1>10. l[n] = requests[n].size /\ requests[n].size \in Nat /\ requests[n].size > Header
  BY <1>4, <1>9, Zenon
<1>11. ASSUME NEW i \in 1 .. requests[n].size, b.tail + i <= b.head
       PROVE  Slot(b, b.tail + i) = <<n, i>>
  <2>1. b.tail + i \in b.tail + 1 .. b.head
    BY <1>5, <1>10, <1>11
  <2>2. IsByte(f, l, Slot(b, b.tail + i), f[n] + i)
    BY <1>3, <1>7, <2>1, Zenon
  <2>3. i \in 1 .. l[n] /\ Offsets(f, l)
    BY <1>2, <1>10, Zenon DEF l
  <2> QED BY <1>4, <1>9, <2>2, <2>3, ByteAt, Zenon
<1>12. Slot(b, b.tail + 1) = <<n, 1>>
  <2>1. 1 \in 1 .. requests[n].size /\ b.tail + 1 <= b.head
    BY <1>5, <1>6, <1>10
  <2> QED BY <1>11, <2>1, Zenon
<1>13. Total = requests[n].size
  <2> DEFINE hdr == peek(b, Header)
  <2>1. Header \in 0 .. size(b) /\ 1 \in 1 .. Header
    BY <1>5, <1>6
  <2>2. hdr[1] = Slot(b, b.tail + 1)
    BY <1>1, <2>1, PeekIs, Zenon DEF b
  <2> HIDE DEF hdr
  <2>3. hdr[1][1] = n
    BY <1>12, <2>2
  <2>4. Total = Header + (requests[n].size - Header)
    BY <2>3, Zenon DEF Total, FrameSize, hdr, b
  <2> QED BY <1>6, <1>10, <2>4
<1>14. Total \in 0 .. size(b) /\ Total \in Nat
  BY <1>5, <1>6, <1>10, <1>13
<1> DEFINE frame == FrameAt(b, Total)
<1>15. /\ frame \in Seq(Byte) /\ Len(frame) = Total
       /\ \A i \in 1 .. Total : frame[i] = Slot(b, b.tail + i)
  BY <1>1, <1>14, FrameIs, Zenon DEF b
<1> HIDE DEF frame
<1>16. ASSUME NEW i \in 1 .. Total PROVE frame[i] = <<n, i>>
  <2>1. i \in 1 .. requests[n].size /\ b.tail + i <= b.head
    BY <1>5, <1>13, <1>14
  <2> QED BY <1>11, <1>15, <2>1, Zenon
<1>17. frame = FrameBytes(n)
  <2>1. DOMAIN frame = 1 .. Total /\ frame = [i \in DOMAIN frame |-> frame[i]]
    BY <1>14, <1>15
  <2>2. FrameBytes(n) = [i \in 1 .. Total |-> <<n, i>>]
    BY <1>13, Zenon DEF FrameBytes
  <2> QED BY <1>16, <2>1, <2>2, Zenon
<1>18. frame[1][1] = n
  <2>1. 1 \in 1 .. Total
    BY <1>6, <1>10, <1>13
  <2>2. frame[1] = <<n, 1>>
    BY <1>16, <2>1, Zenon
  <2> QED BY <2>2
<1> QED BY <1>9, <1>13, <1>14, <1>17, <1>18, Zenon DEF frame, b

\* A frame is routed.
LEMMA ProcessFrameReadInv ==
  ASSUME ReadInv, process_frame
  PROVE  ReadInv'
<1> DEFINE n == Len(routed) + 1
           frame == FrameAt(read_buf, Total)
<1>0. /\ Complete /\ routed' = Append(routed, frame) /\ read_buf' = advance_tail(read_buf, Total)
      /\ requests' = requests /\ peer' = peer /\ wire' = wire /\ inq' = inq
  BY Zenon DEF process_frame
<1>1. /\ ReadTypeOK /\ FramesIntact /\ requests \in Seq(Kinds) /\ IsBuffer(read_buf)
      /\ routed \in Seq(Seq(Byte))
  BY Zenon DEF ReadInv, ReadTypeOK
<1>2. /\ n \in 1 .. Len(requests) /\ Total = requests[n].size /\ Total \in 0 .. size(read_buf)
      /\ frame = FrameBytes(n) /\ frame \in Seq(Byte)
  BY <1>0, <1>1, NextFrame, FrameIs, Zenon
<1>3. PICK f : Offsets(f, FrameLens) /\ ReadOK(f)
  BY Zenon DEF ReadInv
<1>4. FrameLens' = FrameLens
  BY <1>0, Zenon DEF FrameLens
<1> HIDE DEF frame, n
<1>6. /\ Len(routed) \in Nat /\ Len(routed') = n /\ routed' \in Seq(Seq(Byte)) /\ routed'[n] = frame
      /\ \A j \in 1 .. n : j = n \/ (j \in 1 .. Len(routed) /\ routed'[j] = routed[j])
  BY <1>0, <1>1, <1>2 DEF n
<1>7. /\ IsBuffer(read_buf') /\ read_buf'.tail = read_buf.tail + Total /\ read_buf'.head = read_buf.head
      /\ \A p : Slot(read_buf', p) = Slot(read_buf, p)
      /\ \A p \in read_buf'.tail + 1 .. read_buf'.head : p \in read_buf.tail + 1 .. read_buf.head
  BY <1>0, <1>1, <1>2, AdvanceIs, Zenon
<1>10. ReadTypeOK'
  BY <1>0, <1>1, <1>6, <1>7, Zenon DEF ReadTypeOK
<1>11. FramesIntact'
  <2>1. n <= Len(requests)
    BY <1>2
  <2>2. ASSUME NEW j \in 1 .. n PROVE routed'[j] = FrameBytes(j)'
    <3>1. FrameBytes(j)' = FrameBytes(j)
      BY <1>0, Zenon DEF FrameBytes
    <3> QED BY <1>1, <1>2, <1>6, <3>1, Zenon DEF FramesIntact
  <2> QED BY <1>0, <1>6, <2>1, <2>2, Zenon DEF FramesIntact
<1>12. BufferOK(f, FrameLens, read_buf')
  BY <1>3, <1>7, Zenon DEF BufferOK, ReadOK
<1>13. Len(routed') <= Len(requests') /\ read_buf'.tail = f[Len(routed') + 1]
  <2>1. Len(FrameLens) = Len(requests) /\ FrameLens[n] = Total
    BY <1>1, <1>2, LensType, Zenon DEF FrameLens
  <2>2. f[n + 1] = f[n] + Total
    BY <1>2, <1>3, <2>1, Zenon DEF Offsets
  <2>3. read_buf.tail = f[n]
    BY <1>3, Zenon DEF ReadOK, n
  <2>4. n <= Len(requests)
    BY <1>2
  <2> QED BY <1>0, <1>6, <1>7, <2>2, <2>3, <2>4, Zenon
<1>14. NetOK(f)'
  BY <1>0, <1>3, <1>4, <1>7, Zenon DEF ReadOK, NetOK
<1>15. (Offsets(f, FrameLens) /\ ReadOK(f))'
  BY <1>3, <1>4, <1>12, <1>13, <1>14, Zenon DEF ReadOK
<1> QED BY <1>10, <1>11, <1>15, Zenon DEF ReadInv

\* Every step keeps the invariant of the reading side.
LEMMA NextReadInv == ReadInv /\ [Next]_vars => ReadInv'
<1> SUFFICES ASSUME ReadInv, [Next]_vars PROVE ReadInv'
  BY Zenon
<1>1. ASSUME NEW k \in Kinds, SendRequest(k) PROVE ReadInv'
  BY <1>1, SendRequestReadInv, Zenon
<1>2. CASE Shutdown
  BY <1>2, ShutdownReadInv, Zenon
<1>3. CASE Reset
  BY <1>3, ResetReadInv, Zenon
<1>4. CASE ReceiveResponse
  BY <1>4, ReadUnchanged, Zenon DEF ReceiveResponse, worker
<1>5. ASSUME NEW n \in 1 .. Len(wire), Deliver(n) PROVE ReadInv'
  BY <1>5, DeliverReadInv, Zenon
<1>6. CASE handle_read
  BY <1>6, HandleReadInv, Zenon
<1>7. CASE process_frame
  BY <1>7, ProcessFrameReadInv, Zenon
<1>8. CASE frame_too_large
  BY <1>8, ReadUnchanged, Zenon DEF frame_too_large, close_connection
<1>9. CASE frames_done
  BY <1>9, ReadUnchanged, Zenon DEF frames_done
<1>10. CASE handle_write
  BY <1>10, ReadUnchanged, Zenon DEF handle_write
<1>11. CASE socket_error
  BY <1>11, ReadUnchanged, Zenon DEF socket_error, close_connection
<1>12. CASE UNCHANGED vars
  BY <1>12, ReadUnchanged, Zenon DEF vars, worker
<1> QED BY <1>1, <1>2, <1>3, <1>4, <1>5, <1>6, <1>7, <1>8, <1>9, <1>10, <1>11, <1>12, Zenon
        DEF Next, Client, Network, Worker

\* For buffers, prefixes and frames of any size and any cuts of the stream:
\* process_frames routes exactly the requests the client sent, each one whole,
\* once and in order.
THEOREM FramesCorrect == Spec => []FramesIntact
<1>1. ReadInv => FramesIntact
  BY Zenon DEF ReadInv
<1> QED BY <1>1, InitReadInv, NextReadInv, PTL DEF Spec

-----------------------------------------------------------------------------
(***************************************************************************)
(* Writing                                                                 *)
(***************************************************************************)

\* A step that does not touch the way of the responses.
LEMMA WriteUnchanged ==
  ASSUME NEW R, WriteInv(R), UNCHANGED <<requests, received, outq, write_buf, is_open, routed>>
  PROVE  WriteInv(R)'
<1>0. /\ requests' = requests /\ received' = received /\ outq' = outq /\ write_buf' = write_buf
      /\ is_open' = is_open /\ routed' = routed
  BY Zenon
<1>1. Outstanding' = Outstanding /\ RespLens' = RespLens
  BY <1>0, Zenon DEF Outstanding, Answered, RespLens
<1>2. PICK g : Offsets(g, RespLens) /\ Counted(g, RespLens, R) /\ WriteOK(g)
  BY Zenon DEF WriteInv
<1>3. WriteOK(g)'
  BY <1>0, <1>1, <1>2 DEF WriteOK
<1>4. WriteTypeOK'
  BY <1>0, Zenon DEF WriteInv, WriteTypeOK
<1> QED BY <1>1, <1>2, <1>3, <1>4, Zenon DEF WriteInv

\* A closed connection may lose what its socket holds.
LEMMA CloseWriteInv ==
  ASSUME NEW R, ReadInv, WriteInv(R), close_connection
  PROVE  WriteInv(R)'
<1>0. /\ requests' = requests /\ received' = received /\ write_buf' = write_buf
      /\ is_open' = FALSE /\ routed' = routed /\ (outq' = outq \/ outq' = <<>>)
  BY Zenon DEF close_connection
<1>1. Outstanding' = Outstanding /\ RespLens' = RespLens
  BY <1>0, Zenon DEF Outstanding, Answered, RespLens
<1>2. PICK g : Offsets(g, RespLens) /\ Counted(g, RespLens, R) /\ WriteOK(g)
  BY Zenon DEF WriteInv
<1>3. WriteTypeOK /\ outq \in Seq(Byte) /\ received \in Seq(Byte)
  BY Zenon DEF WriteInv, WriteTypeOK
<1>4. outq' \in Seq(Byte) /\ (outq' = outq \/ Len(outq') = 0) /\ Len(outq) \in Nat
  <2>1. <<>> \in Seq(Byte) /\ Len(<<>>) = 0 /\ Len(outq) \in Nat
    BY <1>3
  <2> QED BY <1>0, <1>3, <2>1, Zenon
<1>5. InStream(g, RespLens, outq', Len(received))
  <2>1. CASE outq' = outq
    BY <1>2, <2>1, Zenon DEF WriteOK
  <2>2. CASE Len(outq') = 0
    BY <2>2 DEF InStream
  <2> QED BY <1>4, <2>1, <2>2, Zenon
<1>6. Len(received) + Len(outq') <= g[Len(routed) + 1]
  <2>1. CASE outq' = outq
    BY <1>2, <2>1, Zenon DEF WriteOK
  <2>2. CASE Len(outq') = 0
    <3>1. Len(received) + Len(outq) <= g[Len(routed) + 1] /\ Len(received) \in Nat
      BY <1>2, <1>3 DEF WriteOK
    <3>2. g[Len(routed) + 1] \in Nat
      <4>1. Len(RespLens) = Len(requests) /\ Len(routed) <= Len(requests) /\ routed \in Seq(Seq(Byte))
        BY LensType, Zenon DEF ReadInv, ReadTypeOK, FramesIntact, RespLens
      <4>2. Len(routed) + 1 \in 1 .. Len(RespLens) + 1
        BY <4>1
      <4> QED BY <1>2, <4>2, Zenon DEF Offsets
    <3> QED BY <1>4, <2>2, <3>1, <3>2
  <2> QED BY <1>4, <2>1, <2>2, Zenon
<1>7. WriteOK(g)'
  BY <1>0, <1>1, <1>2, <1>5, <1>6, Zenon DEF WriteOK
<1>8. WriteTypeOK'
  <2>1. is_open' \in BOOLEAN
    BY <1>0, Zenon
  <2> QED BY <1>0, <1>3, <1>4, <2>1, Zenon DEF WriteTypeOK
<1> QED BY <1>1, <1>2, <1>7, <1>8, Zenon DEF WriteInv

\* The outstanding requests are finitely many.
LEMMA OutstandingFinite ==
  ASSUME requests \in Seq(Kinds)
  PROVE  IsFiniteSet(Outstanding) /\ Cardinality(Outstanding) \in Nat
<1>1. Outstanding \in SUBSET (1 .. Len(requests))
  BY Zenon DEF Outstanding
<1>2. 1 \in Int /\ Len(requests) \in Int
  OBVIOUS
<1>3. IsFiniteSet(1 .. Len(requests))
  BY <1>2, FS_Interval, Zenon
<1>4. IsFiniteSet(Outstanding)
  BY <1>1, <1>3, FS_Subset, Zenon
<1> QED BY <1>4, FS_CardinalityType, Zenon

\* The client sends a further request, within its limit.
LEMMA SendRequestWriteInv ==
  ASSUME NEW R \in Nat, ReadInv, WriteInv(R), NEW k \in Kinds, k.resp <= R, SendRequest(k)
  PROVE  WriteInv(R)'
<1> DEFINE l == RespLens
<1>0. /\ requests' = Append(requests, k) /\ received' = received /\ outq' = outq
      /\ write_buf' = write_buf /\ is_open' = is_open /\ routed' = routed
      /\ Cardinality(Outstanding) < MaxOutstanding
  BY Zenon DEF SendRequest, worker
<1>1. requests \in Seq(Kinds) /\ routed \in Seq(Seq(Byte)) /\ Len(routed) <= Len(requests)
  BY Zenon DEF ReadInv, ReadTypeOK, FramesIntact
<1>2. PICK f : Offsets(f, l) /\ Counted(f, l, R) /\ WriteOK(f)
  BY Zenon DEF WriteInv
<1>3. l \in Seq(Nat) /\ Len(l) = Len(requests)
  BY <1>1, LensType, Zenon DEF RespLens
<1>4. /\ RespLens' = Append(l, k.resp) /\ k.resp \in Nat
      /\ Len(requests') = Len(requests) + 1 /\ \A n \in 1 .. Len(requests) : requests'[n] = requests[n]
  BY <1>0, <1>1, LensGrow, Zenon DEF RespLens
<1> HIDE DEF l
<1>5. Offsets(f, l) /\ Counted(f, l, R) /\ WriteOK(f)
  BY <1>2, Zenon DEF l
<1>6. PICK g : /\ Offsets(g, Append(l, k.resp))
               /\ \A n \in 1 .. Len(l) + 1 : g[n] = f[n]
               /\ g[Len(l) + 2] = f[Len(l) + 1] + k.resp
  <2>1. l \in Seq(Nat) /\ k.resp \in Nat /\ Offsets(f, l)
    BY <1>3, <1>4, <1>5, Zenon
  <2> QED BY <2>1, OneMore, Zenon
<1>7. Counted(g, Append(l, k.resp), R)
  BY <1>3, <1>4, <1>5, <1>6, CountGrows, Zenon
<1>8. \A x, p : IsByte(f, l, x, p) => IsByte(g, Append(l, k.resp), x, p)
  BY <1>3, <1>4, <1>5, <1>6, BytesStay, Zenon
<1>9. /\ InStream(g, RespLens', received, 0) /\ InStream(g, RespLens', outq, Len(received))
      /\ is_open => BufferOK(g, RespLens', write_buf)
  <2>1. /\ InStream(f, l, received, 0) /\ InStream(f, l, outq, Len(received))
        /\ is_open => BufferOK(f, l, write_buf)
    BY <1>5, Zenon DEF WriteOK, l
  <2> QED BY <1>4, <1>8, <2>1, Zenon DEF InStream, BufferOK
<1>10. g[Len(routed) + 1] = f[Len(routed) + 1]
  <2>1. Len(routed) + 1 \in 1 .. Len(l) + 1
    BY <1>1, <1>3
  <2> QED BY <1>6, <2>1, Zenon
<1>11. WriteOK(g)'
  BY <1>0, <1>5, <1>9, <1>10, Zenon DEF WriteOK
<1>12. WriteTypeOK'
  BY <1>0, Zenon DEF WriteInv, WriteTypeOK
<1>13. Cardinality(Outstanding') <= MaxOutstanding
  <2> DEFINE x == Len(requests) + 1
  <2>1. IsFiniteSet(Outstanding) /\ Cardinality(Outstanding) \in Nat
    BY <1>1, OutstandingFinite, Zenon
  <2>2. \A n \in 1 .. Len(requests') : n \in 1 .. Len(requests) \/ n = x
    BY <1>1, <1>4
  <2>3. \A n \in 1 .. Len(requests) : Answered(n)' <=> Answered(n)
    BY <1>0, <1>4, Zenon DEF Answered
  <2>4. Outstanding' \in SUBSET (Outstanding \cup {x})
    BY <2>2, <2>3, Zenon DEF Outstanding
  <2>5. /\ IsFiniteSet(Outstanding \cup {x})
        /\ Cardinality(Outstanding \cup {x}) = IF x \in Outstanding THEN Cardinality(Outstanding) ELSE Cardinality(Outstanding) + 1
    BY <2>1, FS_AddElement, Zenon
  <2>6. IsFiniteSet(Outstanding') /\ Cardinality(Outstanding') <= Cardinality(Outstanding \cup {x})
    BY <2>4, <2>5, FS_Subset, Zenon
  <2>7. Cardinality(Outstanding') \in Nat
    BY <2>6, FS_CardinalityType, Zenon
  <2> DEFINE c == Cardinality(Outstanding)
             d == Cardinality(Outstanding \cup {x})
             e == Cardinality(Outstanding')
  <2>8. /\ c \in Nat /\ e \in Nat /\ c < MaxOutstanding /\ MaxOutstanding \in Nat /\ e <= d
        /\ d = c \/ d = c + 1
    BY <1>0, <2>1, <2>5, <2>6, <2>7, ConnectionAssumption, Zenon
  <2> HIDE DEF c, d, e
  <2>9. e <= MaxOutstanding
    BY <2>8
  <2> QED BY <2>9, Zenon DEF e
<1> QED BY <1>4, <1>6, <1>7, <1>11, <1>12, <1>13, Zenon DEF WriteInv

\* Two parts of the stream make one.
LEMMA Joined ==
  ASSUME NEW f, NEW l, NEW from \in Nat, NEW q \in Seq(Byte), NEW w \in Seq(Byte),
         InStream(f, l, q, from), NEW to, to = from + Len(q), InStream(f, l, w, to)
  PROVE  InStream(f, l, q \o w, from)
<1> DEFINE c == q \o w
<1>1. /\ c \in Seq(Byte) /\ Len(c) = Len(q) + Len(w) /\ Len(q) \in Nat /\ Len(w) \in Nat
      /\ \A k \in 1 .. Len(q) : c[k] = q[k]
  OBVIOUS
<1>2. \A k \in 1 .. Len(w) : c[Len(q) + k] = w[k]
  OBVIOUS
<1> HIDE DEF c
<1>3. ASSUME NEW j \in 1 .. Len(c) PROVE IsByte(f, l, c[j], from + j)
  <2>1. CASE j <= Len(q)
    <3>1. j \in 1 .. Len(q)
      BY <1>1, <2>1
    <3> QED BY <1>1, <3>1, Zenon DEF InStream
  <2>2. CASE j > Len(q)
    <3>1. PICK k \in 1 .. Len(w) : j = Len(q) + k
      <4>1. j - Len(q) \in 1 .. Len(w) /\ j = Len(q) + (j - Len(q))
        BY <1>1, <2>2
      <4> QED BY <4>1, Zenon
    <3>2. from + j = (from + Len(q)) + k
      BY <1>1, <3>1
    <3> QED BY <1>2, <3>1, <3>2, Zenon DEF InStream
  <2> QED BY <1>1, <2>1, <2>2
<1> QED BY <1>3, Zenon DEF InStream, c

\* The client takes what its socket holds.
LEMMA ReceiveResponseWriteInv ==
  ASSUME NEW R, ReadInv, WriteInv(R), ReceiveResponse
  PROVE  WriteInv(R)'
<1>0. /\ received' = received \o outq /\ outq' = <<>> /\ requests' = requests
      /\ write_buf' = write_buf /\ is_open' = is_open /\ routed' = routed
  BY Zenon DEF ReceiveResponse, worker
<1>1. requests \in Seq(Kinds) /\ received \in Seq(Byte) /\ outq \in Seq(Byte)
  BY Zenon DEF ReadInv, ReadTypeOK, WriteInv, WriteTypeOK
<1>2. PICK g : Offsets(g, RespLens) /\ Counted(g, RespLens, R) /\ WriteOK(g)
  BY Zenon DEF WriteInv
<1>3. RespLens' = RespLens
  BY <1>0, Zenon DEF RespLens
<1>4. /\ received' \in Seq(Byte) /\ Len(received') = Len(received) + Len(outq)
      /\ InStream(g, RespLens, received', 0)
      /\ \A j \in 1 .. Len(received) : received'[j] = received[j] /\ j \in 1 .. Len(received')
  <2>1. 0 \in Nat /\ 0 + Len(received) = Len(received)
    BY <1>1
  <2>2. InStream(g, RespLens, received, 0) /\ InStream(g, RespLens, outq, Len(received))
    BY <1>2, Zenon DEF WriteOK
  <2>3. InStream(g, RespLens, received \o outq, 0)
    BY <1>1, <2>1, <2>2, Joined, Zenon
  <2>4. /\ received \o outq \in Seq(Byte) /\ Len(received \o outq) = Len(received) + Len(outq)
        /\ \A j \in 1 .. Len(received) : (received \o outq)[j] = received[j] /\ j \in 1 .. Len(received \o outq)
    BY <1>1
  <2> QED BY <1>0, <2>3, <2>4, Zenon
<1>5. Len(received') + Len(outq') = Len(received) + Len(outq) /\ outq' \in Seq(Byte) /\ Len(outq') = 0
  BY <1>0, <1>1, <1>4
<1>6. InStream(g, RespLens, outq', Len(received'))
  BY <1>5 DEF InStream
<1>7. WriteOK(g)'
  BY <1>0, <1>2, <1>3, <1>4, <1>5, <1>6, Zenon DEF WriteOK
<1>8. WriteTypeOK'
  BY <1>0, <1>4, <1>5, Zenon DEF WriteInv, WriteTypeOK
<1>9. Cardinality(Outstanding') <= MaxOutstanding
  <2>1. IsFiniteSet(Outstanding) /\ Cardinality(Outstanding) \in Nat
    BY <1>1, OutstandingFinite, Zenon
  <2>2. \A n \in 1 .. Len(requests) : Answered(n) => Answered(n)'
    BY <1>0, <1>4, Zenon DEF Answered
  <2>3. Outstanding' \in SUBSET Outstanding
    BY <1>0, <2>2, Zenon DEF Outstanding
  <2>4. IsFiniteSet(Outstanding') /\ Cardinality(Outstanding') <= Cardinality(Outstanding)
    BY <2>1, <2>3, FS_Subset, Zenon
  <2>5. Cardinality(Outstanding') \in Nat
    BY <2>4, FS_CardinalityType, Zenon
  <2>6. Cardinality(Outstanding) <= MaxOutstanding /\ MaxOutstanding \in Nat
    BY ConnectionAssumption, Zenon DEF WriteInv
  <2> QED BY <2>1, <2>4, <2>5, <2>6
<1> QED BY <1>2, <1>3, <1>7, <1>8, <1>9, Zenon DEF WriteInv

\* One send moves bytes of the stream from the buffer to the socket.
LEMMA SendIs ==
  ASSUME NEW g, NEW l, NEW b, IsBuffer(b), BufferOK(g, l, b), NEW base \in Nat,
         NEW q \in Seq(Byte), Len(q) <= SocketRoom, InStream(g, l, q, base), b.tail = base + Len(q)
  PROVE  LET n == Sendable(b, q)
             w == q \o peek(b, n)
             c == advance_tail(b, n)
         IN  /\ IsBuffer(c) /\ BufferOK(g, l, c) /\ c.head = b.head
             /\ w \in Seq(Byte) /\ Len(w) <= SocketRoom /\ InStream(g, l, w, base) /\ c.tail = base + Len(w)
<1> DEFINE n == Sendable(b, q)
           w == q \o peek(b, n)
           c == advance_tail(b, n)
<1>1. /\ b.capacity = Capacity /\ b.head \in Nat /\ b.tail \in Nat /\ size(b) \in 0 .. Capacity
      /\ size(b) = b.head - b.tail
  BY BufferFields, Zenon
<1>2. Len(q) \in Nat /\ SocketRoom \in Nat
  BY ConnectionAssumption
<1>3. n \in 0 .. size(b) /\ n <= SocketRoom - Len(q)
  <2>1. b.tail % Capacity \in 0 .. Capacity - 1
    BY <1>1, CapacityType
  <2>2. read_head(b) \in 0 .. size(b)
    BY <1>1, <2>1, CapacityType DEF read_head, Smaller
  <2> QED BY <1>1, <1>2, <2>2 DEF Sendable, Smaller
<1> HIDE DEF n
<1>4. /\ IsBuffer(c) /\ c.tail = b.tail + n /\ c.head = b.head
      /\ \A p : Slot(c, p) = Slot(b, p)
      /\ \A p \in c.tail + 1 .. c.head : p \in b.tail + 1 .. b.head
  BY <1>3, AdvanceIs, Zenon
<1>5. BufferOK(g, l, c)
  BY <1>4, Zenon DEF BufferOK
<1> DEFINE r == peek(b, n)
<1>6. r \in Seq(Byte) /\ Len(r) = n /\ \A i \in 1 .. n : r[i] = Slot(b, b.tail + i)
  BY <1>3, PeekIs, Zenon
<1> HIDE DEF r
<1>7. InStream(g, l, r, base + Len(q))
  <2>1. ASSUME NEW i \in 1 .. n PROVE b.tail + i \in b.tail + 1 .. b.head
    BY <1>1, <1>3
  <2> QED BY <1>6, <2>1, Zenon DEF InStream, BufferOK
<1>8. w \in Seq(Byte) /\ Len(w) = Len(q) + n /\ InStream(g, l, w, base)
  <2>1. w = q \o r
    BY Zenon DEF r
  <2>2. r \in Seq(Byte) /\ InStream(g, l, r, base + Len(q))
    BY <1>6, <1>7, Zenon
  <2>3. InStream(g, l, q \o r, base)
    BY <2>2, Joined, Zenon
  <2>4. q \o r \in Seq(Byte) /\ Len(q \o r) = Len(q) + Len(r)
    BY <2>2
  <2> QED BY <1>6, <2>1, <2>3, <2>4, Zenon
<1> HIDE DEF w, c
<1>9. Len(w) <= SocketRoom /\ c.tail = base + Len(w)
  BY <1>1, <1>2, <1>3, <1>4, <1>8
<1> QED BY <1>4, <1>5, <1>8, <1>9, Zenon DEF n, w, c

\* The worker sends what the socket takes.
LEMMA HandleWriteInv ==
  ASSUME NEW R, WriteInv(R), handle_write
  PROVE  WriteInv(R)'
<1> DEFINE n1 == Sendable(write_buf, outq)
           q1 == outq \o peek(write_buf, n1)
           b1 == advance_tail(write_buf, n1)
           n2 == Sendable(b1, q1)
<1>0. /\ is_open /\ Len(outq) < SocketRoom
      /\ outq' = q1 \o peek(b1, n2) /\ write_buf' = advance_tail(b1, n2)
      /\ requests' = requests /\ received' = received /\ is_open' = is_open /\ routed' = routed
  BY Zenon DEF handle_write
<1>1. received \in Seq(Byte) /\ outq \in Seq(Byte) /\ IsBuffer(write_buf)
  BY Zenon DEF WriteInv, WriteTypeOK
<1>2. PICK g : Offsets(g, RespLens) /\ Counted(g, RespLens, R) /\ WriteOK(g)
  BY Zenon DEF WriteInv
<1>3. /\ InStream(g, RespLens, received, 0) /\ InStream(g, RespLens, outq, Len(received))
      /\ write_buf.head = g[Len(routed) + 1] /\ write_buf.tail = Len(received) + Len(outq)
      /\ BufferOK(g, RespLens, write_buf)
  BY <1>0, <1>2, Zenon DEF WriteOK
<1>4. Len(received) \in Nat /\ Len(outq) <= SocketRoom
  <2>1. Len(received) \in Nat /\ Len(outq) \in Nat /\ SocketRoom \in Nat
    BY <1>1, ConnectionAssumption
  <2> QED BY <1>0, <2>1
<1>5. Outstanding' = Outstanding /\ RespLens' = RespLens
  BY <1>0, Zenon DEF Outstanding, Answered, RespLens
<1> HIDE DEF n1, q1, b1, n2
<1>6. /\ IsBuffer(b1) /\ BufferOK(g, RespLens, b1) /\ b1.head = write_buf.head
      /\ q1 \in Seq(Byte) /\ Len(q1) <= SocketRoom /\ InStream(g, RespLens, q1, Len(received))
      /\ b1.tail = Len(received) + Len(q1)
  BY <1>1, <1>3, <1>4, SendIs DEF n1, q1, b1
<1>7. /\ IsBuffer(write_buf') /\ BufferOK(g, RespLens, write_buf') /\ write_buf'.head = b1.head
      /\ outq' \in Seq(Byte) /\ InStream(g, RespLens, outq', Len(received))
      /\ write_buf'.tail = Len(received) + Len(outq')
  <2>1. outq' = q1 \o peek(b1, Sendable(b1, q1)) /\ write_buf' = advance_tail(b1, Sendable(b1, q1))
    BY <1>0, Zenon DEF n2
  <2> QED BY <1>4, <1>6, <2>1, SendIs, SMTT(30)
<1>8. Len(received) + Len(outq') <= g[Len(routed) + 1]
  <2>1. write_buf'.tail <= write_buf'.head
    BY <1>7, BufferFields, Zenon
  <2> QED BY <1>3, <1>6, <1>7, <2>1, Zenon
<1>9. WriteOK(g)'
  BY <1>0, <1>3, <1>5, <1>6, <1>7, <1>8, Zenon DEF WriteOK
<1>10. WriteTypeOK'
  BY <1>0, <1>1, <1>7, Zenon DEF WriteInv, WriteTypeOK
<1> QED BY <1>2, <1>5, <1>9, <1>10, Zenon DEF WriteInv

\* The responses a client waits for, up to that of any request, fit write_buf.
LEMMA Room ==
  ASSUME NEW R \in Nat, R * MaxOutstanding <= Capacity,
         requests \in Seq(Kinds), received \in Seq(Byte), Cardinality(Outstanding) <= MaxOutstanding,
         NEW g, Offsets(g, RespLens), Counted(g, RespLens, R), InStream(g, RespLens, received, 0),
         NEW n \in 1 .. Len(requests)
  PROVE  g[n + 1] - Len(received) <= Capacity
<1> DEFINE l == RespLens
           x == Len(received)
           A == Ahead(g, l, x, n + 1)
<1>1. /\ l \in Seq(Nat) /\ Len(l) = Len(requests)
      /\ \A i \in 1 .. Len(requests) : l[i] = requests[i].resp /\ requests[i].resp \in Nat
  BY LensType, Zenon DEF RespLens
<1>2. n + 1 \in 1 .. Len(l) + 1 /\ x \in Nat /\ n + 1 \in Int /\ (n + 1) - 1 = n
  BY <1>1
<1>3. g[n + 1] - x <= R * Cardinality(A)
  BY <1>2, Zenon DEF Counted
<1>4. A \in SUBSET Outstanding
  <2> SUFFICES ASSUME NEW m \in A PROVE m \in Outstanding
    BY Zenon
  <2>1. m \in 1 .. n /\ l[m] > 0 /\ g[m + 1] > x
    BY <1>2, Zenon DEF Ahead
  <2>2. m \in 1 .. Len(requests)
    BY <2>1
  <2>3. ASSUME Answered(m) PROVE FALSE
    <3>1. l[m] \in 1 .. requests[m].resp
      BY <1>1, <2>1, <2>2
    <3>2. PICK j \in 1 .. Len(received) : received[j] = <<m, l[m]>>
      BY <2>3, <3>1, Zenon DEF Answered
    <3>3. IsByte(g, l, <<m, l[m]>>, 0 + j)
      BY <3>2, Zenon DEF InStream
    <3>4. PICK a \in 1 .. Len(l) : \E i \in 1 .. l[a] : <<m, l[m]>> = <<a, i>> /\ 0 + j = g[a] + i
      BY <3>3, Zenon DEF IsByte
    <3>5. PICK i \in 1 .. l[a] : <<m, l[m]>> = <<a, i>> /\ 0 + j = g[a] + i
      BY <3>4, Zenon
    <3>6. a = m /\ i = l[m]
      BY <3>5, Zenon
    <3>7. 0 + j = g[m] + l[m]
      BY <3>5, <3>6, Zenon
    <3>8. g[m + 1] = g[m] + l[m]
      BY <1>1, <2>2, Zenon DEF Offsets
    <3>9. g[m + 1] = 0 + j
      BY <3>7, <3>8, Zenon
    <3> QED BY <1>2, <2>1, <3>9
  <2> QED BY <2>2, <2>3, Zenon DEF Outstanding
<1> HIDE DEF l, x
<1>5. IsFiniteSet(A) /\ Cardinality(A) \in Nat
  BY <1>2, AheadFinite, Zenon
<1>6. IsFiniteSet(Outstanding) /\ Cardinality(Outstanding) \in Nat
  BY OutstandingFinite, Zenon
<1>7. Cardinality(A) <= Cardinality(Outstanding)
  BY <1>4, <1>6, FS_Subset, Zenon
<1> DEFINE c == Cardinality(A)
<1>8. c \in Nat /\ c <= MaxOutstanding /\ MaxOutstanding \in Nat
  BY <1>5, <1>6, <1>7, ConnectionAssumption
<1> HIDE DEF c
<1>9. R * c <= R * MaxOutstanding /\ R * c \in Nat /\ R * MaxOutstanding \in Nat
  BY <1>8, Products, Zenon
<1>10. PICK u \in Nat, v \in Nat : u = R * c /\ v = R * MaxOutstanding
  BY <1>9, Zenon
<1>11. g[n + 1] - x <= u /\ u <= v /\ v <= Capacity
  BY <1>3, <1>9, <1>10, Zenon DEF c
<1>12. g[n + 1] \in Nat
  BY <1>2, Zenon DEF Offsets, l
<1>13. g[n + 1] - x <= Capacity
  BY <1>2, <1>11, <1>12, CapacityType
<1> QED BY <1>13, Zenon DEF x

\* The response to a request is its part of the stream.
LEMMA ResponseIs ==
  ASSUME requests \in Seq(Kinds), NEW g, Offsets(g, RespLens), NEW n \in 1 .. Len(requests)
  PROVE  /\ ResponseBytes(n) \in Seq(Byte) /\ Len(ResponseBytes(n)) = requests[n].resp
         /\ requests[n].resp \in Nat /\ g[n] \in Nat /\ g[n + 1] = g[n] + requests[n].resp
         /\ InStream(g, RespLens, ResponseBytes(n), g[n])
         /\ \A i \in 1 .. requests[n].resp : ResponseBytes(n)[i] = <<n, i>>
<1> DEFINE l == RespLens
           k == requests[n].resp
           m == ResponseBytes(n)
<1>1. Len(l) = Len(requests) /\ l[n] = k /\ k \in Nat
  BY LensType, Zenon DEF RespLens
<1>2. m = [i \in 1 .. k |-> <<n, i>>]
  BY Zenon DEF ResponseBytes
<1> HIDE DEF l, k, m
<1>3. m \in [1 .. k -> Byte]
  BY <1>1, <1>2 DEF Byte
<1>4. m \in Seq(Byte) /\ Len(m) = k
  BY <1>1, <1>3, BytesIs, Zenon
<1>5. n \in 1 .. Len(l) /\ n \in 1 .. Len(l) + 1
  BY <1>1
<1>6. g[n] \in Nat /\ g[n + 1] = g[n] + k
  BY <1>1, <1>5, Zenon DEF Offsets, l
<1>7. ASSUME NEW i \in 1 .. k PROVE m[i] = <<n, i>> /\ IsByte(g, l, m[i], g[n] + i)
  BY <1>1, <1>2, <1>5, Zenon DEF IsByte
<1>8. InStream(g, l, m, g[n])
  BY <1>4, <1>7, Zenon DEF InStream
<1> QED BY <1>1, <1>4, <1>6, <1>7, <1>8, Zenon DEF l, k, m

\* A response is queued behind the others, and there is room for all of it.
LEMMA ProcessFrameWriteInv ==
  ASSUME NEW R \in Nat, R * MaxOutstanding <= Capacity, ReadInv, WriteInv(R), process_frame
  PROVE  WriteInv(R)'
<1> DEFINE n == Len(routed) + 1
           k == requests[n].resp
           m == ResponseBytes(n)
           frame == FrameAt(read_buf, Total)
<1>0. /\ Complete /\ is_open /\ routed' = Append(routed, frame)
      /\ IF requests[frame[1][1]].resp > 0
         THEN write_buf' = write(write_buf, ResponseBytes(frame[1][1]))
         ELSE write_buf' = write_buf
      /\ requests' = requests /\ outq' = outq /\ received' = received /\ is_open' = is_open
  BY Zenon DEF process_frame, queue_write
<1>1. /\ requests \in Seq(Kinds) /\ routed \in Seq(Seq(Byte)) /\ received \in Seq(Byte)
      /\ outq \in Seq(Byte) /\ IsBuffer(write_buf) /\ Cardinality(Outstanding) <= MaxOutstanding
  BY Zenon DEF ReadInv, ReadTypeOK, WriteInv, WriteTypeOK
<1>2. n \in 1 .. Len(requests) /\ frame[1][1] = n
  BY <1>0, NextFrame, Zenon
<1>3. PICK g : Offsets(g, RespLens) /\ Counted(g, RespLens, R) /\ WriteOK(g)
  BY Zenon DEF WriteInv
<1>4. /\ InStream(g, RespLens, received, 0) /\ InStream(g, RespLens, outq, Len(received))
      /\ Len(received) + Len(outq) <= g[n] /\ write_buf.head = g[n]
      /\ write_buf.tail = Len(received) + Len(outq) /\ BufferOK(g, RespLens, write_buf)
  BY <1>0, <1>3, Zenon DEF WriteOK
<1>5. /\ m \in Seq(Byte) /\ Len(m) = k /\ k \in Nat /\ g[n] \in Nat /\ g[n + 1] = g[n] + k
      /\ InStream(g, RespLens, m, g[n])
  BY <1>1, <1>2, <1>3, ResponseIs, Zenon
<1>6. g[n + 1] - Len(received) <= Capacity
  BY <1>1, <1>2, <1>3, <1>4, Room, Zenon
<1>7. IF k > 0 THEN write_buf' = write(write_buf, m) ELSE write_buf' = write_buf
  BY <1>0, <1>2, Zenon
<1>8. Len(routed') = n
  <2>1. \A x : Len(Append(routed, x)) = Len(routed) + 1
    BY <1>1
  <2> QED BY <1>0, <2>1, Zenon
<1>9. Outstanding' = Outstanding /\ RespLens' = RespLens
  BY <1>0, Zenon DEF Outstanding, Answered, RespLens
<1>10. Len(received) \in Nat /\ Len(outq) \in Nat
  BY <1>1
<1> HIDE DEF n, k, m, frame
<1>11. /\ IsBuffer(write_buf') /\ write_buf'.head = g[n + 1] /\ write_buf'.tail = write_buf.tail
       /\ BufferOK(g, RespLens, write_buf')
  <2>1. CASE k > 0
    <3>1. Len(m) <= free_space(write_buf)
      <4>1. free_space(write_buf) = Capacity - (write_buf.head - write_buf.tail)
        BY <1>1, BufferFields, Zenon
      <4> QED BY <1>4, <1>5, <1>6, <1>10, <4>1, CapacityType
    <3>2. write_buf' = write(write_buf, m)
      BY <1>7, <2>1, Zenon
    <3>3. /\ IsBuffer(write_buf') /\ write_buf'.head = write_buf.head + Len(m) /\ write_buf'.tail = write_buf.tail
          /\ \A p \in write_buf.tail + 1 .. write_buf.head : Slot(write_buf', p) = Slot(write_buf, p)
          /\ \A i \in 1 .. Len(m) : Slot(write_buf', write_buf.head + i) = m[i]
      BY <1>1, <1>5, <3>1, <3>2, WriteSlots, Zenon
    <3>4. write_buf.head \in Nat /\ write_buf.tail \in Nat /\ write_buf.tail <= write_buf.head
      BY <1>1, BufferFields, Zenon
    <3>5. ASSUME NEW p \in write_buf'.tail + 1 .. write_buf'.head PROVE IsByte(g, RespLens, Slot(write_buf', p), p)
      <4>1. CASE p <= write_buf.head
        <5>1. p \in write_buf.tail + 1 .. write_buf.head
          BY <3>3, <3>4, <4>1
        <5> QED BY <1>4, <3>3, <5>1, Zenon DEF BufferOK
      <4>2. CASE p > write_buf.head
        <5>1. PICK i \in 1 .. Len(m) : p = write_buf.head + i
          <6>1. p - write_buf.head \in 1 .. Len(m) /\ p = write_buf.head + (p - write_buf.head)
            BY <1>5, <3>3, <3>4, <4>2
          <6> QED BY <6>1, Zenon
        <5>2. IsByte(g, RespLens, m[i], g[n] + i)
          BY <1>5, Zenon DEF InStream
        <5> QED BY <1>4, <3>3, <5>1, <5>2, Zenon
      <4> QED BY <3>3, <3>4, <4>1, <4>2
    <3>6. write_buf'.head = g[n + 1]
      BY <1>4, <1>5, <3>3, Zenon
    <3> QED BY <3>3, <3>5, <3>6, Zenon DEF BufferOK
  <2>2. CASE ~(k > 0)
    <3>1. write_buf' = write_buf
      BY <1>7, <2>2, Zenon
    <3>2. g[n + 1] = g[n]
      BY <1>5, <2>2
    <3> QED BY <1>1, <1>4, <3>1, <3>2, Zenon
  <2> QED BY <2>1, <2>2, Zenon
<1>12. Len(received) + Len(outq) <= g[n + 1]
  BY <1>4, <1>5, <1>10
<1>13. WriteOK(g)'
  BY <1>0, <1>4, <1>8, <1>9, <1>11, <1>12, Zenon DEF WriteOK
<1>14. WriteTypeOK'
  BY <1>0, <1>1, <1>11, Zenon DEF WriteInv, WriteTypeOK
<1> QED BY <1>1, <1>3, <1>9, <1>13, <1>14, Zenon DEF WriteInv

\* A connection begins with nothing to answer.
LEMMA InitWriteInv ==
  ASSUME NEW R \in Nat, Init
  PROVE  WriteInv(R)
<1> DEFINE g == [n \in 1 .. 1 |-> 0]
<1>1. /\ requests = <<>> /\ received = <<>> /\ outq = <<>> /\ routed = <<>> /\ is_open = TRUE
      /\ write_buf = Empty(Capacity, Fin)
  BY Zenon DEF Init
<1>2. write_buf.head = 0 /\ write_buf.tail = 0 /\ write_buf \in BufferType
  BY <1>1, MarksDiffer, Zenon DEF Empty, BufferType
<1>3. WriteTypeOK
  BY <1>1, <1>2, CapacityType DEF WriteTypeOK, IsBuffer
<1>4. RespLens \in Seq(Nat) /\ Len(RespLens) = 0
  <2>1. requests \in Seq(Kinds) /\ Len(requests) = 0
    BY <1>1
  <2> QED BY <2>1, LensType, Zenon DEF RespLens
<1>5. Offsets(g, RespLens)
  BY <1>4 DEF Offsets
<1>6. Len(received) = 0 /\ Len(outq) = 0 /\ Len(routed) = 0 /\ Len(requests) = 0
  BY <1>1, Zenon
<1>7. WriteOK(g)
  <2>1. InStream(g, RespLens, received, 0) /\ InStream(g, RespLens, outq, Len(received))
    BY <1>6 DEF InStream
  <2>2. BufferOK(g, RespLens, write_buf)
    BY <1>2 DEF BufferOK
  <2>3. /\ Len(received) + Len(outq) <= g[Len(routed) + 1] /\ write_buf.head = g[Len(routed) + 1]
        /\ write_buf.tail = Len(received) + Len(outq)
    BY <1>2, <1>6
  <2> QED BY <2>1, <2>2, <2>3, Zenon DEF WriteOK
<1>8. Counted(g, RespLens, R)
  <2> SUFFICES ASSUME NEW x \in Nat, NEW b \in 1 .. Len(RespLens) + 1
               PROVE  g[b] - x <= R * Cardinality(Ahead(g, RespLens, x, b))
    BY Zenon DEF Counted
  <2>1. b = 1 /\ b \in Int
    BY <1>4
  <2>2. Cardinality(Ahead(g, RespLens, x, b)) \in Nat
    BY <2>1, AheadFinite, Zenon
  <2>3. R * Cardinality(Ahead(g, RespLens, x, b)) \in Nat
    BY <2>2, Products, Zenon
  <2>4. g[b] = 0
    BY <2>1
  <2> QED BY <2>3, <2>4
<1>9. Cardinality(Outstanding) <= MaxOutstanding
  <2>1. Outstanding = {}
    BY <1>6 DEF Outstanding
  <2>2. Cardinality(Outstanding) = 0
    BY <2>1, FS_EmptySet, Zenon
  <2> QED BY <2>2, ConnectionAssumption
<1> QED BY <1>3, <1>5, <1>7, <1>8, <1>9, Zenon DEF WriteInv

\* Every step keeps the invariant of the writing side.
LEMMA NextWriteInv ==
  ASSUME NEW R \in Nat, \A k \in Kinds : k.resp <= R, R * MaxOutstanding <= Capacity,
         ReadInv, WriteInv(R), [Next]_vars
  PROVE  WriteInv(R)'
<1>1. ASSUME NEW k \in Kinds, SendRequest(k) PROVE WriteInv(R)'
  BY <1>1, SendRequestWriteInv, Zenon
<1>2. CASE Shutdown
  BY <1>2, WriteUnchanged, Zenon DEF Shutdown, worker
<1>3. CASE Reset
  BY <1>3, WriteUnchanged, Zenon DEF Reset, worker
<1>4. CASE ReceiveResponse
  BY <1>4, ReceiveResponseWriteInv, Zenon
<1>5. ASSUME NEW n \in 1 .. Len(wire), Deliver(n) PROVE WriteInv(R)'
  BY <1>5, WriteUnchanged, Zenon DEF Deliver, worker
<1>6. CASE handle_read
  <2>1. \/ close_connection
        \/ UNCHANGED <<requests, peer, wire, is_open, write_buf, epollout, routed, outq, received>>
    BY <1>6, Zenon DEF handle_read
  <2>2. CASE close_connection
    BY <2>2, CloseWriteInv, Zenon
  <2>3. CASE UNCHANGED <<requests, peer, wire, is_open, write_buf, epollout, routed, outq, received>>
    BY <2>3, WriteUnchanged, Zenon
  <2> QED BY <2>1, <2>2, <2>3, Zenon
<1>7. CASE process_frame
  BY <1>7, ProcessFrameWriteInv, Zenon
<1>8. CASE frame_too_large
  BY <1>8, CloseWriteInv, Zenon DEF frame_too_large
<1>9. CASE frames_done
  BY <1>9, WriteUnchanged, Zenon DEF frames_done
<1>10. CASE handle_write
  BY <1>10, HandleWriteInv, Zenon
<1>11. CASE socket_error
  BY <1>11, CloseWriteInv, Zenon DEF socket_error
<1>12. CASE UNCHANGED vars
  BY <1>12, WriteUnchanged, Zenon DEF vars, worker
<1> QED BY <1>1, <1>2, <1>3, <1>4, <1>5, <1>6, <1>7, <1>8, <1>9, <1>10, <1>11, <1>12, Zenon
        DEF Next, Client, Network, Worker

-----------------------------------------------------------------------------
(***************************************************************************)
(* The responses                                                           *)
(***************************************************************************)

\* A nonempty set of natural numbers has a least element.
LEMMA LeastNumber ==
  ASSUME NEW T \in SUBSET Nat, T # {}
  PROVE  \E m \in T : \A k \in T : m <= k
<1> DEFINE R == OpToRel(<, Nat)
<1>1. IsWellFoundedOn(R, Nat)
  BY NatLessThanWellFounded, Zenon
<1>2. \A x, y \in Nat : x < y => <<x, y>> \in R
  BY Zenon DEF OpToRel
<1> HIDE DEF R
<1>3. PICK x \in T : \A y \in T : ~(<<y, x>> \in R)
  BY <1>1, WFMin, Zenon
<1>4. \A y \in T : ~(y < x)
  BY <1>3, <1>2, Zenon
<1> QED BY <1>4

\* Two parts of a stream of the same length, from its start on, are the same.
LEMMA SamePart ==
  ASSUME NEW l \in Seq(Nat), NEW g, Offsets(g, l), NEW q \in Seq(Byte), NEW w \in Seq(Byte),
         InStream(g, l, q, 0), InStream(g, l, w, 0), Len(q) = Len(w)
  PROVE  q = w
<1>1. ASSUME NEW k \in 1 .. Len(q) PROVE q[k] = w[k]
  <2>1. IsByte(g, l, q[k], 0 + k) /\ IsByte(g, l, w[k], 0 + k)
    BY Zenon DEF InStream
  <2> QED BY <2>1, SameByte, Zenon
<1> QED BY <1>1, SeqEqual, Zenon

\* h has the responses to the first n requests, for every n.
Recurrence(h) ==
  h = [n \in 0 .. Len(requests) |-> IF n = 0 THEN <<>> ELSE h[n - 1] \o ResponseBytes(n)]

\* q is the part of the stream in front of the n-th message's end.
Part(g, q, n) == q \in Seq(Byte) /\ Len(q) = g[n + 1] /\ InStream(g, RespLens, q, 0)

\* A response makes a part of the stream the next longer one.
LEMMA NextPart ==
  ASSUME requests \in Seq(Kinds), NEW g, Offsets(g, RespLens), NEW n \in 1 .. Len(requests),
         NEW q, Part(g, q, n - 1)
  PROVE  Part(g, q \o ResponseBytes(n), n)
<1> DEFINE m == ResponseBytes(n)
<1>1. /\ m \in Seq(Byte) /\ Len(m) = requests[n].resp /\ g[n] \in Nat
      /\ g[n + 1] = g[n] + requests[n].resp /\ InStream(g, RespLens, m, g[n])
  BY ResponseIs, Zenon
<1>2. (n - 1) + 1 = n
  OBVIOUS
<1>3. q \in Seq(Byte) /\ Len(q) = g[n] /\ InStream(g, RespLens, q, 0)
  BY <1>2, Zenon DEF Part
<1> HIDE DEF m
<1>4. q \o m \in Seq(Byte) /\ Len(q \o m) = Len(q) + Len(m) /\ Len(q) = 0 + Len(q) /\ 0 \in Nat
  <2>1. m \in Seq(Byte) /\ q \in Seq(Byte)
    BY <1>1, <1>3, Zenon
  <2> QED BY <2>1
<1>5. InStream(g, RespLens, q \o m, 0)
  BY <1>1, <1>3, <1>4, Joined, Zenon
<1>6. Part(g, q \o m, n)
  BY <1>1, <1>3, <1>4, <1>5, Zenon DEF Part
<1> QED BY <1>6, Zenon DEF m

\* The definition of Replies has a solution: the stream, cut after each response.
LEMMA RecurrenceExists ==
  ASSUME requests \in Seq(Kinds), NEW g, Offsets(g, RespLens)
  PROVE  \E h : Recurrence(h)
<1> DEFINE N == Len(requests)
           l == RespLens
           At(x) == CHOOSE y : IsByte(g, l, y, x)
           W == [n \in 0 .. N |-> [x \in 1 .. g[n + 1] |-> At(x)]]
<1>1. l \in Seq(Nat) /\ Len(l) = N /\ N \in Nat
  <2>1. N \in Nat
    OBVIOUS
  <2> QED BY <2>1, LensType, Zenon DEF RespLens
<1>2. ASSUME NEW x \in 1 .. g[N + 1] PROVE IsByte(g, l, At(x), x) /\ At(x) \in Byte
  <2>1. PICK n \in 1 .. Len(l) : \E i \in 1 .. l[n] : x = g[n] + i
    BY <1>1, Zenon DEF Offsets
  <2>2. PICK i \in 1 .. l[n] : x = g[n] + i
    BY <2>1, Zenon
  <2>3. IsByte(g, l, <<n, i>>, x)
    BY <2>2, Zenon DEF IsByte
  <2>4. IsByte(g, l, At(x), x)
    BY <2>3, Zenon
  <2>5. At(x) = <<n, i>>
    BY <1>1, <2>3, <2>4, SameByte, Zenon
  <2>6. n \in Nat /\ i \in Nat
    BY <1>1
  <2>7. <<n, i>> \in Byte
    BY <2>6, Zenon DEF Byte
  <2> QED BY <2>4, <2>5, <2>7, Zenon
<1> HIDE DEF At
<1>3. ASSUME NEW n \in 0 .. N PROVE Part(g, W[n], n)
  <2>1. g[n + 1] \in Nat /\ g[N + 1] \in Nat /\ g[n + 1] <= g[N + 1]
    <3>0. n + 1 \in 1 .. Len(l) + 1 /\ N + 1 \in 1 .. Len(l) + 1
      BY <1>1
    <3>1. g[n + 1] \in Nat /\ g[N + 1] \in Nat
      BY <3>0, Zenon DEF Offsets
    <3>2. CASE n < N
      <4>1. n + 1 \in 1 .. Len(l) /\ n + 1 < N + 1
        BY <1>1, <3>2
      <4>2. g[n + 1] + l[n + 1] <= g[N + 1]
        BY <3>0, <4>1, Zenon DEF Offsets
      <4>3. l[n + 1] \in Nat
        BY <1>1, <4>1
      <4> QED BY <3>1, <4>2, <4>3
    <3>3. CASE n = N
      BY <3>1, <3>3
    <3> QED BY <1>1, <3>1, <3>2, <3>3
  <2>2. \A x \in 1 .. g[n + 1] : x \in 1 .. g[N + 1]
    BY <2>1
  <2>3. W[n] = [x \in 1 .. g[n + 1] |-> At(x)]
    BY Zenon
  <2>4. W[n] \in [1 .. g[n + 1] -> Byte]
    BY <1>2, <2>2, <2>3, Zenon
  <2>5. W[n] \in Seq(Byte) /\ Len(W[n]) = g[n + 1]
    BY <2>1, <2>4, BytesIs, Zenon
  <2>6. ASSUME NEW x \in 1 .. Len(W[n]) PROVE IsByte(g, l, W[n][x], 0 + x)
    <3>1. 0 + x = x
      BY <2>5
    <3>2. W[n][x] = At(x) /\ IsByte(g, l, At(x), x)
      BY <1>2, <2>2, <2>3, <2>5, Zenon
    <3> QED BY <3>1, <3>2, Zenon
  <2> QED BY <2>5, <2>6, Zenon DEF Part, InStream
<1>4. ASSUME NEW n \in 0 .. N PROVE W[n] = IF n = 0 THEN <<>> ELSE W[n - 1] \o ResponseBytes(n)
  <2>1. CASE n = 0
    <3>1. g[n + 1] = 0
      BY <2>1 DEF Offsets
    <3>2. W[n] \in Seq(Byte) /\ Len(W[n]) = 0
      BY <1>3, <3>1, Zenon DEF Part
    <3>3. W[n] = <<>>
      BY <3>2, EmptySeq, Zenon
    <3> QED BY <2>1, <3>3, Zenon
  <2>2. CASE n # 0
    <3>1. n \in 1 .. Len(requests) /\ n - 1 \in 0 .. N
      BY <1>1, <2>2
    <3>2. Part(g, W[n - 1], n - 1) /\ Part(g, W[n], n)
      BY <1>3, <3>1, Zenon
    <3>3. Part(g, W[n - 1] \o ResponseBytes(n), n)
      BY <3>1, <3>2, NextPart, Zenon
    <3>4. W[n] = W[n - 1] \o ResponseBytes(n)
      BY <1>1, <3>2, <3>3, SamePart, Zenon DEF Part
    <3> QED BY <2>2, <3>4, Zenon
  <2> QED BY <2>1, <2>2, Zenon
<1>5. W = [n \in 0 .. N |-> W[n]]
  BY Zenon
<1> HIDE DEF W
<1>6. W = [n \in 0 .. N |-> IF n = 0 THEN <<>> ELSE W[n - 1] \o ResponseBytes(n)]
  BY <1>4, <1>5, Zenon
<1> QED BY <1>6, Zenon DEF Recurrence

\* Replies[n] is the stream up to the end of the n-th response.
LEMMA RepliesIs ==
  ASSUME requests \in Seq(Kinds), NEW g, Offsets(g, RespLens), NEW n \in 0 .. Len(requests)
  PROVE  Part(g, Replies[n], n)
<1> DEFINE N == Len(requests)
           T == {m \in 0 .. N : ~Part(g, Replies[m], m)}
<1>1. Replies = CHOOSE h : Recurrence(h)
  BY Zenon DEF Replies, Recurrence
<1>2. Recurrence(Replies)
  BY <1>1, RecurrenceExists, Zenon
<1>3. \A m \in 0 .. N : Replies[m] = IF m = 0 THEN <<>> ELSE Replies[m - 1] \o ResponseBytes(m)
  BY <1>2, Zenon DEF Recurrence
<1> SUFFICES ASSUME T # {} PROVE FALSE
  BY Zenon
<1>4. N \in Nat /\ T \in SUBSET Nat
  BY LenProperties
<1> HIDE DEF T
<1>5. PICK m \in T : \A k \in T : m <= k
  BY <1>4, LeastNumber, Zenon
<1>6. m \in 0 .. N /\ ~Part(g, Replies[m], m)
  BY <1>5, Zenon DEF T
<1>7. CASE m = 0
  <2>1. Replies[m] = <<>>
    BY <1>3, <1>6, <1>7, Zenon
  <2>2. g[m + 1] = 0
    BY <1>7 DEF Offsets
  <2>3. <<>> \in Seq(Byte) /\ Len(<<>>) = 0 /\ InStream(g, RespLens, <<>>, 0)
    BY DEF InStream
  <2> QED BY <1>6, <2>1, <2>2, <2>3, Zenon DEF Part
<1>8. CASE m # 0
  <2>1. m \in 1 .. Len(requests) /\ m - 1 \in 0 .. N /\ ~(m <= m - 1)
    BY <1>4, <1>6, <1>8
  <2>2. Part(g, Replies[m - 1], m - 1)
    BY <1>5, <2>1, Zenon DEF T
  <2>3. Part(g, Replies[m - 1] \o ResponseBytes(m), m)
    BY <2>1, <2>2, NextPart, Zenon
  <2> QED BY <1>3, <1>6, <1>8, <2>3, Zenon
<1> QED BY <1>7, <1>8, Zenon

\* The invariant says what RepliesWhole says.
LEMMA WholeReplies ==
  ASSUME NEW R, ReadInv, WriteInv(R)
  PROVE  RepliesWhole
<1> DEFINE n == Len(routed)
           promised == Replies[n]
           rest == peek(write_buf, size(write_buf))
           l == RespLens
<1>1. /\ requests \in Seq(Kinds) /\ routed \in Seq(Seq(Byte)) /\ received \in Seq(Byte)
      /\ outq \in Seq(Byte) /\ IsBuffer(write_buf) /\ Len(routed) <= Len(requests)
  BY Zenon DEF ReadInv, ReadTypeOK, FramesIntact, WriteInv, WriteTypeOK
<1>2. PICK g : Offsets(g, l) /\ WriteOK(g)
  BY Zenon DEF WriteInv
<1>3. n \in 0 .. Len(requests) /\ Len(received) \in Nat /\ Len(outq) \in Nat
  BY <1>1
<1>4. promised \in Seq(Byte) /\ Len(promised) = g[n + 1] /\ InStream(g, l, promised, 0)
  BY <1>1, <1>2, <1>3, RepliesIs, Zenon DEF Part
<1>5. l \in Seq(Nat)
  BY <1>1, LensType, Zenon DEF RespLens
<1>6. /\ InStream(g, l, received, 0) /\ InStream(g, l, outq, Len(received))
      /\ Len(received) + Len(outq) <= g[n + 1]
      /\ is_open => /\ write_buf.head = g[n + 1] /\ write_buf.tail = Len(received) + Len(outq)
                    /\ BufferOK(g, l, write_buf)
  BY <1>2, Zenon DEF WriteOK
<1> HIDE DEF n, promised, l
<1>7. ASSUME is_open PROVE received \o outq \o rest = promised
  <2>1. /\ rest \in Seq(Byte) /\ Len(rest) = size(write_buf)
        /\ \A i \in 1 .. size(write_buf) : rest[i] = Slot(write_buf, write_buf.tail + i)
        /\ write_buf.head \in Nat /\ write_buf.tail \in Nat
        /\ size(write_buf) = write_buf.head - write_buf.tail /\ size(write_buf) \in Nat
    <3>1. /\ write_buf.head \in Nat /\ write_buf.tail \in Nat /\ size(write_buf) \in Nat
          /\ size(write_buf) = write_buf.head - write_buf.tail
      BY <1>1, BufferFields DEF size
    <3>2. size(write_buf) \in 0 .. size(write_buf)
      BY <3>1
    <3> QED BY <1>1, <3>1, <3>2, PeekIs, Zenon
  <2> DEFINE c == received \o outq
  <2>2. c \in Seq(Byte) /\ Len(c) = Len(received) + Len(outq) /\ Len(received) = 0 + Len(received) /\ 0 \in Nat
    BY <1>1
  <2>3. InStream(g, l, c, 0)
    BY <1>1, <1>6, <2>2, Joined, Zenon
  <2> HIDE DEF c, rest
  <2>4. InStream(g, l, rest, Len(c))
    <3> SUFFICES ASSUME NEW k \in 1 .. Len(rest) PROVE IsByte(g, l, rest[k], Len(c) + k)
      BY Zenon DEF InStream
    <3>1. write_buf.tail + k \in write_buf.tail + 1 .. write_buf.head
      BY <2>1
    <3> QED BY <1>6, <1>7, <2>1, <2>2, <3>1, Zenon DEF BufferOK
  <2>5. c \o rest \in Seq(Byte) /\ Len(c \o rest) = Len(c) + Len(rest) /\ Len(c) = 0 + Len(c)
    BY <2>1, <2>2
  <2>6. InStream(g, l, c \o rest, 0)
    BY <2>1, <2>2, <2>3, <2>4, <2>5, Joined, Zenon
  <2>7. Len(c \o rest) = Len(promised)
    BY <1>3, <1>4, <1>6, <1>7, <2>1, <2>2, <2>5
  <2>8. c \o rest = promised
    BY <1>2, <1>4, <1>5, <2>5, <2>6, <2>7, SamePart, Zenon
  <2> QED BY <2>8, Zenon DEF c
<1>8. received = SubSeq(promised, 1, Len(received))
  <2> DEFINE w == SubSeq(promised, 1, Len(received))
  <2>1. Len(received) <= Len(promised) /\ Len(promised) \in Nat
    BY <1>3, <1>4, <1>6
  <2>2. /\ w \in Seq(Byte) /\ Len(w) = Len(received)
        /\ \A k \in 1 .. Len(received) : w[k] = promised[k] /\ k \in 1 .. Len(promised)
    BY <1>3, <1>4, <2>1
  <2> HIDE DEF w
  <2>3. InStream(g, l, w, 0)
    BY <1>4, <2>2, Zenon DEF InStream
  <2>4. received = w
    BY <1>1, <1>2, <1>5, <1>6, <2>2, <2>3, SamePart, Zenon
  <2> QED BY <2>4, Zenon DEF w
<1> QED BY <1>7, <1>8, Zenon DEF RepliesWhole, n, promised

\* To a client that never has more responses outstanding than write_buf holds -
\* none is longer than R bytes, and MaxOutstanding of that length fit -, queue_write
\* and handle_write give the responses of the routed requests in order, none cut
\* or repeated: what the client, its socket and write_buf have together.
THEOREM RepliesCorrect ==
  ASSUME NEW R \in Nat, \A k \in Kinds : k.resp <= R, R * MaxOutstanding <= Capacity
  PROVE  Spec => []RepliesWhole
<1>1. Init => ReadInv /\ WriteInv(R)
  BY InitReadInv, InitWriteInv, Zenon
<1>2. ReadInv /\ WriteInv(R) /\ [Next]_vars => ReadInv' /\ WriteInv(R)'
  BY NextReadInv, NextWriteInv, Zenon
<1>3. ReadInv /\ WriteInv(R) => RepliesWhole
  BY WholeReplies, Zenon
<1> QED BY <1>1, <1>2, <1>3, PTL DEF Spec

=============================================================================
