------------------------ MODULE WorkerHandoffProofs ------------------------
(***************************************************************************)
(* Proofs about WorkerHandoff, for any number of workers and descriptors,  *)
(* any capacity of the rings and any limit on what is popped at a time: an *)
(* accepted socket is always in exactly one place, and a worker registers  *)
(* it under a key that is not taken.                                       *)
(***************************************************************************)
EXTENDS WorkerHandoff, TLAPS

\* The types of the variables that sockets and workers are kept in.
TypeOK ==
  /\ acc \in [pc : {"start", "poll", "accept", "assign", "notify", "stop", "join", "done"},
              fd : Fd \cup {NoFd}, i : 0 .. N]
  /\ next_worker \in Worker
  /\ open \subseteq Fd
  /\ worker_running \in [Worker -> BOOLEAN]
  /\ worker \in [Worker -> [pc : {"off", "wait", "drain", "pop", "register", "erase", "exited"},
                            fds : Seq(Fd), fd : Fd \cup {NoFd}]]
  /\ ring \in [Worker -> Seq(Fd)]
  /\ connections \in [Worker -> SUBSET Fd]

\* A thread has descriptors of its own only where the code handles them.
HandsInv ==
  /\ acc.pc = "assign" => acc.fd \in Fd
  /\ \A w \in Worker : worker[w].pc = "register" <=> worker[w].fds # <<>>
  /\ \A w \in Worker : worker[w].pc = "erase" <=> worker[w].fd # NoFd

Ended(w) == worker[w].pc \in {"off", "exited"}

\* A worker whose flag is clear has no thread or is being joined; those the
\* acceptor has passed when it stops them have ended.
JoinInv ==
  /\ At("start") => \A w \in Worker : w >= acc.i => worker[w].pc = "off"
  /\ \A w \in Worker : worker_running[w] \/ Ended(w) \/ (At("join") /\ acc.i = w)
  /\ At("stop") \/ At("join") => \A w \in Worker : w < acc.i => Ended(w)
  /\ At("join") => acc.i \in Worker

\* The places of a socket besides the acceptor's hand, one by one.
InRing(fd, w, k) == k \in 1 .. Len(ring[w]) /\ ring[w][k] = fd
Popped(fd, w, k) == k \in 1 .. Len(worker[w].fds) /\ worker[w].fds[k] = fd
InMap(fd, w) == fd \in connections[w] /\ worker[w].fd # fd

\* No socket is in two places.
Exclusive ==
  \A fd \in Fd, w, v \in Worker, k, l \in Nat :
    /\ InHand(fd) => ~InRing(fd, w, k) /\ ~Popped(fd, w, k) /\ ~InMap(fd, w)
    /\ InRing(fd, w, k) => ~Popped(fd, v, l) /\ ~InMap(fd, v)
    /\ Popped(fd, w, k) => ~InMap(fd, v)
    /\ InRing(fd, w, k) /\ InRing(fd, v, l) => w = v /\ k = l
    /\ Popped(fd, w, k) /\ Popped(fd, v, l) => w = v /\ k = l
    /\ InMap(fd, w) /\ InMap(fd, v) => w = v

\* The open sockets are those in some place.
OpenIsHeld ==
  \A fd \in Fd :
    fd \in open <=> \/ InHand(fd)
                    \/ \E w \in Worker, k \in Nat : InRing(fd, w, k) \/ Popped(fd, w, k)
                    \/ \E w \in Worker : InMap(fd, w)

\* The inductive invariant.
IInv == TypeOK /\ HandsInv /\ JoinInv /\ Exclusive /\ OpenIsHeld

-----------------------------------------------------------------------------

\* It holds initially.
LEMMA InitIInv == Init => IInv
<1> SUFFICES ASSUME Init PROVE IInv
  OBVIOUS
<1> USE DEF Init, Idle
<1>1. TypeOK
  BY HandoffAssumption DEF TypeOK, Worker
<1>2. HandsInv
  BY DEF HandsInv
<1>3. JoinInv
  BY DEF JoinInv, At, Ended
<1>4. \A fd \in Fd : /\ ~InHand(fd)
                     /\ \A w \in Worker : ~InMap(fd, w)
                     /\ \A w \in Worker, k \in Nat : ~InRing(fd, w, k) /\ ~Popped(fd, w, k)
  BY DEF InHand, At, InRing, Popped, InMap
<1>5. open = {}
  OBVIOUS
<1> HIDE DEF Init, Idle
<1>6. Exclusive
  BY <1>4 DEF Exclusive
<1>7. OpenIsHeld
  BY <1>4, <1>5 DEF OpenIsHeld
<1> QED BY <1>1, <1>2, <1>3, <1>6, <1>7 DEF IInv

\* The places of the sockets depend on what the threads have in hand and on the
\* rings and maps only.
LEMMA PlacesFrame ==
  ASSUME IInv, acc.pc = "assign" <=> acc'.pc = "assign", acc.pc = "assign" => acc'.fd = acc.fd,
         \A w \in Worker : worker'[w].fds = worker[w].fds /\ worker'[w].fd = worker[w].fd,
         open' = open, ring' = ring, connections' = connections
  PROVE  Exclusive' /\ OpenIsHeld'
<1>1. \A fd \in Fd : InHand(fd)' <=> InHand(fd)
  BY DEF InHand, At
<1>2. \A fd \in Fd, w \in Worker, k \in Nat : InRing(fd, w, k)' <=> InRing(fd, w, k)
  BY DEF InRing
<1>3. \A fd \in Fd, w \in Worker, k \in Nat : Popped(fd, w, k)' <=> Popped(fd, w, k)
  BY DEF Popped
<1>4. \A fd \in Fd, w \in Worker : InMap(fd, w)' <=> InMap(fd, w)
  BY DEF InMap
<1>5. Exclusive'
  BY <1>1, <1>2, <1>3, <1>4 DEF IInv, Exclusive
<1>6. OpenIsHeld'
  BY <1>1, <1>2, <1>3, <1>4 DEF IInv, OpenIsHeld
<1> QED BY <1>5, <1>6

\* The indices the acceptor uses are of workers.
LEMMA CandidateIsWorker ==
  ASSUME IInv
  PROVE  Candidate \in Worker /\ (Candidate + 1) % N \in Worker
<1>1. \A m \in Nat, n \in Nat \ {0} : m % n \in 0 .. n - 1
  OBVIOUS
<1>2. next_worker + acc.i \in Nat /\ N \in Nat \ {0}
  BY HandoffAssumption DEF IInv, TypeOK, Worker
<1>3. Candidate \in 0 .. N - 1
  BY <1>1, <1>2, Zenon DEF Candidate
<1>4. Candidate + 1 \in Nat
  BY <1>2, <1>3
<1> QED BY <1>1, <1>2, <1>3, <1>4 DEF Worker

\* The acceptor starts the workers and enters its loop.
LEMMA StartIInv ==
  ASSUME IInv, start \/ start_fails \/ Serve
  PROVE  IInv'
<1> USE DEF At
<1>1. CASE start
  <2> USE <1>1 DEF start
  <2>1. acc.i \in Worker /\ acc.i + 1 \in 0 .. N
    BY HandoffAssumption DEF IInv, TypeOK, Worker
  <2>2. /\ acc'.pc = "start" /\ acc'.i = acc.i + 1 /\ acc' \in [pc : {"start"}, fd : Fd \cup {NoFd}, i : 0 .. N]
        /\ worker_running'[acc.i] = TRUE
        /\ \A w \in Worker : w # acc.i => worker'[w] = worker[w] /\ worker_running'[w] = worker_running[w]
        /\ worker'[acc.i] = Idle("wait")
    BY <2>1, Zenon DEF IInv, TypeOK
  <2>3. TypeOK'
    BY <2>1, <2>2 DEF IInv, TypeOK, Idle
  <2>4. worker[acc.i].pc = "off" /\ worker[acc.i].fds = <<>> /\ worker[acc.i].fd = NoFd
    <3>1. acc.i >= acc.i /\ acc.pc = "start"
      BY <2>1 DEF Worker
    <3>2. worker[acc.i].pc = "off"
      BY <2>1, <3>1 DEF IInv, JoinInv
    <3> QED BY <2>1, <3>2 DEF IInv, HandsInv
  <2>5. HandsInv'
    BY <2>2 DEF IInv, HandsInv, Idle
  <2>6. JoinInv'
    BY <2>1, <2>2 DEF IInv, JoinInv, Ended, TypeOK, Worker
  <2>7. Exclusive' /\ OpenIsHeld'
    <3>1. \A w \in Worker : worker'[w].fds = worker[w].fds /\ worker'[w].fd = worker[w].fd
      BY <2>2, <2>4 DEF Idle
    <3> QED BY <2>2, <3>1, PlacesFrame
  <2> QED BY <2>3, <2>5, <2>6, <2>7 DEF IInv
<1>2. CASE start_fails
  <2> USE <1>2 DEF start_fails
  <2>1. /\ acc'.pc = "start" /\ acc'.i = acc.i + 1
        /\ acc' \in [pc : {"start"}, fd : Fd \cup {NoFd}, i : 0 .. N]
    <3>1. acc.i + 1 \in 0 .. N
      BY HandoffAssumption DEF IInv, TypeOK
    <3> QED BY <3>1, Zenon DEF IInv, TypeOK
  <2>2. TypeOK' /\ HandsInv'
    BY <2>1 DEF IInv, TypeOK, HandsInv
  <2>3. JoinInv'
    BY <2>1, HandoffAssumption DEF IInv, JoinInv, Ended, TypeOK, Worker
  <2>4. Exclusive' /\ OpenIsHeld'
    BY <2>1, PlacesFrame
  <2> QED BY <2>2, <2>3, <2>4 DEF IInv
<1>3. CASE Serve
  <2> USE <1>3 DEF Serve, GoTo
  <2>1. acc'.pc = "poll" /\ acc' \in [pc : {"poll"}, fd : Fd \cup {NoFd}, i : 0 .. N]
    BY Zenon DEF IInv, TypeOK
  <2>2. TypeOK' /\ HandsInv'
    BY <2>1 DEF IInv, TypeOK, HandsInv
  <2>3. JoinInv'
    BY <2>1 DEF IInv, JoinInv, Ended
  <2>4. Exclusive' /\ OpenIsHeld'
    BY <2>1, PlacesFrame
  <2> QED BY <2>2, <2>3, <2>4 DEF IInv
<1> QED BY <1>1, <1>2, <1>3

\* The steps of the acceptor's loop that move no socket.
LEMMA LoopIInv ==
  ASSUME IInv, Poll \/ poll_error \/ AcceptFails \/ Notify
  PROVE  IInv'
<1>1. /\ acc.pc \in {"poll", "accept", "notify"} /\ acc'.pc \in {"poll", "accept", "stop"}
      /\ acc'.pc = "stop" => acc'.i = 0
      /\ acc' \in [pc : {"poll", "accept", "stop"}, fd : Fd \cup {NoFd}, i : 0 .. N]
  <2>1. CASE Poll
    <3>1. CASE acc' = [acc EXCEPT !.pc = "accept"]
      BY <2>1, <3>1, Zenon DEF Poll, At, IInv, TypeOK
    <3>2. CASE acc' = [acc EXCEPT !.pc = "stop", !.i = 0]
      <4>1. 0 \in 0 .. N
        BY HandoffAssumption
      <4> QED BY <2>1, <3>2, <4>1, Zenon DEF Poll, At, IInv, TypeOK
    <3> QED BY <2>1, <3>1, <3>2 DEF Poll, GoTo
  <2>2. CASE AcceptFails
    BY <2>2, Zenon DEF AcceptFails, At, GoTo, IInv, TypeOK
  <2>3. CASE Notify
    BY <2>3, HandoffAssumption DEF Notify, At
  <2>4. CASE poll_error
    <3>1. 0 \in 0 .. N
      BY HandoffAssumption
    <3> QED BY <2>4, <3>1, Zenon DEF poll_error, At, IInv, TypeOK
  <2> QED BY <2>1, <2>2, <2>3, <2>4
<1>2. /\ next_worker' = next_worker \/ next_worker' = (Candidate + 1) % N
      /\ open' = open /\ worker_running' = worker_running /\ worker' = worker /\ ring' = ring
      /\ connections' = connections
  BY DEF Poll, poll_error, AcceptFails, Notify
<1>3. TypeOK'
  BY <1>1, <1>2, CandidateIsWorker DEF IInv, TypeOK
<1>4. HandsInv'
  BY <1>1, <1>2 DEF IInv, HandsInv
<1>5. JoinInv'
  BY <1>1, <1>2 DEF IInv, JoinInv, At, Ended, Worker
<1>6. Exclusive' /\ OpenIsHeld'
  BY <1>1, <1>2, PlacesFrame
<1> QED BY <1>3, <1>4, <1>5, <1>6 DEF IInv

\* accept() returns a number that is not open, hence in no place.
LEMMA AcceptIInv ==
  ASSUME IInv, NEW fd \in Fd, Accept(fd)
  PROVE  IInv'
<1> USE DEF Accept, At
<1>1. TypeOK'
  BY HandoffAssumption DEF IInv, TypeOK
<1>2. HandsInv'
  BY DEF IInv, HandsInv
<1>3. JoinInv'
  BY DEF IInv, JoinInv, Ended
<1>4. \A f \in Fd : (InHand(f)' <=> f = fd) /\ ~InHand(f)
  BY DEF InHand, At
<1>5. \A f \in Fd, w \in Worker, k \in Nat :
        (InRing(f, w, k)' <=> InRing(f, w, k)) /\ (Popped(f, w, k)' <=> Popped(f, w, k))
  BY DEF InRing, Popped
<1>6. \A f \in Fd, w \in Worker : InMap(f, w)' <=> InMap(f, w)
  BY DEF InMap
<1>7. fd \notin open /\ open' = open \cup {fd}
  BY NextFdAssumption
<1> HIDE DEF Accept, At
<1>8. Exclusive'
  BY <1>4, <1>5, <1>6, <1>7 DEF IInv, Exclusive, OpenIsHeld
<1>9. OpenIsHeld'
  BY <1>4, <1>5, <1>6, <1>7 DEF IInv, OpenIsHeld
<1> QED BY <1>1, <1>2, <1>3, <1>8, <1>9 DEF IInv

\* The socket goes from the acceptor's hand to the end of a ring.
LEMMA PushIInv ==
  ASSUME IInv, Push
  PROVE  IInv'
<1> DEFINE c == Candidate
           n == Len(ring[c]) + 1
<1>1. /\ c \in Worker /\ acc.pc = "assign" /\ acc.fd \in Fd /\ ring[c] \in Seq(Fd)
      /\ ring' = [ring EXCEPT ![c] = Append(@, acc.fd)] /\ acc' = [acc EXCEPT !.pc = "notify"]
      /\ next_worker' = next_worker /\ open' = open /\ worker_running' = worker_running
      /\ worker' = worker /\ connections' = connections
  BY CandidateIsWorker DEF Push, At, GoTo, IInv, TypeOK, HandsInv
<1> HIDE DEF c
<1>2. TypeOK'
  <2>1. ring' \in [Worker -> Seq(Fd)]
    BY <1>1 DEF IInv, TypeOK
  <2>2. acc' \in [pc : {"notify"}, fd : Fd \cup {NoFd}, i : 0 .. N]
    BY <1>1, Zenon DEF IInv, TypeOK
  <2> QED BY <1>1, <2>1, <2>2 DEF IInv, TypeOK
<1>3. acc'.pc = "notify"
  BY <1>1 DEF IInv, TypeOK
<1>4. HandsInv'
  BY <1>1, <1>3 DEF IInv, HandsInv
<1>5. JoinInv'
  BY <1>1, <1>3 DEF IInv, JoinInv, At, Ended
<1>6. InHand(acc.fd) /\ \A f \in Fd : ~InHand(f)' /\ (InHand(f) => f = acc.fd)
  BY <1>1, <1>3 DEF InHand, At
<1>7. /\ ring'[c] = Append(ring[c], acc.fd) /\ \A v \in Worker : v # c => ring'[v] = ring[v]
      /\ Len(ring'[c]) = n /\ n \in Nat /\ ring'[c][n] = acc.fd
      /\ \A k \in 1 .. n - 1 : ring'[c][k] = ring[c][k]
  BY <1>1 DEF IInv, TypeOK
<1>8. \A f \in Fd, v \in Worker, k \in Nat :
        InRing(f, v, k)' <=> InRing(f, v, k) \/ (v = c /\ k = n /\ f = acc.fd)
  BY <1>7, SMTT(30) DEF InRing
<1>9. \A f \in Fd, v \in Worker, k \in Nat :
        (Popped(f, v, k)' <=> Popped(f, v, k)) /\ (InMap(f, v)' <=> InMap(f, v))
  BY <1>1 DEF Popped, InMap
<1>10. Exclusive'
  BY <1>1, <1>6, <1>8, <1>9 DEF IInv, Exclusive
<1>11. OpenIsHeld'
  BY <1>1, <1>6, <1>7, <1>8, <1>9 DEF IInv, OpenIsHeld
<1> QED BY <1>2, <1>4, <1>5, <1>10, <1>11 DEF IInv

\* The next ring is tried, or the socket is closed.
LEMMA RingFullIInv ==
  ASSUME IInv, RingFull
  PROVE  IInv'
<1>1. /\ acc.pc = "assign" /\ next_worker' = next_worker /\ worker_running' = worker_running
      /\ worker' = worker /\ ring' = ring /\ connections' = connections
      /\ \/ acc.i + 1 < N /\ acc' = [acc EXCEPT !.i = @ + 1] /\ open' = open
         \/ open' = open \ {acc.fd} /\ acc' = [pc |-> "accept", fd |-> NoFd, i |-> 0]
  BY DEF RingFull, At
<1>2. CASE acc.i + 1 < N /\ acc' = [acc EXCEPT !.i = @ + 1] /\ open' = open
  <2>1. acc.i + 1 \in 0 .. N
    BY <1>2, HandoffAssumption DEF IInv, TypeOK
  <2>2. TypeOK' /\ acc'.pc = "assign" /\ acc'.fd = acc.fd
    BY <1>1, <1>2, <2>1, Zenon DEF IInv, TypeOK
  <2>3. HandsInv' /\ JoinInv'
    BY <1>1, <2>2 DEF IInv, HandsInv, JoinInv, At, Ended
  <2> QED BY <1>1, <1>2, <2>2, <2>3, PlacesFrame DEF IInv
<1>3. CASE open' = open \ {acc.fd} /\ acc' = [pc |-> "accept", fd |-> NoFd, i |-> 0]
  <2>1. TypeOK' /\ acc'.pc = "accept"
    BY <1>1, <1>3, HandoffAssumption DEF IInv, TypeOK
  <2>2. HandsInv' /\ JoinInv'
    BY <1>1, <2>1 DEF IInv, HandsInv, JoinInv, At, Ended
  <2>3. acc.fd \in Fd /\ InHand(acc.fd) /\ \A f \in Fd : ~InHand(f)' /\ (InHand(f) => f = acc.fd)
    BY <1>1, <2>1 DEF IInv, HandsInv, InHand, At
  <2>4. \A f \in Fd, w \in Worker, k \in Nat :
          /\ InRing(f, w, k)' <=> InRing(f, w, k)
          /\ Popped(f, w, k)' <=> Popped(f, w, k)
          /\ InMap(f, w)' <=> InMap(f, w)
    BY <1>1 DEF InRing, Popped, InMap
  <2>5. Exclusive'
    BY <2>3, <2>4 DEF IInv, Exclusive
  <2>6. OpenIsHeld'
    BY <1>3, <2>3, <2>4 DEF IInv, Exclusive, OpenIsHeld
  <2> QED BY <2>1, <2>2, <2>5, <2>6 DEF IInv
<1> QED BY <1>1, <1>2, <1>3

\* The acceptor stops and joins the workers one by one.
LEMMA StopIInv ==
  ASSUME IInv, StopWorker \/ JoinWorker \/ SkipWorker
  PROVE  IInv'
<1>1. /\ next_worker' = next_worker /\ open' = open /\ worker' = worker /\ ring' = ring
      /\ connections' = connections
  BY DEF StopWorker, JoinWorker, SkipWorker
<1>2. CASE StopWorker
  <2>1. /\ acc.pc = "stop" /\ acc.i \in Worker
        /\ worker_running' = [worker_running EXCEPT ![acc.i] = FALSE]
        /\ acc' = [acc EXCEPT !.pc = "join"]
    BY <1>2, HandoffAssumption DEF StopWorker, At, GoTo, IInv, TypeOK, Worker
  <2>2. acc'.pc = "join" /\ acc'.i = acc.i
    BY <2>1 DEF IInv, TypeOK
  <2>3. TypeOK'
    BY <1>1, <2>1, Zenon DEF IInv, TypeOK
  <2>4. HandsInv'
    BY <1>1, <2>2 DEF IInv, HandsInv
  <2>5. \A w \in Worker : w # acc.i => worker_running'[w] = worker_running[w]
    BY <2>1 DEF IInv, TypeOK
  <2>6. JoinInv'
    BY <1>1, <2>1, <2>2, <2>5 DEF IInv, JoinInv, At, Ended
  <2> QED BY <1>1, <2>1, <2>2, <2>3, <2>4, <2>6, PlacesFrame DEF IInv
<1>3. CASE JoinWorker \/ SkipWorker
  <2>1. /\ acc.pc \in {"stop", "join"} /\ acc.i \in Worker /\ Ended(acc.i)
        /\ worker_running' = worker_running
        /\ acc' = [acc EXCEPT !.pc = "stop", !.i = acc.i + 1]
    <3>1. CASE JoinWorker
      BY <3>1 DEF JoinWorker, At, Ended, IInv, JoinInv
    <3>2. CASE SkipWorker
      <4>1. acc.pc = "stop" /\ acc.i \in Worker /\ ~worker_running[acc.i] /\ worker_running' = worker_running
        BY <3>2, HandoffAssumption DEF SkipWorker, At, IInv, TypeOK, Worker
      <4>2. acc' = [acc EXCEPT !.pc = "stop", !.i = acc.i + 1]
        BY <3>2, <4>1, Zenon DEF SkipWorker, IInv, TypeOK
      <4> QED BY <4>1, <4>2 DEF IInv, JoinInv, At
    <3> QED BY <1>3, <3>1, <3>2
  <2>2. acc.i + 1 \in 0 .. N
    BY <2>1, HandoffAssumption DEF Worker
  <2>3. acc'.pc = "stop" /\ acc'.i = acc.i + 1
    BY <2>1 DEF IInv, TypeOK
  <2>4. TypeOK'
    BY <1>1, <2>1, <2>2, Zenon DEF IInv, TypeOK
  <2>5. HandsInv'
    BY <1>1, <2>3 DEF IInv, HandsInv
  <2>6. \A w \in Worker : w < acc.i + 1 => Ended(w)
    BY <2>1 DEF IInv, JoinInv, At, Worker
  <2>7. JoinInv'
    BY <1>1, <2>1, <2>3, <2>6 DEF IInv, JoinInv, At, Ended
  <2> QED BY <1>1, <2>1, <2>3, <2>4, <2>5, <2>7, PlacesFrame DEF IInv
<1> QED BY <1>2, <1>3

\* The destructors close what is in the maps.  All workers have ended, so that
\* no map has an entry for a number that has been closed and opened again.
LEMMA ClearIInv ==
  ASSUME IInv, ClearWorkers
  PROVE  IInv'
<1>1. /\ acc.pc = "stop" /\ acc.i = N /\ acc' = [acc EXCEPT !.pc = "done"]
      /\ open' = open \ UNION {connections[w] : w \in Worker}
      /\ connections' = [w \in Worker |-> {}]
      /\ next_worker' = next_worker /\ worker_running' = worker_running /\ worker' = worker /\ ring' = ring
  BY DEF ClearWorkers, At, GoTo
<1>2. acc'.pc = "done"
  BY <1>1 DEF IInv, TypeOK
<1>3. TypeOK'
  BY <1>1, Zenon DEF IInv, TypeOK
<1>4. HandsInv' /\ JoinInv'
  BY <1>1, <1>2 DEF IInv, HandsInv, JoinInv, At, Ended
<1>5. \A w \in Worker : Ended(w)
  BY <1>1, HandoffAssumption DEF IInv, JoinInv, At, Worker
<1>6. \A f \in Fd, w \in Worker : InMap(f, w) <=> f \in connections[w]
  BY <1>5, HandoffAssumption DEF IInv, HandsInv, Ended, InMap
<1>7. \A f \in Fd : /\ InHand(f)' <=> InHand(f)
                    /\ \A w \in Worker : ~InMap(f, w)'
                    /\ \A w \in Worker, k \in Nat : /\ InRing(f, w, k)' <=> InRing(f, w, k)
                                                    /\ Popped(f, w, k)' <=> Popped(f, w, k)
  BY <1>1, <1>2 DEF InHand, At, InRing, Popped, InMap
<1>8. Exclusive'
  BY <1>7 DEF IInv, Exclusive
<1>9. \A f \in Fd : f \in open' <=> f \in open /\ \A w \in Worker : ~InMap(f, w)
  BY <1>1, <1>6
<1>10. OpenIsHeld'
  <2> SUFFICES ASSUME NEW f \in Fd
               PROVE  f \in open' <=> \/ InHand(f)
                                      \/ \E w \in Worker, k \in Nat : InRing(f, w, k) \/ Popped(f, w, k)
    BY <1>7 DEF OpenIsHeld
  <2>1. CASE InHand(f) \/ \E w \in Worker, k \in Nat : InRing(f, w, k) \/ Popped(f, w, k)
    <3>1. f \in open
      BY <2>1 DEF IInv, OpenIsHeld
    <3>2. \A w \in Worker : ~InMap(f, w)
      BY <2>1 DEF IInv, Exclusive
    <3> QED BY <1>9, <2>1, <3>1, <3>2
  <2>2. CASE ~(InHand(f) \/ \E w \in Worker, k \in Nat : InRing(f, w, k) \/ Popped(f, w, k))
    BY <1>9, <2>2 DEF IInv, OpenIsHeld
  <2> QED BY <2>1, <2>2
<1> QED BY <1>3, <1>4, <1>8, <1>10 DEF IInv

\* What a worker in its loop does to itself leaves the order of starting and
\* stopping alone.
LEMMA WorkerJoins ==
  ASSUME IInv, NEW w \in Worker, worker[w].pc \notin {"off", "exited"},
         acc' = acc, worker_running' = worker_running,
         \A v \in Worker : v # w => worker'[v] = worker[v]
  PROVE  JoinInv'
<1>1. ~At("start") \/ ~(w >= acc.i)
  BY DEF IInv, JoinInv
<1>2. \A v \in Worker : worker_running[v] \/ Ended(v)' \/ (At("join") /\ acc.i = v)
  BY DEF IInv, JoinInv, Ended
<1>3. At("stop") \/ At("join") => \A v \in Worker : v < acc.i => v # w /\ Ended(v)
  BY DEF IInv, JoinInv, Ended
<1>4. At("start") => \A v \in Worker : v >= acc.i => worker'[v].pc = "off"
  BY <1>1 DEF IInv, JoinInv
<1> QED BY <1>2, <1>3, <1>4 DEF IInv, JoinInv, At, Ended

\* The worker wakes, empties its pipe, or its loop ends.
LEMMA WakeIInv ==
  ASSUME IInv, NEW w \in Worker, Wake(w) \/ epoll_error(w) \/ DrainPipe(w)
  PROVE  IInv'
<1>1. /\ worker[w].pc \in {"wait", "drain"}
      /\ \E pc \in {"drain", "pop", "exited"} : worker' = [worker EXCEPT ![w].pc = pc]
      /\ acc' = acc /\ next_worker' = next_worker /\ worker_running' = worker_running
      /\ open' = open /\ ring' = ring /\ connections' = connections
  BY DEF Wake, epoll_error, DrainPipe, In, WorkerSame
<1>2. PICK pc \in {"drain", "pop", "exited"} : worker' = [worker EXCEPT ![w].pc = pc]
  BY <1>1, Zenon
<1>3. /\ worker'[w].pc = pc /\ worker'[w].fds = worker[w].fds /\ worker'[w].fd = worker[w].fd
      /\ \A v \in Worker : v # w => worker'[v] = worker[v]
  BY <1>2 DEF IInv, TypeOK
<1>4. TypeOK'
  BY <1>1, <1>2, ZenonT(60) DEF IInv, TypeOK
<1>5. HandsInv'
  BY <1>1, <1>3 DEF IInv, HandsInv
<1>6. JoinInv'
  BY <1>1, <1>3, WorkerJoins
<1>7. Exclusive' /\ OpenIsHeld'
  BY <1>1, <1>3, PlacesFrame
<1> QED BY <1>4, <1>5, <1>6, <1>7 DEF IInv

\* Sockets go from the front of the ring to the worker's batch.
LEMMA PopIInv ==
  ASSUME IInv, NEW w \in Worker, PopBatch(w)
  PROVE  IInv'
<1> DEFINE s == ring[w]
           c == IF Len(s) < Limit THEN Len(s) ELSE Limit
           next == IF c = 0 THEN "wait" ELSE "register"
<1>1. /\ worker[w].pc = "pop"
      /\ worker' = [worker EXCEPT ![w].pc = next, ![w].fds = SubSeq(s, 1, c)]
      /\ ring' = [ring EXCEPT ![w] = SubSeq(s, c + 1, Len(s))]
      /\ acc' = acc /\ next_worker' = next_worker /\ worker_running' = worker_running
      /\ open' = open /\ connections' = connections
  BY DEF PopBatch, In, WorkerSame
<1>2. s \in Seq(Fd) /\ c \in 0 .. Len(s) /\ next \in {"wait", "register"}
  BY HandoffAssumption DEF IInv, TypeOK
<1>3. next = "register" <=> c # 0
  OBVIOUS
<1> HIDE DEF s, c, next
<1>4. /\ SubSeq(s, 1, c) \in Seq(Fd) /\ Len(SubSeq(s, 1, c)) = c
      /\ \A k \in 1 .. c : SubSeq(s, 1, c)[k] = s[k]
  BY <1>2
<1>5. /\ SubSeq(s, c + 1, Len(s)) \in Seq(Fd) /\ Len(SubSeq(s, c + 1, Len(s))) = Len(s) - c
      /\ \A k \in 1 .. Len(s) - c : SubSeq(s, c + 1, Len(s))[k] = s[k + c]
  BY <1>2
<1>6. /\ worker'[w].pc = next /\ worker'[w].fds = SubSeq(s, 1, c) /\ worker'[w].fd = worker[w].fd
      /\ \A v \in Worker : v # w => worker'[v] = worker[v] /\ ring'[v] = ring[v]
      /\ ring'[w] = SubSeq(s, c + 1, Len(s))
  BY <1>1, Zenon DEF IInv, TypeOK
<1>7. TypeOK'
  <2>1. worker' \in [Worker -> [pc : {"off", "wait", "drain", "pop", "register", "erase", "exited"},
                                fds : Seq(Fd), fd : Fd \cup {NoFd}]]
    BY <1>1, <1>2, <1>4, ZenonT(60) DEF IInv, TypeOK
  <2>2. ring' \in [Worker -> Seq(Fd)]
    BY <1>1, <1>5 DEF IInv, TypeOK
  <2> QED BY <1>1, <2>1, <2>2, Zenon DEF IInv, TypeOK
<1>8. HandsInv'
  <2>1. SubSeq(s, 1, c) # <<>> <=> c # 0
    BY <1>2, <1>4
  <2> QED BY <1>1, <1>2, <1>3, <1>6, <2>1, ZenonT(60) DEF IInv, HandsInv
<1>9. JoinInv'
  BY <1>1, <1>6, WorkerJoins, Zenon
<1>10. \A f \in Fd, k \in Nat : ~Popped(f, w, k)
  <2>1. worker[w].fds = <<>>
    BY <1>1 DEF IInv, HandsInv
  <2> QED BY <2>1 DEF Popped
<1>11. \A f \in Fd, k \in Nat : InRing(f, w, k) <=> k \in 1 .. Len(s) /\ s[k] = f
  BY DEF InRing, s
<1>12. \A f \in Fd, k \in Nat : /\ Popped(f, w, k)' <=> k <= c /\ InRing(f, w, k)
                                /\ InRing(f, w, k)' <=> k >= 1 /\ InRing(f, w, k + c)
  <2>1. \A f \in Fd, k \in Nat : Popped(f, w, k)' <=> k <= c /\ InRing(f, w, k)
    BY <1>2, <1>4, <1>6, <1>11 DEF Popped
  <2>2. \A f \in Fd, k \in Nat : InRing(f, w, k)' <=> k >= 1 /\ InRing(f, w, k + c)
    <3>1. \A f \in Fd, k \in Nat : InRing(f, w, k)' <=> k \in 1 .. Len(s) - c /\ s[k + c] = f
      BY <1>2, <1>5, <1>6 DEF InRing
    <3> QED BY <1>2, <1>11, <3>1
  <2> QED BY <2>1, <2>2
<1>13. \A f \in Fd, v \in Worker, k \in Nat :
         v # w => (Popped(f, v, k)' <=> Popped(f, v, k)) /\ (InRing(f, v, k)' <=> InRing(f, v, k))
  BY <1>6 DEF Popped, InRing
<1>14. \A f \in Fd : /\ InHand(f)' <=> InHand(f)
                     /\ \A v \in Worker : InMap(f, v)' <=> InMap(f, v)
  BY <1>1, <1>6, Zenon DEF InHand, At, InMap
<1>15. Exclusive'
  BY <1>2, <1>10, <1>12, <1>13, <1>14 DEF IInv, Exclusive
<1>16. ASSUME NEW f \in Fd
       PROVE  (\E v \in Worker, k \in Nat : InRing(f, v, k)' \/ Popped(f, v, k)')
                <=> \E v \in Worker, k \in Nat : InRing(f, v, k) \/ Popped(f, v, k)
  <2>1. ASSUME NEW v \in Worker, NEW k \in Nat, InRing(f, v, k)' \/ Popped(f, v, k)'
        PROVE  \E l \in Nat : InRing(f, v, l) \/ Popped(f, v, l)
    BY <1>2, <1>12, <1>13, <2>1
  <2>2. ASSUME NEW v \in Worker, NEW k \in Nat, InRing(f, v, k) \/ Popped(f, v, k)
        PROVE  \E l \in Nat : InRing(f, v, l)' \/ Popped(f, v, l)'
    <3>1. CASE v # w
      BY <1>13, <2>2, <3>1
    <3>2. CASE v = w /\ k <= c
      BY <1>10, <1>12, <2>2, <3>2
    <3>3. CASE v = w /\ ~(k <= c)
      <4>1. k - c \in Nat /\ k - c >= 1 /\ (k - c) + c = k
        BY <1>2, <3>3
      <4> QED BY <1>10, <1>12, <2>2, <3>3, <4>1
    <3> QED BY <3>1, <3>2, <3>3
  <2> QED BY <2>1, <2>2
<1>17. OpenIsHeld'
  BY <1>1, <1>14, <1>16 DEF IInv, OpenIsHeld
<1> QED BY <1>7, <1>8, <1>9, <1>15, <1>17 DEF IInv

\* A popped socket is registered under a key that is not taken.
LEMMA RegisterIInv ==
  ASSUME IInv, NEW w \in Worker, Register(w)
  PROVE  IInv'
<1> DEFINE s == worker[w].fds
           next == IF Len(s) = 1 THEN "wait" ELSE "register"
<1>1. /\ worker[w].pc = "register"
      /\ worker' = [worker EXCEPT ![w].pc = next, ![w].fds = Tail(s)]
      /\ connections' = [connections EXCEPT ![w] = @ \cup {Head(s)}]
      /\ acc' = acc /\ next_worker' = next_worker /\ worker_running' = worker_running
      /\ open' = open /\ ring' = ring
  BY DEF Register, In, WorkerSame, IInv, TypeOK
<1>2. s \in Seq(Fd) /\ s # <<>> /\ worker[w].fd = NoFd
  BY <1>1 DEF IInv, TypeOK, HandsInv
<1>3. next \in {"wait", "register"} /\ (next = "register" <=> Len(s) # 1)
  OBVIOUS
<1> HIDE DEF s, next
<1>4. /\ Len(s) \in Nat \ {0} /\ Head(s) = s[1] /\ Head(s) \in Fd
      /\ Tail(s) \in Seq(Fd) /\ Len(Tail(s)) = Len(s) - 1
      /\ \A k \in 1 .. Len(s) - 1 : Tail(s)[k] = s[k + 1]
  BY <1>2
<1>5. /\ worker'[w].pc = next /\ worker'[w].fds = Tail(s) /\ worker'[w].fd = NoFd
      /\ \A v \in Worker : v # w => worker'[v] = worker[v] /\ connections'[v] = connections[v]
      /\ connections'[w] = connections[w] \cup {Head(s)}
  BY <1>1, <1>2 DEF IInv, TypeOK
<1>6. TypeOK'
  <2>1. worker' \in [Worker -> [pc : {"off", "wait", "drain", "pop", "register", "erase", "exited"},
                                fds : Seq(Fd), fd : Fd \cup {NoFd}]]
    <3> DEFINE r == Tail(s)
    <3>1. r \in Seq(Fd)
      BY <1>4
    <3>2. worker' = [worker EXCEPT ![w].pc = next, ![w].fds = r]
      BY <1>1
    <3> HIDE DEF r
    <3> QED BY <1>3, <3>1, <3>2, ZenonT(60) DEF IInv, TypeOK
  <2>2. connections' \in [Worker -> SUBSET Fd]
    BY <1>1, <1>4 DEF IInv, TypeOK
  <2> QED BY <1>1, <2>1, <2>2 DEF IInv, TypeOK
<1>7. HandsInv'
  <2>1. Tail(s) # <<>> <=> Len(s) # 1
    <3> DEFINE r == Tail(s)
    <3>1. r \in Seq(Fd) /\ Len(r) = Len(s) - 1 /\ Len(s) \in Nat
      BY <1>4
    <3> HIDE DEF r
    <3>2. r # <<>> <=> Len(s) # 1
      BY <3>1, SMTT(30)
    <3> QED BY <3>2 DEF r
  <2> QED BY <1>1, <1>3, <1>5, <2>1, ZenonT(60) DEF IInv, HandsInv
<1>8. JoinInv'
  BY <1>1, <1>5, WorkerJoins, Zenon
<1>9. \A f \in Fd, k \in Nat : Popped(f, w, k) <=> k \in 1 .. Len(s) /\ s[k] = f
  BY DEF Popped, s
<1>10. \A f \in Fd, k \in Nat : Popped(f, w, k)' <=> k >= 1 /\ Popped(f, w, k + 1)
  <2>1. \A f \in Fd, k \in Nat : Popped(f, w, k)' <=> k \in 1 .. Len(s) - 1 /\ s[k + 1] = f
    BY <1>4, <1>5 DEF Popped
  <2> QED BY <1>4, <1>9, <2>1
<1>11. \A f \in Fd : InMap(f, w)' <=> InMap(f, w) \/ Popped(f, w, 1)
  BY <1>2, <1>4, <1>5, <1>9, HandoffAssumption DEF InMap
<1>12. \A f \in Fd, v \in Worker, k \in Nat :
         v # w => (Popped(f, v, k)' <=> Popped(f, v, k)) /\ (InMap(f, v)' <=> InMap(f, v))
  BY <1>5 DEF Popped, InMap
<1>13. \A f \in Fd : /\ InHand(f)' <=> InHand(f)
                     /\ \A v \in Worker, k \in Nat : InRing(f, v, k)' <=> InRing(f, v, k)
  BY <1>1 DEF InHand, At, InRing
<1>14. Exclusive'
  <2>1. \A k \in Nat : k + 1 \in Nat /\ (k >= 1 => k + 1 # 1)
    OBVIOUS
  <2> QED BY <1>10, <1>11, <1>12, <1>13, <2>1 DEF IInv, Exclusive
<1>15. ASSUME NEW f \in Fd
       PROVE  (\E v \in Worker : InMap(f, v)' \/ \E k \in Nat : Popped(f, v, k)')
                <=> \E v \in Worker : InMap(f, v) \/ \E k \in Nat : Popped(f, v, k)
  <2>1. ASSUME NEW v \in Worker, InMap(f, v)' \/ \E k \in Nat : Popped(f, v, k)'
        PROVE  InMap(f, v) \/ \E k \in Nat : Popped(f, v, k)
    BY <1>10, <1>11, <1>12, <2>1
  <2>2. ASSUME NEW v \in Worker, InMap(f, v)
        PROVE  InMap(f, v)'
    BY <1>11, <1>12, <2>2
  <2>3. ASSUME NEW v \in Worker, NEW k \in Nat, Popped(f, v, k)
        PROVE  InMap(f, v)' \/ \E l \in Nat : Popped(f, v, l)'
    <3>1. CASE v # w
      BY <1>12, <2>3, <3>1
    <3>2. CASE v = w /\ k = 1
      BY <1>11, <2>3, <3>2
    <3>3. CASE v = w /\ k # 1
      <4>1. k - 1 \in Nat /\ k - 1 >= 1 /\ (k - 1) + 1 = k
        BY <1>9, <2>3, <3>3
      <4> QED BY <1>10, <2>3, <3>3, <4>1
    <3> QED BY <3>1, <3>2, <3>3
  <2> QED BY <2>1, <2>2, <2>3
<1>16. OpenIsHeld'
  BY <1>1, <1>13, <1>15 DEF IInv, OpenIsHeld
<1> QED BY <1>6, <1>7, <1>8, <1>14, <1>16 DEF IInv

\* A connection is closed; its entry counts no longer, for the number may be
\* handed out again before it is erased.
LEMMA CloseIInv ==
  ASSUME IInv, NEW w \in Worker, NEW fd \in Fd, CloseSocket(w, fd)
  PROVE  IInv'
<1>1. /\ worker[w].pc = "wait" /\ fd \in connections[w] /\ open' = open \ {fd}
      /\ worker' = [worker EXCEPT ![w].pc = "erase", ![w].fd = fd]
      /\ acc' = acc /\ next_worker' = next_worker /\ worker_running' = worker_running
      /\ ring' = ring /\ connections' = connections
  BY DEF CloseSocket, In, WorkerSame
<1>2. /\ worker'[w].pc = "erase" /\ worker'[w].fds = worker[w].fds /\ worker'[w].fd = fd
      /\ worker[w].fd = NoFd /\ fd # NoFd
      /\ \A v \in Worker : v # w => worker'[v] = worker[v]
  BY <1>1, HandoffAssumption DEF IInv, TypeOK, HandsInv
<1>3. TypeOK'
  BY <1>1, ZenonT(60) DEF IInv, TypeOK
<1>4. HandsInv'
  BY <1>1, <1>2, ZenonT(60) DEF IInv, HandsInv
<1>5. JoinInv'
  BY <1>1, <1>2, WorkerJoins, Zenon
<1>6. \A f \in Fd : /\ InHand(f)' <=> InHand(f)
                    /\ \A v \in Worker, k \in Nat : /\ InRing(f, v, k)' <=> InRing(f, v, k)
                                                    /\ Popped(f, v, k)' <=> Popped(f, v, k)
  BY <1>1, <1>2, Zenon DEF InHand, At, InRing, Popped
<1>7. InMap(fd, w) /\ \A f \in Fd, v \in Worker : InMap(f, v)' <=> InMap(f, v) /\ ~(v = w /\ f = fd)
  BY <1>1, <1>2, HandoffAssumption, Zenon DEF InMap
<1>8. Exclusive'
  BY <1>6, <1>7 DEF IInv, Exclusive
<1>9. \A f \in Fd : f \in open' <=> f \in open /\ f # fd
  BY <1>1
<1>10. OpenIsHeld'
  <2> SUFFICES ASSUME NEW f \in Fd
               PROVE  f \in open' <=> \/ InHand(f)
                                      \/ \E v \in Worker, k \in Nat : InRing(f, v, k) \/ Popped(f, v, k)
                                      \/ \E v \in Worker : InMap(f, v)'
    BY <1>6 DEF OpenIsHeld
  <2>1. CASE f = fd
    <3>1. ~InHand(fd) /\ \A v \in Worker, k \in Nat : ~InRing(fd, v, k) /\ ~Popped(fd, v, k)
      BY <1>7 DEF IInv, Exclusive
    <3>2. \A v \in Worker : ~InMap(fd, v)'
      <4>1. 0 \in Nat
        OBVIOUS
      <4> QED BY <1>7, <4>1 DEF IInv, Exclusive
    <3> QED BY <1>9, <2>1, <3>1, <3>2
  <2>2. CASE f # fd
    BY <1>7, <1>9, <2>2 DEF IInv, OpenIsHeld
  <2> QED BY <2>1, <2>2
<1> QED BY <1>3, <1>4, <1>5, <1>8, <1>10 DEF IInv

\* The entry of a closed connection is erased.
LEMMA EraseIInv ==
  ASSUME IInv, NEW w \in Worker, EraseConnection(w)
  PROVE  IInv'
<1>1. /\ worker[w].pc = "erase" /\ connections' = [connections EXCEPT ![w] = @ \ {worker[w].fd}]
      /\ worker' = [worker EXCEPT ![w] = Idle("wait")]
      /\ acc' = acc /\ next_worker' = next_worker /\ worker_running' = worker_running
      /\ open' = open /\ ring' = ring
  BY DEF EraseConnection, In, WorkerSame
<1>2. /\ worker'[w] = [pc |-> "wait", fds |-> <<>>, fd |-> NoFd] /\ worker[w].fds = <<>>
      /\ \A v \in Worker : v # w => worker'[v] = worker[v] /\ connections'[v] = connections[v]
      /\ connections'[w] = connections[w] \ {worker[w].fd}
  BY <1>1 DEF IInv, TypeOK, HandsInv, Idle
<1>3. TypeOK'
  BY <1>1 DEF IInv, TypeOK, Idle
<1>4. HandsInv'
  BY <1>1, <1>2 DEF IInv, HandsInv
<1>5. JoinInv'
  BY <1>1, <1>2, WorkerJoins
<1>6. \A f \in Fd : /\ InHand(f)' <=> InHand(f)
                    /\ \A v \in Worker, k \in Nat : /\ InRing(f, v, k)' <=> InRing(f, v, k)
                                                    /\ Popped(f, v, k)' <=> Popped(f, v, k)
  BY <1>1, <1>2 DEF InHand, At, InRing, Popped
<1>7. \A f \in Fd, v \in Worker : InMap(f, v)' <=> InMap(f, v)
  BY <1>2, HandoffAssumption DEF InMap
<1>8. Exclusive'
  BY <1>6, <1>7 DEF IInv, Exclusive
<1>9. OpenIsHeld'
  BY <1>1, <1>6, <1>7 DEF IInv, OpenIsHeld
<1> QED BY <1>3, <1>4, <1>5, <1>8, <1>9 DEF IInv

\* Every step keeps the invariant.
LEMMA NextIInv == IInv /\ [Next]_vars => IInv'
<1> SUFFICES ASSUME IInv, [Next]_vars PROVE IInv'
  OBVIOUS
<1>1. CASE AcceptorStep
  BY <1>1, StartIInv, LoopIInv, AcceptIInv, PushIInv, RingFullIInv, StopIInv, ClearIInv
     DEF AcceptorStep, assign_connection
<1>2. ASSUME NEW w \in Worker, WorkerStep(w) \/ epoll_error(w) \/ (\E fd \in Fd : CloseSocket(w, fd))
      PROVE  IInv'
  BY <1>2, WakeIInv, PopIInv, RegisterIInv, CloseIInv, EraseIInv DEF WorkerStep
<1>3. CASE sig_handler \/ UNCHANGED vars
  <2>1. /\ acc' = acc /\ next_worker' = next_worker /\ open' = open /\ worker' = worker
        /\ worker_running' = worker_running /\ ring' = ring /\ connections' = connections
    BY <1>3 DEF sig_handler, vars
  <2>2. TypeOK' /\ HandsInv' /\ JoinInv'
    BY <2>1 DEF IInv, TypeOK, HandsInv, JoinInv, At, Ended
  <2> QED BY <2>1, <2>2, PlacesFrame DEF IInv
<1>4. CASE poll_error
  BY <1>4, LoopIInv
<1> QED BY <1>1, <1>2, <1>3, <1>4 DEF Next

\* The inductive invariant holds in every reachable state.
LEMMA IInvariant == Spec => []IInv
<1>1. Init => IInv
  BY InitIInv
<1>2. IInv /\ [Next]_vars => IInv'
  BY NextIInv
<1> QED BY <1>1, <1>2, PTL DEF Spec

-----------------------------------------------------------------------------

\* The variables that hold sockets have their types.
THEOREM TypeCorrect == Spec => []TypeOK
<1>1. IInv => TypeOK
  BY DEF IInv
<1> QED BY <1>1, IInvariant, PTL

\* What Holders collects are the places of the invariant.
LEMMA HoldersArePlaces ==
  ASSUME TypeOK, NEW fd \in Fd, NEW h
  PROVE  h \in Holders(fd) <=>
           \/ InHand(fd) /\ h = <<"hand", 0, 1>>
           \/ \E w \in Worker, k \in Nat : InRing(fd, w, k) /\ h = <<"ring", w, k>>
           \/ \E w \in Worker, k \in Nat : Popped(fd, w, k) /\ h = <<"popped", w, k>>
           \/ \E w \in Worker : InMap(fd, w) /\ h = <<"map", w, 1>>
<1>1. \A w \in Worker : /\ DOMAIN ring[w] = 1 .. Len(ring[w])
                        /\ DOMAIN worker[w].fds = 1 .. Len(worker[w].fds)
                        /\ Len(ring[w]) \in Nat /\ Len(worker[w].fds) \in Nat
  BY DEF TypeOK
<1>2. h \in HandPlaces(fd) <=> InHand(fd) /\ h = <<"hand", 0, 1>>
  BY DEF HandPlaces, InHand, At
<1>3. h \in RingPlaces(fd) <=> \E w \in Worker, k \in Nat : InRing(fd, w, k) /\ h = <<"ring", w, k>>
  <2>1. h \in RingPlaces(fd) <=> \E w \in Worker : \E k \in DOMAIN ring[w] : ring[w][k] = fd /\ h = <<"ring", w, k>>
    BY DEF RingPlaces
  <2>2. \A w \in Worker, k \in Nat : InRing(fd, w, k) <=> k \in DOMAIN ring[w] /\ ring[w][k] = fd
    BY <1>1 DEF InRing
  <2>3. \A w \in Worker : DOMAIN ring[w] \subseteq Nat
    BY <1>1
  <2> QED BY <2>1, <2>2, <2>3
<1>4. h \in PoppedPlaces(fd) <=> \E w \in Worker, k \in Nat : Popped(fd, w, k) /\ h = <<"popped", w, k>>
  <2>1. h \in PoppedPlaces(fd) <=> \E w \in Worker : \E k \in DOMAIN worker[w].fds :
                         worker[w].fds[k] = fd /\ h = <<"popped", w, k>>
    BY DEF PoppedPlaces
  <2>2. \A w \in Worker, k \in Nat :
          Popped(fd, w, k) <=> k \in DOMAIN worker[w].fds /\ worker[w].fds[k] = fd
    BY <1>1 DEF Popped
  <2>3. \A w \in Worker : DOMAIN worker[w].fds \subseteq Nat
    BY <1>1
  <2> QED BY <2>1, <2>2, <2>3
<1>5. h \in MapPlaces(fd) <=> \E w \in Worker : InMap(fd, w) /\ h = <<"map", w, 1>>
  BY DEF MapPlaces, InMap
<1> QED BY <1>2, <1>3, <1>4, <1>5 DEF Holders

\* Every open socket is in exactly one place from accept() to close(), and no
\* closed one is in any: none leaks and none is served twice.
THEOREM OneHolderCorrect == Spec => []OneHolder
<1>1. IInv => OneHolder
  <2> SUFFICES ASSUME IInv, NEW fd \in Fd
               PROVE  /\ fd \in open <=> Holders(fd) # {}
                      /\ \A h, k \in Holders(fd) : h = k
    BY DEF OneHolder
  <2>1. TypeOK
    BY DEF IInv
  <2> DEFINE At1(h) == \/ InHand(fd) /\ h = <<"hand", 0, 1>>
                       \/ \E w \in Worker, k \in Nat : InRing(fd, w, k) /\ h = <<"ring", w, k>>
                       \/ \E w \in Worker, k \in Nat : Popped(fd, w, k) /\ h = <<"popped", w, k>>
                       \/ \E w \in Worker : InMap(fd, w) /\ h = <<"map", w, 1>>
  <2>2. \A h : h \in Holders(fd) <=> At1(h)
    BY <2>1, HoldersArePlaces
  <2>3. fd \in open <=> \E h : At1(h)
    BY Zenon DEF IInv, OpenIsHeld
  <2>4. ASSUME NEW h, NEW g, At1(h), At1(g) PROVE h = g
    BY <2>4 DEF IInv, Exclusive
  <2> QED BY <2>2, <2>3, <2>4
<1> QED BY <1>1, IInvariant, PTL

\* A worker registers a socket under a key that is not in its map: a connection
\* never begins with what an earlier one of that number left in its buffers.
THEOREM FreshCorrect == Spec => []FreshConnection
<1>1. IInv => FreshConnection
  <2> SUFFICES ASSUME IInv, NEW w \in Worker, worker[w].pc = "register"
               PROVE  Head(worker[w].fds) \notin connections[w]
    BY DEF FreshConnection
  <2> DEFINE s == worker[w].fds
  <2>1. s \in Seq(Fd) /\ s # <<>> /\ worker[w].fd = NoFd
    BY DEF IInv, TypeOK, HandsInv
  <2>2. Head(s) = s[1] /\ s[1] \in Fd /\ 1 \in 1 .. Len(s)
    BY <2>1
  <2>3. Popped(s[1], w, 1)
    BY <2>2 DEF Popped
  <2>4. ~InMap(s[1], w)
    BY <2>2, <2>3 DEF IInv, Exclusive
  <2> QED BY <2>1, <2>2, <2>4, HandoffAssumption DEF InMap
<1> QED BY <1>1, IInvariant, PTL
=============================================================================
