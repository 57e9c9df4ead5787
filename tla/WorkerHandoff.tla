---------------------------- MODULE WorkerHandoff ----------------------------
(***************************************************************************)
(* The acceptor (TcpServer) and its WorkerThreads                          *)
(* (src/network/tcp_server.cpp, the epoll build): how an accepted socket   *)
(* reaches the event loop of exactly one worker, and how the server starts *)
(* and stops.                                                              *)
(*                                                                         *)
(* Each worker has a ring new_fds_ the acceptor pushes to and a pipe it    *)
(* writes to; the ring is the queue of BoundedFifo, which SPSCRing         *)
(* implements.  Sockets are file descriptor numbers, which the kernel      *)
(* hands out again once they are closed.  Of a pipe only whether it holds  *)
(* a byte matters: epoll is level triggered.  What a worker does for a     *)
(* registered connection is left out but for closing it.                   *)
(***************************************************************************)
EXTENDS Integers, Sequences

CONSTANTS
  N,             \* num_workers_
  Fd, NoFd,      \* descriptor numbers the process may have open, and none
  NextFd(_),     \* the free numbers the kernel chooses from
  Capacity,      \* capacity of new_fds_ of each worker (1024)
  Limit,         \* sockets taken from the ring at a time (64)
  MaxClients     \* bound on the number of clients that connect

Worker == 0 .. N - 1

ASSUME HandoffAssumption ==
  /\ N \in Nat \ {0} /\ Capacity \in [Worker -> Nat \ {0}] /\ Limit \in Nat \ {0}
  /\ MaxClients \in Nat /\ NoFd \notin Fd

ASSUME NextFdAssumption == \A free \in SUBSET Fd : NextFd(free) \subseteq free

VARIABLES
  running,          \* TcpServer::running_
  acc,              \* the acceptor: where it is, the socket in hand, attempt or loop index
  next_worker,      \* next_worker_
  accepted,         \* number of clients accepted
  open,             \* the descriptors that are open
  worker_running,   \* WorkerThread::running_
  worker,           \* each worker: where it is, the popped fds, the fd being closed
  ring, pipe,       \* new_fds_, and whether wakeup_pipe_ holds a byte
  connections       \* the keys of connections_

vars == <<running, acc, next_worker, accepted, open, worker_running, worker,
          ring, pipe, connections>>

Idle(pc) == [pc |-> pc, fds |-> <<>>, fd |-> NoFd]

Init ==
  /\ running = FALSE
  /\ acc = [pc |-> "start", fd |-> NoFd, i |-> 0]
  /\ next_worker = 0
  /\ accepted = 0
  /\ open = {}
  /\ worker_running = [w \in Worker |-> FALSE]
  /\ worker = [w \in Worker |-> Idle("off")]
  /\ ring = [w \in Worker |-> <<>>]
  /\ pipe = [w \in Worker |-> FALSE]
  /\ connections = [w \in Worker |-> {}]

-----------------------------------------------------------------------------
(***************************************************************************)
(* The acceptor                                                            *)
(***************************************************************************)

At(pc) == acc.pc = pc
GoTo(pc) == acc' = [acc EXCEPT !.pc = pc]

\* run() starts the workers one by one ...
start ==
  /\ At("start") /\ acc.i < N
  /\ worker_running' = [worker_running EXCEPT ![acc.i] = TRUE]
  /\ worker' = [worker EXCEPT ![acc.i] = Idle("wait")]
  /\ acc' = [acc EXCEPT !.i = @ + 1]
  /\ UNCHANGED <<running, next_worker, accepted, open, ring, pipe, connections>>

\* pipe() or epoll_create1() fails: start() returns, the worker has no thread,
\* and it stays in workers_ all the same.
start_fails ==
  /\ At("start") /\ acc.i < N
  /\ acc' = [acc EXCEPT !.i = @ + 1]
  /\ UNCHANGED <<running, next_worker, accepted, open, worker_running, worker, ring,
                 pipe, connections>>

\* ... and then sets running_ and enters its loop.
Serve ==
  /\ At("start") /\ acc.i = N
  /\ running' = TRUE
  /\ GoTo("poll")
  /\ UNCHANGED <<next_worker, accepted, open, worker_running, worker, ring, pipe,
                 connections>>

\* epoll_wait reports the listening socket, or running_ is found false.
Poll ==
  /\ At("poll")
  /\ \/ running /\ GoTo("accept")
     \/ ~running /\ acc' = [acc EXCEPT !.pc = "stop", !.i = 0]
  /\ UNCHANGED <<running, next_worker, accepted, open, worker_running, worker, ring,
                 pipe, connections>>

\* epoll_wait fails with another error than EINTR: run() leaves its loop and
\* stops the workers, with running_ as it was.
poll_error ==
  /\ At("poll") /\ running
  /\ acc' = [acc EXCEPT !.pc = "stop", !.i = 0]
  /\ UNCHANGED <<running, next_worker, accepted, open, worker_running, worker, ring,
                 pipe, connections>>

Accept(fd) ==
  /\ At("accept") /\ accepted < MaxClients /\ fd \in NextFd(Fd \ open)
  /\ accepted' = accepted + 1
  /\ open' = open \cup {fd}
  /\ acc' = [pc |-> "assign", fd |-> fd, i |-> 0]
  /\ UNCHANGED <<running, next_worker, worker_running, worker, ring, pipe, connections>>

\* accept() fails: nobody is waiting just now, the client has gone, or the process
\* is out of descriptors.
AcceptFails ==
  /\ At("accept")
  /\ GoTo("poll")
  /\ UNCHANGED <<running, next_worker, accepted, open, worker_running, worker, ring,
                 pipe, connections>>

Candidate == (next_worker + acc.i) % N

HasRoom(w) == Len(ring[w]) < Capacity[w]

Push ==
  /\ At("assign") /\ HasRoom(Candidate)
  /\ ring' = [ring EXCEPT ![Candidate] = Append(@, acc.fd)]
  /\ GoTo("notify")
  /\ UNCHANGED <<running, next_worker, accepted, open, worker_running, worker, pipe,
                 connections>>

Notify ==
  /\ At("notify")
  /\ pipe' = [pipe EXCEPT ![Candidate] = TRUE]
  /\ next_worker' = (Candidate + 1) % N
  /\ acc' = [pc |-> "accept", fd |-> NoFd, i |-> 0]
  /\ UNCHANGED <<running, accepted, open, worker_running, worker, ring, connections>>

\* Mutant of assign_connection: the byte is written before the push.
WakeThenPush ==
  \/ /\ At("assign") /\ HasRoom(Candidate) /\ GoTo("notify")
     /\ pipe' = [pipe EXCEPT ![Candidate] = TRUE]
     /\ UNCHANGED <<running, next_worker, accepted, open, worker_running, worker, ring,
                    connections>>
  \/ /\ At("notify") /\ acc' = [pc |-> "accept", fd |-> NoFd, i |-> 0]
     /\ ring' = [ring EXCEPT ![Candidate] = Append(@, acc.fd)]
     /\ next_worker' = (Candidate + 1) % N
     /\ UNCHANGED <<running, accepted, open, worker_running, worker, pipe, connections>>

\* The push, and after it the byte in the pipe.
assign_connection == Push \/ Notify

\* Mutant of RingFull: a dropped connection is not closed.
DropWithoutClose ==
  /\ At("assign") /\ ~HasRoom(Candidate)
  /\ \/ acc.i + 1 < N /\ acc' = [acc EXCEPT !.i = @ + 1]
     \/ acc.i + 1 = N /\ acc' = [pc |-> "accept", fd |-> NoFd, i |-> 0]
  /\ UNCHANGED <<running, next_worker, accepted, open, worker_running, worker, ring,
                 pipe, connections>>

\* This ring is full: try the next worker, or drop the connection.  try_push
\* loads tail_ before it refuses; the load is taken to return the latest value.
RingFull ==
  /\ At("assign") /\ ~HasRoom(Candidate)
  /\ \/ /\ acc.i + 1 < N
        /\ acc' = [acc EXCEPT !.i = @ + 1]
        /\ UNCHANGED open
     \/ /\ acc.i + 1 = N
        /\ open' = open \ {acc.fd}
        /\ acc' = [pc |-> "accept", fd |-> NoFd, i |-> 0]
  /\ UNCHANGED <<running, next_worker, accepted, worker_running, worker, ring, pipe,
                 connections>>

\* Mutant of StopWorker: the flag is not cleared.
StopOnlyWakes ==
  /\ At("stop") /\ acc.i < N /\ worker_running[acc.i]
  /\ pipe' = [pipe EXCEPT ![acc.i] = TRUE]
  /\ GoTo("join")
  /\ UNCHANGED <<running, next_worker, accepted, open, worker_running, worker, ring,
                 connections>>

\* WorkerThread::stop, worker by worker: clear its flag and wake it, join it.
StopWorker ==
  /\ At("stop") /\ acc.i < N /\ worker_running[acc.i]
  /\ worker_running' = [worker_running EXCEPT ![acc.i] = FALSE]
  /\ pipe' = [pipe EXCEPT ![acc.i] = TRUE]
  /\ GoTo("join")
  /\ UNCHANGED <<running, next_worker, accepted, open, worker, ring, connections>>

JoinWorker ==
  /\ At("join") /\ worker[acc.i].pc = "exited"
  /\ acc' = [acc EXCEPT !.pc = "stop", !.i = @ + 1]
  /\ UNCHANGED <<running, next_worker, accepted, open, worker_running, worker, ring,
                 pipe, connections>>

\* A worker that was not started is not waited for.
SkipWorker ==
  /\ At("stop") /\ acc.i < N /\ ~worker_running[acc.i]
  /\ acc' = [acc EXCEPT !.i = @ + 1]
  /\ UNCHANGED <<running, next_worker, accepted, open, worker_running, worker, ring,
                 pipe, connections>>

\* workers_.clear(): the destructors close what is in connections_, and not the
\* sockets that are still in a ring; ring keeps those.
ClearWorkers ==
  /\ At("stop") /\ acc.i = N
  /\ open' = open \ UNION {connections[w] : w \in Worker}
  /\ connections' = [w \in Worker |-> {}]
  /\ pipe' = [w \in Worker |-> FALSE]
  /\ GoTo("done")
  /\ UNCHANGED <<running, next_worker, accepted, worker_running, worker, ring>>

-----------------------------------------------------------------------------
(***************************************************************************)
(* A worker                                                                *)
(***************************************************************************)

In(w, pc) == worker[w].pc = pc
WorkerSame == <<running, acc, next_worker, accepted, worker_running>>

\* The event loop: running_ is found false, or the pipe is readable.  A worker
\* that is stopped inside epoll_wait still serves the events that returns.
Wake(w) ==
  /\ In(w, "wait")
  /\ \/ pipe[w] /\ worker' = [worker EXCEPT ![w].pc = "drain"]
     \/ ~worker_running[w] /\ worker' = [worker EXCEPT ![w].pc = "exited"]
  /\ UNCHANGED <<WorkerSame, open, ring, pipe, connections>>

\* epoll_wait fails with another error than EINTR: the worker's thread ends.
epoll_error(w) ==
  /\ In(w, "wait")
  /\ worker' = [worker EXCEPT ![w].pc = "exited"]
  /\ UNCHANGED <<WorkerSame, open, ring, pipe, connections>>

\* drain_new_connections empties the pipe, then pops, then registers.
DrainPipe(w) ==
  /\ In(w, "drain")
  /\ pipe' = [pipe EXCEPT ![w] = FALSE]
  /\ worker' = [worker EXCEPT ![w].pc = "pop"]
  /\ UNCHANGED <<WorkerSame, open, ring, connections>>

PopBatch(w) ==
  LET count == IF Len(ring[w]) < Limit THEN Len(ring[w]) ELSE Limit
  IN  /\ In(w, "pop")
      /\ worker' = [worker EXCEPT ![w].pc = IF count = 0 THEN "wait" ELSE "register",
                                  ![w].fds = SubSeq(ring[w], 1, count)]
      /\ ring' = [ring EXCEPT ![w] = SubSeq(@, count + 1, Len(@))]
      /\ UNCHANGED <<WorkerSame, open, pipe, connections>>

\* emplace keeps an entry that is already there.
Register(w) ==
  /\ In(w, "register")
  /\ connections' = [connections EXCEPT ![w] = @ \cup {Head(worker[w].fds)}]
  /\ worker' = [worker EXCEPT ![w].pc = IF Len(worker[w].fds) = 1 THEN "wait" ELSE "register",
                              ![w].fds = Tail(@)]
  /\ UNCHANGED <<WorkerSame, open, ring, pipe>>

\* close_connection: the descriptor is closed first, the entry erased after.
CloseSocket(w, fd) ==
  /\ In(w, "wait") /\ fd \in connections[w]
  /\ open' = open \ {fd}
  /\ worker' = [worker EXCEPT ![w].pc = "erase", ![w].fd = fd]
  /\ UNCHANGED <<WorkerSame, ring, pipe, connections>>

\* Mutant of EraseConnection: the entry stays.
KeepConnection(w) ==
  /\ In(w, "erase")
  /\ worker' = [worker EXCEPT ![w] = Idle("wait")]
  /\ UNCHANGED <<WorkerSame, open, ring, pipe, connections>>

EraseConnection(w) ==
  /\ In(w, "erase")
  /\ connections' = [connections EXCEPT ![w] = @ \ {worker[w].fd}]
  /\ worker' = [worker EXCEPT ![w] = Idle("wait")]
  /\ UNCHANGED <<WorkerSame, open, ring, pipe>>

-----------------------------------------------------------------------------
\* The signal handler calls TcpServer::stop.  Before run() has set running_, and
\* when it is clear already, that changes nothing.
sig_handler ==
  /\ running
  /\ running' = FALSE
  /\ UNCHANGED <<acc, next_worker, accepted, open, worker_running, worker, ring, pipe, connections>>

AcceptorStep ==
  \/ start \/ start_fails \/ Serve \/ Poll \/ (\E fd \in Fd : Accept(fd)) \/ AcceptFails
  \/ assign_connection \/ RingFull \/ StopWorker \/ SkipWorker \/ JoinWorker
  \/ ClearWorkers

WorkerStep(w) == Wake(w) \/ DrainPipe(w) \/ PopBatch(w) \/ Register(w) \/ EraseConnection(w)

Next ==
  \/ AcceptorStep
  \/ \E w \in Worker : WorkerStep(w) \/ epoll_error(w) \/ (\E fd \in Fd : CloseSocket(w, fd))
  \/ poll_error \/ sig_handler

\* Every thread that can run is scheduled.
Fairness == WF_vars(AcceptorStep) /\ \A w \in Worker : WF_vars(WorkerStep(w))

Spec == Init /\ [][Next]_vars /\ Fairness

-----------------------------------------------------------------------------
(***************************************************************************)
(* Properties                                                              *)
(***************************************************************************)

\* Where a descriptor is kept: in the acceptor's hand, in a ring, among those a
\* worker has just popped, or in a worker's connections_ (unless it has been
\* closed and is about to be erased).
InHand(fd) == At("assign") /\ acc.fd = fd
HandPlaces(fd) == {h \in {<<"hand", 0, 1>>} : InHand(fd)}
RingPlaces(fd) ==
  UNION {{<<"ring", w, k>> : k \in {k \in DOMAIN ring[w] : ring[w][k] = fd}} : w \in Worker}
PoppedPlaces(fd) ==
  UNION {{<<"popped", w, k>> : k \in {k \in DOMAIN worker[w].fds : worker[w].fds[k] = fd}} : w \in Worker}
MapPlaces(fd) == {<<"map", w, 1>> : w \in {w \in Worker : fd \in connections[w] /\ worker[w].fd # fd}}

Holders(fd) == HandPlaces(fd) \cup RingPlaces(fd) \cup PoppedPlaces(fd) \cup MapPlaces(fd)

\* Every open socket is in the hands of exactly one thread at one place, and
\* nobody holds a closed one: no socket leaks between accept and registration,
\* none is served by two workers, even when the kernel hands a number out again.
\* Once the server has stopped, the sockets it leaves open are those no worker
\* had taken from its ring: each registered one has been closed.
OneHolder ==
  \A fd \in Fd : /\ fd \in open <=> Holders(fd) # {}
                 /\ \A h, k \in Holders(fd) : h = k

\* A socket is registered under a key that is not in connections_ yet, so a
\* connection never begins with the buffers of an earlier one of that number.
FreshConnection ==
  \A w \in Worker : worker[w].pc = "register" => Head(worker[w].fds) \notin connections[w]

\* The worker has a thread in its event loop that nobody has told to stop.
Serving(w) == worker_running[w] /\ worker[w].pc \notin {"off", "exited"}

\* The socket is in the ring of a worker that does not serve, or entered its
\* ring behind as many others as the worker takes at a time.
Stranded(fd) ==
  \E w \in Worker : \E k \in DOMAIN ring[w] : ring[w][k] = fd /\ (~Serving(w) \/ k > Limit)

\* A socket the acceptor has in hand is eventually registered by a worker, or
\* closed because all rings are full: no wake-up is lost, however push, byte,
\* drain and pop interleave (docs/ARCHITECTURE.md, line 81: "acceptor writes a
\* byte to the pipe after pushing an fd to the ring buffer, worker drains the
\* pipe and registers new fds with its event loop").  It is not promised of a
\* stranded one: the worker empties the pipe and takes Limit sockets, and does
\* not come back for the rest until another one is pushed.
HandedOver ==
  \A fd \in Fd : InHand(fd) ~> (fd \notin open \/ MapPlaces(fd) # {} \/ Stranded(fd))

\* Once the acceptor has left its loop, or is to leave it because of a stop, every
\* worker is joined and destroyed, those that did not start or whose loop has
\* failed included.
StopCompletes ==
  (At("stop") \/ (acc.pc \in {"poll", "accept", "assign", "notify"} /\ ~running)) ~> At("done")
=============================================================================
