# StrikeMQ: a TLA+ verification project

StrikeMQ is a Kafka-compatible message broker in C++20. An acceptor thread hands
sockets to worker threads; workers decode Kafka requests and call handlers that
append to and read from partition logs and coordinate consumer groups; an HTTP
server offers a management interface in a thread of its own. This directory holds
TLA+ modules translated from that code, TLC configurations that check them on
small instances, and proofs that TLAPS checks for every instance.

`PROJECT.json` maps every definition to the source lines it stands for and lists
runs, mutants, findings, hazards and theorems.

## 1. The system

| part | source | state | operations | shared with |
|---|---|---|---|---|
| consumer group coordinator | `include/storage/consumer_group.h` | per group: state, generation, leader, members, protocol, committed offsets | join, sync, heartbeat (expires sessions), leave, offset commit and fetch | all workers and the HTTP thread, under one mutex |
| partition log | `include/storage/partition_log.h` | segments, next offset, sparse index | append (mutex), roll, read (no lock), construction over files | all workers and the HTTP thread |
| topic registry | `include/storage/sharded_log_map.h`, `src/main.cpp`, `src/http/http_server.cpp` | shards of a map of logs, list of topic names | get-or-create, find, erase, list | workers and the HTTP thread |
| acceptor and workers | `src/network/tcp_server.cpp` | listening socket, per worker: ring, pipe, connection map | accept, assign, drain, close, start, stop | acceptor, workers, signal handler |
| SPSC ring | `include/utils/ring_buffer.h` | two counters, two caches, slots | push, pop, batch pop | acceptor and one worker |
| connection and framing | `src/network/tcp_server.cpp`, `include/utils/circular_buffer.h` | read and write buffers | read, frame, route, queue, write | one worker |
| HTTP server | `src/http/http_server.cpp`, `include/http/http_server.h` | connections, request being read | read, parse, route, produce and peek, write, stop | HTTP thread, registry, groups, signal handler |
| Kafka codec | `src/protocol/kafka_codec.cpp`, `include/protocol/kafka_codec.h` | none | decode, route, encode | - |
| MPSC ring, memory pool | `include/utils/` | - | used by tests and the benchmark only | - |
| life cycle | `src/main.cpp` | pointers to the servers | start, signal, stop, destroy | all |

What makes it hard: a lock-free ring between acceptor and worker, and a wake-up
pipe beside it; descriptor numbers the kernel reuses; log reads without a lock
against appends and rolls; a group protocol whose broker answers every join at
once, so that several rebalances overlap; clients that crash, time out and repeat
requests over new connections; restarts over existing files; buffers of fixed
size everywhere; messages whose layout depends on a version that only their
header has; JSON and records read and written by hand; shutdown from a signal
handler.

## 2. Modules

| module | models | granularity |
|---|---|---|
| `ConsumerGroup` | `ConsumerGroupManager`, one group | one handler is one step: each holds the mutex throughout |
| `GroupClients` | the coordinator with Kafka consumers and an unreliable network | send, handle, receive, disconnect, crash |
| `PartitionLog` | `PartitionLog`, `LogSegment`, `OffsetIndex` | one step between two accesses to shared memory |
| `SPSCRing` | `SPSCRingBuffer` | one step per access to shared memory |
| `BoundedFifo` | what the ring promises: a bounded queue | one step per push or pop |
| `WorkerHandoff` | `TcpServer` and its `WorkerThread`s, epoll build | one step per system call or shared access |
| `Connection` | one connection of a worker, epoll build, with its client and the network | one step per event handler and per frame |
| `CircularBuffer` | `FixedCircularBuffer`, as functions | |
| `TopicRegistry` | `ShardedLogMap`, `known_topics` and the handlers that use them | one step per critical section |
| `HttpConnection` | one connection of `HttpServer`, epoll build, with its client and the network | one step per event handler and per outcome of `process_request` |
| `RestMessages` | POST and GET of messages: JSON, records, limits | one step per request |
| `Wire` | `BinaryReader` and `BinaryWriter` | functions |
| `KafkaProtocol` | the message formats a Kafka client uses (external) | functions |
| `KafkaCodec` | `KafkaDecoder`, `KafkaEncoder`, `RequestRouter` | one step per request |
| `Lifecycle` | `main`, `sig_handler`, start and stop of both servers | one step between two accesses to shared state |
| `GroupProofs`, `PartitionLogProofs`, `SPSCRingProofs`, `WorkerHandoffProofs`, `ConnectionProofs`, `TopicRegistryProofs`, `HttpConnectionProofs`, `LifecycleProofs` | theorems about the module each is named for; `GroupProofs` is about `ConsumerGroup` and `GroupClients`, `ConnectionProofs` also about `CircularBuffer` | |
| `MC...` | instances for TLC | |

### ConsumerGroup and GroupClients

The variables are the fields of `ConsumerGroup` and `MemberMetadata` under their
own names. Groups share nothing but the mutex, so one group is modelled. The clock
becomes `lapsed`, the set of members whose session has run out; `SessionLapses`
adds to it, a join or an accepted heartbeat takes its sender out, and
`check_session_timeouts` erases the others. Iteration over an
`unordered_map` (the vote in `choose_protocol`, the new leader after an expiry) is
a free choice. `told` is a history variable: the last generation a join reply gave
each member id. `ConsumerGroup` alone lets anybody send anything, with one
restriction, `Quotes`: the generation in force is only quoted for an id that was
told it. `GroupClients` does not need that restriction; there requests come from
consumers that follow the protocol.

In `GroupClients` a consumer has one request outstanding. A connection may break
with the request unread, processed, or still to be processed (`late`), after which
the consumer repeats the request. The share of a member in a list of members is a
function of the list, so it is represented by the list. The consumers are external
code.

The branch of `check_session_timeouts` for a group emptied by expiry is in the
model but never taken: the caller of `heartbeat` has just refreshed itself and
survives (for non-negative timeouts, the only ones clients send).

### PartitionLog

A batch is the sequence of its records' sizes, in units of the 61-byte header;
what is stored of it is its base offset, its number of records, the records that
were copied and its place. A vector that is searched while another thread pushes
to it is undefined behaviour: the lookup then returns any position. A scan that
does not begin at a batch interprets arbitrary bytes and sets `garbage`. A roll to
a segment with the same base offset would map the same file again; it needs a
segment filled by batches without records and is not modelled. Restart follows
the constructor, which starts at offset 0 with an empty segment whatever the files
hold. The segment's failure to open its file is left out.

### SPSCRing, BoundedFifo and WorkerHandoff

The counters wrap at `Laps` times the capacity instead of 2^64; both are powers of
two in the code, and all that matters is that the capacity divides the modulus.
An acquire load returns any value the other counter has had since the last load.
`WorkerHandoff` uses the queue of `BoundedFifo` in place of the ring; that
`SPSCRing` implements it is checked and proved. A push refuses only after a load
of `tail_`; the hand-off assumes that this load is current.

Of the pipe only whether it holds a byte matters. `CloseSocket` stands for all
reasons to close (end of file, error, a frame that is too large). A worker stopped
while it is in `epoll_wait` may still serve events. A worker may fail to start,
and its loop may end on an `epoll_wait` error; the acceptor goes on handing it
sockets in both cases, as in the code. The acceptor's own `epoll_wait` may fail too
(`poll_error`): it then stops the workers with `running_` still set. The io_uring and kqueue builds are not
modelled.

### Connection and CircularBuffer

Bytes are pairs of a request number and a position, so that a property can say
which request a routed frame is; the length prefix gives the length of the request
it belongs to. The client pipelines requests up to `MaxOutstanding`, may shut its
side down or vanish; the network delivers any number of bytes at a time. The
`recv` and `send` loops become two calls each, up to the end of the storage and
from its start, after which the buffer is full or empty or the socket has no more.
`process_frames` is a step per frame: nothing else of the worker runs in between,
but the client does. An event that is both readable and writable is only read, as
in the event loop. What a request asks for is in the other modules; here only the
length of its response matters, and 0 stands for requests that have none (an API
the router does not know).

### TopicRegistry

A log is the number of its construction. A mutex is held across steps only by
`get_or_create`, which waits for `topics_mu` inside the callback; all other
critical sections are single steps. The map starts empty over whatever files an
earlier run has left (`Leftover`): `leftover` says which directories still have such
files, `dir` of which logs of this run a directory has files. A log is opened over
the old files without reading them; a DELETE removes a directory with all that is in
it. `opened` and `overlapped` are history: the partitions that have had a log in this
run, and the logs constructed while a DELETE of their topic was under way.
`for_each` and `erase_if` take one shard at a time, and a DELETE goes on to the
directories and the name without a lock. The HTTP server is one thread, so that
its requests do not overlap each other. A handler that uses a reference to a
destroyed log has undefined behaviour; the model gives it no effect on the
registry.

### HttpConnection and RestMessages

Bytes are numbered as in `Connection`. What the parsers find in the text of a
request is given by its kind: whether the request line has its two spaces, the
method, the segments of the path, and whether Content-Length is missing, among the
first headers or the last one. `process_request` is one action for each of its
returns; `route_request` is the whole dispatch. The read buffer keeps a request
after it has been routed, as in the code. Closing a socket with unread bytes may
take response bytes with it that the client has not read.

`RestMessages` has one log. Text is a sequence of character codes, with one code
for each of the words that the JSON search looks for, so that a message may happen
to hold one. Records are sequences of bytes with varints of base `Radix` in place
of 128. Escapes other than quote, backslash and newline, timestamps and spaces
between JSON tokens are left out. The reader, `ReadRecord`, is a separate
definition from the writer, `Record`, as in the code.

### Wire, KafkaProtocol and KafkaCodec

A message is a sequence of tokens, each with the width it was written with; a
format is the sequence of fields of a decoder or encoder, by version. A reader has
neither names nor lengths to go by, so a read of another width, or behind the end,
is `Garbled`. `KafkaProtocol` is the client's side, as the protocol defines it for
the versions the broker offers. `KafkaCodec` is translated from the code. Byte
order, digits and characters are left out. The handlers are in other modules; here
they answer each partition of a request, in order, with values of its own.

### Lifecycle

Three threads: main (which is also the acceptor), the HTTP thread and one worker
for all. `sig_handler` runs on main between any two of its steps: the other threads
exist too, but a signal for the process that one of them takes is not modelled.
`std::signal` blocks the signal while its handler runs. A `std::thread` destroyed
before it is joined ends the process (`terminated`).

All three threads write to `std::cout`: main reports each connection (`Accept`,
`Printed`), the others print from inside a handler, where they hold a mutex of the
storage (`main.cpp:66` under a shard's and `topics_mu`, `consumer_group.h:106` under
`mu_`). A serving thread may therefore be blocked at "lock" by the other one that
prints, and at "print" by main; a signal that interrupts main at "print" leaves it
there until the handler returns. The loop of a serving thread may end on an
`epoll_wait` error (`http_error`, `worker_error`).

## 3. Runs

Passing runs:

| run | instance | shows |
|---|---|---|
| `ConsumerGroup` | 1 connection, 3 ids, 2 protocols, 4 generations | the coordinator's own invariants under any requests; a heartbeat without error means a Stable group |
| `GroupClients` | 2 consumers, 3 ids, 4 generations, 1 late request | a Stable group is assigned for its members; consumers of one generation are disjoint and own their share |
| `Log` | 2 writers, 1 reader, 4 batches, rolls, 1 restart, an index entry at every second position | every offset is stored once; a read returns consecutive whole batches |
| `SPSCRing` | capacity 4, counters modulo 8, 2 items | the ring is a bounded queue without data races |
| `Handoff` | 2 workers, 5 descriptors, 5 clients, rings of 3 and 1, drains of 2 | each open socket has exactly one holder; numbers are reused safely; no lost wake-up; a stop completes |
| `Connection` | buffers of 4, prefix of 2, 3 requests, 2 outstanding, socket of 3 | requests are routed once, whole and in order; responses arrive whole, in order, and all |
| `TopicRegistry` | 2 workers and HTTP, 2 topics of 2 partitions over 2 shards, 3 logs, files of an earlier run in 3 of 4 directories | one log per partition; a log keeps its files and its name until its topic is deleted; no name without a log; no files of a deleted log; listings are complete; no deadlock |
| `HttpConnection` | buffers of 4, 2 requests of 7 kinds, socket of 2 | a request is routed with its whole body, once if alone, and gets one whole response |
| `RestMessages` | 2 posts of up to 3 messages, radix 4, batches of 32 bytes, limits around 0, 1 and the maximum | JSON, records and limits: what is peeked at is what was posted |
| `KafkaCodec` | 13 APIs in all versions, up to 3 topics (with repetitions) of up to 2 partitions | requests are decoded as sent, records are cut where they end, responses are read as meant |
| `Lifecycle` | 2 signals, 2 connections | serving threads end before what they use; a stop ends |

One violation run, against a comment quoted in `PROJECT.json`:

| run | what the code does |
|---|---|
| `LogFetch` | a fetch from an offset inside a batch skips the batch, although its records were acknowledged |

Bounds. Three member ids are a leader, a follower and one that replaces either;
four generations are enough for a join, a rebalance during it, and a stale request
of each. `ReadIsRun` leaves out two cases the code gets wrong, a lookup that raced
an append to the index and a log of several segments (section 5); what it shows is
the lock-free protocol apart from those. `LogFetch` is kept so small, with one
writer, one segment and no index entry but that of the first batch at position 0,
where a scan without an index begins too, that nothing but the comparison of offsets
can be the cause. Counters
modulo 8 wrap after two laps of a ring of 4. `Handoff` fills both rings with a
socket in hand, so connections are dropped; one ring holds more than a drain takes,
so that sockets wait behind others, within a drain's reach and beyond it. In `Connection` frames of three and four bytes in a buffer of four
wrap, arrive in pieces and fill the buffer; one kind is larger than the buffer and
never becomes complete, which `EveryRequestAnswered` names as its one exception,
and one is beyond the frame limit and closes the connection. Two outstanding
responses of at most two bytes are what the write buffer holds; the socket takes
three, so sends are partial. In `TopicRegistry` the partitions of both topics are
in both shards, and three logs suffice to delete and create again while another
topic is created (four were checked once, in seven minutes). The kinds of `HttpConnection` are a request that fills the
buffer, one whose response takes several sends, one without a body, bodies beyond
the buffer and beyond the limit, Content-Length last, and a bad request line; a
second request covers bytes behind the first. In `RestMessages` radix 4 makes
lengths of two bytes, and 32 bytes make a batch that is full. Three topics are what
it takes for one to be listed again after another. Two signals are one during the
handling of the other's consequences; the proof is for any number. Permutations
of ids, clients, writers and workers are used as symmetry only in runs without
liveness.

Conditions. Some properties hold under a condition, written into the property; what
the code does otherwise is in section 5. They are: in `Connection` no frame larger
than the buffer that the size check lets pass; in `HttpConnection` Content-Length
not the last header, one request per connection, a request and response that fit;
in `RestMessages` no braces or key words in texts; in `KafkaCodec` Produce in
version 5 for one topic with data; in `WorkerHandoff` a socket pushed within the
reach of a drain, to a worker that serves (`Stranded`); in `TopicRegistry` a log not
constructed during a DELETE of its topic (`overlapped`); in `Lifecycle` no signal
before the acceptor's loop and, for `StopEnds`, none that interrupts main while it
prints.

Types. `ConsumerGroup`, `SPSCRing` and `Lifecycle` have a type invariant that their
runs check. For the other modules with proofs the type invariant is part of the
proof module and proved there. In the rest the comments of the variables give the
types, and no run checks them apart from the properties that relate the variables.

Fairness. `WorkerHandoff` assumes weak fairness of the acceptor thread and of each
worker: both loop without waiting for more than a millisecond, and the operating
system schedules runnable threads. Clients, signals and the closing of
connections are not fair. `Connection` assumes it of the worker as a whole (not of
reading and writing separately: the loop does not promise that), of the network,
and of a client that takes its responses; `HttpConnection` likewise. `Lifecycle`
assumes weak fairness of main and of the handler, and strong fairness of the serving
threads. Their waits have timeouts, and they serve every request to its end, but they
take mutexes that another thread takes and releases over and over; strong fairness
says that a thread is not passed over for ever when the mutex it waits for is free
again and again, as the scheduler and the mutexes of the C library do in practice.
A lock that is never released, as `std::cout`'s by an interrupted main, blocks its
waiters under this fairness too. Connections, errors and signals are not fair.
The other modules state no fairness. Deadlock checking is off for
`WorkerHandoff` and `Lifecycle`, whose process ends, for the two connections, whose
client may stop, and for `KafkaCodec`, where CreateTopics is never answered.

## 4. Proofs

Every safety property that a passing run checks is also a theorem, for every value
of the constants, except those of `RestMessages` and `KafkaCodec` (below). Each
argument has the same form: an inductive invariant, that it holds initially, that
every action keeps it, and that it implies the property. The assumptions on
constants are named in the modules that declare them and evaluated by TLC.

`GroupProofs`, for any sets of clients, ids, protocols, assignments and late
requests. The coordinator's inductive invariant is `IInv`, the conjunction of
`TypeOK`, `LeaderIsMember` and `OneHolderUntilSync`. The last is what makes it
inductive: a sync that passes the generation check must come from the one member
told the generation, so `StableByLastJoiner` follows step by step, and
`GenerationFixesMembership` needs `LeaderIsMember` to know that a join keeps a
leader that is there. `CommonProtocol` uses a lemma on `choose_protocol`.
`AliveMeansStable` is about the sweep inside a heartbeat: an expiry changes the
state, so that an answer without error means the sweep found nobody.

With consumers the invariant is `GInv`, which adds to `IInv`: a consumer's request
or reply belongs to its phase (`ExchangeInv`); a member id belongs to one consumer
(`UniqueInv`); whatever a reply, a consumer or a request, however late, says of a
generation is what the coordinator knows of it (`KnowInv`); and who holds an
assignment of the generation in force holds that of the Stable group, or is a
follower that overtook its leader (`HoldInv`). `KnowInv` is the one the others rest
on: it keeps a sync of an earlier generation that arrives late from assigning the
group by an old list of members.

`PartitionLogProofs`, for any writers, readers, batches, buffer and segment sizes and
index interval. The inductive invariant is `TypeOK` with: one writer at a time is
between lock and unlock (`MutexInv`); the batches stored and the one being stored
take consecutive offsets up to `next_offset_` (`StoredInv`); the active segment's
batches lie one behind another (`ActiveInv`); index entries point at batches
(`IndexInv`); and what each reader has loaded so far is consistent with what was
stored when it loaded it (`ReaderInv`). `ReadIsRun` is the last step of `ReaderInv`:
a reader that loaded the high watermark first, then the index, then the size, may
see a newer size but never an older one than the watermark needs.

`SPSCRingProofs`, for every capacity of at least 2, every counter range that is a
multiple of it and any items. The inductive invariant is `TypeOK /\ Positions`:
`tail_cached_`, `tail_`, `head_cached_`, `head_` follow one another round the ring
within one capacity. Lemmas on modular distance (nonlinear arithmetic) come first.
`NoSlotShared` follows from the invariant, and `RingIsFifo` maps the ring to the
items between `tail_` and `head_`: storing `head_` is the queue's push, storing
`tail_` its pop, all other steps stutter.

`WorkerHandoffProofs`, for any number of workers, descriptors and clients and any
capacities. The inductive invariant is `TypeOK` with: a thread has descriptors in
hand only where its code handles them (`HandsInv`); the workers the acceptor has
passed when it stops them have ended (`JoinInv`); no descriptor is in two places, be
it a hand, a ring or a map (`Exclusive`); and the open ones are those in some place
(`OpenIsHeld`), so that a number the kernel gives out again is in none. `Exclusive`
speaks of places one by one, where `OneHolder` counts them: a step moves a
descriptor from one place to another. Of the kernel only `NextFdAssumption` is used,
that it gives out numbers which are free; the run takes the lowest.

`ConnectionProofs`, for buffers, prefixes, frame limits and sockets of any size, any
kinds of requests and any cuts of the stream. The first part is about
`CircularBuffer`: head and tail count all bytes ever stored and taken, the p-th byte
is at position (p - 1) modulo the capacity, and `Receive`, `write`, `peek` and
`advance_tail` are described by what they do to that numbering, wrapped or not.
`ReadInv` then says that `read_buf`, the socket and the network hold consecutive
parts of the stream of requests, and that the buffer's tail is where the first
frame not yet routed begins; `FramesIntact` follows because a prefix read there is
that of the next request. `WriteInv` says the same of the stream of responses, from
the client's end to the head of `write_buf`. `RepliesCorrect` has a hypothesis: with
`R` a bound on the length of a response, `R * MaxOutstanding <= Capacity`. That is
what the comment of `RepliesWhole` calls a client with no more responses outstanding
than `write_buf` holds; without it `queue_write` cuts a response (section 5). The
run's instance satisfies it with `R` = 2. The sum of the lengths is a recursive
function; facts about all its values are proved by taking the least number at which
one fails, since the library's induction theorem cannot be used.

`TopicRegistryProofs`, for any workers, topics, partitions, shards and logs and any
placement of partitions in shards, and over any files of an earlier run. The
inductive invariant is `TypeOK` with: who holds which shard's mutex (`ThreadsInv`);
which logs are live (`LogsInv`, `NewIsLogged`); what a listed name implies
(`NamesInv`); whose files a directory holds (`FilesInv`); how far a scan has come
(`ScanInv`); and that while a DELETE removes files and name, the logs of its topic
that are in the map were constructed during it (`KeptInv`), which is why it takes
nothing from the others. That `remove` keeps all names but one is a lemma, proved by
the least length at which it fails. The mutex held across
the callback is what makes it work: a log that is in the map and not yet announced
keeps its shard locked, so that a DELETE cannot pass it.

`HttpConnectionProofs`, for buffers and sockets of any size, any kinds of requests
and any cuts of the stream. `ReadInv`: while the connection is open, what is in
`read_buf` and what is to come are the stream the client sent; as nothing is taken
out of the buffer, it begins with the first request, and `RoutedWhole` follows.
`OnceInv`: a lone request that has been routed is all that `read_buf` holds, and the
server waits, so that only bytes or an end of stream that do not come, or that close
the connection, could lead to `process_request` again. `WriteInv`: nothing has been
answered yet, or `write_buf` got the whole response at once and what has been taken
out of it is what was sent.

`LifecycleProofs`, for any number of signals and connections. The inductive invariant `IInv` is
`TypeOK` with three facts. `WorkerEnds`: main gets past `run` only with the worker
joined. `LiveIsJoinable`: an HTTP thread that runs is still to be joined.
`OneJoins`: unless a signal came early, whoever clears the flag of the HTTP server,
main or the handler, is the one that joins, so that a thread to be joined whose
flag is clear is being joined. `ThreadsEndFirst` alone is not inductive: it says
nothing of the time before main begins to destroy.

Model-checked only:

- Liveness, which is out of the prover's reach: `HandedOver` and `StopCompletes` of
  `WorkerHandoff`, `EveryRequestAnswered` of `Connection` and of `HttpConnection`,
  `StopEnds` of `Lifecycle`.
- `KafkaCodec`. Its reader and writer are recursive operators, which the prover does
  not accept.
- `RestMessages`. What its parsers and encoders compute for every text is an
  induction over the text for each of a dozen recursive functions, with searches
  nested inside one another.

## 5. Seen in the code, and not modelled

Behaviour that differs from a document or from what one would expect. Where a
condition of section 3 leaves such a behaviour out of a property, the model still
has it.

Log:

- After a restart a log begins at offset 0 with an empty segment over the existing
  file, so that acknowledged records are gone (`partition_log.h:111`; `README.md:211`
  says that Produce "persists to disk"). `AckedIsServed` with one restart shows it.
- A read searches the index while an append may reallocate it
  (`partition_log.h:144`; `docs/ARCHITECTURE.md:194` calls `read` lock-free).
- After a roll only the active segment is read (`partition_log.h:145`), while
  `start_offset` still reports the base of the first one.
- Records beyond the 64KB serialization buffer are counted and acknowledged but not
  stored (`partition_log.h:238`).
- Segments roll when a batch does not fit (`partition_log.h:128`), not at 95% as
  `docs/ARCHITECTURE.md:191` says; `is_full` is not called.

Groups:

- A join goes straight to CompletingRebalance (`consumer_group.h:187`), while
  `docs/ARCHITECTURE.md:198` shows PreparingRebalance in between.
- During a rebalance a heartbeat is answered 22 before 27 can be considered
  (`consumer_group.h:274`); `docs/ARCHITECTURE.md:201` names 27 as the signal.
- There is no barrier for joins. Two consumers that join in turn keep starting
  generations, and a member that vanished is only removed by another's accepted
  heartbeat (`consumer_group.h:278`). Hence no fairness of the clients makes a group
  Stable, and there is no liveness property of `GroupClients`.
- A member of a Stable group that joins again with other protocols replaces its list
  without a new choice (`consumer_group.h:127`), so that the group's protocol may be
  one it no longer lists; `CommonProtocol` speaks of a rebalance being completed.

Kafka connections and codec:

- A drain takes 64 sockets and all wake-up bytes; those behind them wait for the next
  connection to the same worker (`tcp_server.cpp:102`; `docs/ARCHITECTURE.md:81`).
- A frame above 128KB and below `kMaxFrameSize` never completes, keeps its worker
  busy, and holds back the responses of earlier requests (`tcp_server.cpp:220`;
  `docs/ARCHITECTURE.md:100`).
- `queue_write` drops what does not fit the write buffer (`tcp_server.h:45`): with
  more than 128KB of responses outstanding, a response is cut and the client loses
  the framing of the following ones.
- The end of a stream closes the connection before the frames received with it are
  processed (`tcp_server.cpp:193`).
- The response to Produce has the layout of version 5 in every version, and puts
  all partitions under the first topic (`kafka_codec.cpp:218`), while
  `docs/blogpost.md:147` calls the encoder version-aware. `acks` is not looked at: a
  request with acks 0 is answered too.
- CreateTopics is offered (`kafka_codec.cpp:366`) and has no handler: it is never
  answered.
- A Metadata request with an empty list of topics is answered with all of them
  (`main.cpp:144`), while the comment at `kafka_codec.cpp:637` says that 0 "means
  none": the handler gets the same empty vector for 0 and for -1.
- A null list of topics in OffsetFetch (all partitions, from version 2 on) is decoded
  as an empty one.

HTTP:

- The last header is not parsed (`http_server.cpp:96`). If it is Content-Length, the
  handler is called without the body (`docs/ARCHITECTURE.md:230`).
- A routed request stays in the read buffer (`http_server.cpp:438`); bytes that
  follow it make the server route it again. The same happens when a request fills
  the buffer exactly and the client shuts its side down.
- A body that fits `kMaxBodySize` but not the 128KB buffer is never answered
  (`http_server.cpp:430`; `docs/ARCHITECTURE.md:264`), and a response above 128KB is
  cut.
- The JSON search counts braces and finds key words inside strings
  (`http_server.cpp:856`, `:906`), so that messages with such texts are changed or
  lost.
- The peek does not skip the headers of records (`http_server.cpp:828`): after a
  record with headers, as a Kafka client may send, the following ones are misread.
- A DELETE destroys a log another thread may be using (`http_server.cpp:668`), and
  removes the files (`:685`) and the name (`:690`) of a topic created again
  during it. `KeptUntilDeleted` without its first disjunct shows the second.
- After a restart the map is empty (`main.cpp:52`). A DELETE of a topic that has not
  been opened since answers 404 and leaves its files (`http_server.cpp:672`), and one
  of a topic of which some partitions have been opened removes the directories of
  those only; `docs/PRODUCT.md:152` says "Delete a topic and all its data from disk".
  In the model `NothingErased` leaves such files, and `NoOrphanFiles` speaks of the
  partitions opened in this run.

Life cycle:

- `sig_handler` joins the HTTP thread. If it interrupts main inside `std::cout`
  (`tcp_server.cpp:676`), main keeps the lock of the stream; an HTTP thread that needs
  it (`main.cpp:66`), or a mutex of a worker that does (`consumer_group.h:106`), never
  ends, the join never returns (`http_server.cpp:203`) and the process hangs;
  `docs/PRODUCT.md:311` promises a "graceful shutdown". `StopEnds` with
  `main \in {"loop", "print"}` in its premise shows it.
- A signal before the acceptor's loop is overwritten by `run` (`tcp_server.cpp:578`).
  One between the flag and the thread of `HttpServer::start` clears the flag, so that
  nobody joins the thread and its destructor ends the process
  (`http_server.cpp:196`).
- The global pointers are never cleared; a signal after `main` has destroyed the
  servers uses them still (`main.cpp:20`).
- Sockets left in a ring at shutdown are not closed (`tcp_server.cpp:35`).

Not modelled:

- io_uring and kqueue loops: other builds of the modelled loops.
- Numbers in headers and query strings that cannot be converted, and the decoding
  of escapes in a URL.
- The listings of the HTTP server (`list_groups`, `get_group`, broker information):
  they change nothing; `TopicRegistry` has those that read the registry.
- Mapping of files into memory and its failures; `sync`.
- `types.h`, `endian.h`: plain data. `broker.cpp`, `dpdk_engine.cpp`: empty.
- Memory pool, MPSC ring: tests and the benchmark use them, the broker does not.

## 6. Plan

1. Proofs for `RestMessages`, beginning with what `read_varint` returns after
   `write_varint`, and `Unquote` after `write_string`.
2. The abstract log (a sequence of acknowledged records) as a specification that
   `PartitionLog` implements for one segment, and `RestMessages` on top of it.
3. The io_uring loop, whose completions arrive out of order.
