---------------------------- MODULE TopicRegistry ----------------------------
(***************************************************************************)
(* Which partition logs exist: ShardedLogMap                               *)
(* (include/storage/sharded_log_map.h), the list known_topics and          *)
(* get_or_create_log of src/main.cpp, and the handlers of the Kafka        *)
(* workers and of the HTTP server's thread that create, look up, list and  *)
(* delete topics.                                                          *)
(*                                                                         *)
(* A log object is a number, the order of its construction.  A step is     *)
(* what a thread does between two points where another can intervene: a    *)
(* critical section of a shard is one step but for get_or_create, which    *)
(* keeps the shard's mutex while it waits for topics_mu; a critical        *)
(* section of topics_mu is always one step.                                *)
(*                                                                         *)
(* The broker starts with no log and no name, whatever earlier runs have   *)
(* left in the data directory; a log is constructed over what it finds     *)
(* there, and keeps the segment files it does not write itself.            *)
(***************************************************************************)
EXTENDS Naturals, Sequences

CONSTANTS
  Worker, Http,        \* the Kafka worker threads, and the thread of the HTTP server
  Topic, Partition,    \* topic names and partition numbers, 0 among them
  NumShards, ShardOf,  \* number of shards, and the shard of each topic-partition
  Nobody, NoTopic,
  Leftover,            \* the topic-partitions whose directory has files of an earlier run
  MaxLogs              \* bound on the logs constructed

TP == Topic \X Partition
Shards == 1 .. NumShards
Thread == Worker \cup {Http}
NoLog == 0

ASSUME RegistryAssumption ==
  /\ 0 \in Partition /\ NumShards \in Nat \ {0} /\ ShardOf \in [TP -> Shards]
  /\ NoTopic \notin Topic /\ Leftover \subseteq TP
  /\ Http \notin Worker /\ Nobody \notin Thread /\ MaxLogs \in Nat

VARIABLES
  mu,            \* the holder of each shard's mutex
  logs,          \* the log in the map of its shard for each topic-partition
  alive,         \* the log objects that have not been destroyed
  created,       \* the number of logs constructed so far
  dir,           \* the logs of this run whose files are in the directory of a topic-partition
  leftover,      \* the topic-partitions whose directory has files of an earlier run
  known_topics,
  t,             \* each thread: where it is, its topic-partition, its log reference and
                 \* whether it goes on to use the log
  http,          \* the for_each or erase_if of the HTTP thread
  opened,        \* history: the topic-partitions that have had a log
  overlapped     \* history: the logs constructed while a DELETE of their topic was under way

disk == <<dir, leftover>>
history == <<opened, overlapped>>
vars == <<mu, logs, alive, created, disk, known_topics, t, http, history>>

Idle == [pc |-> "idle", tp |-> <<>>, log |-> NoLog, use |-> FALSE]
NoScan == [topic |-> NoTopic, shard |-> 0, found |-> {}, before |-> {}]

Existing == {tp \in TP : logs[tp] # NoLog}

Init ==
  /\ mu = [s \in Shards |-> Nobody]
  /\ logs = [tp \in TP |-> NoLog]
  /\ dir = [tp \in TP |-> {}] /\ leftover = Leftover
  /\ alive = {} /\ created = 0
  /\ known_topics = <<>>
  /\ t = [th \in Thread |-> Idle]
  /\ http = NoScan
  /\ opened = {} /\ overlapped = {}

-----------------------------------------------------------------------------
HttpAt(pc) == t[Http].pc = pc
HttpTo(pc) == t' = [t EXCEPT ![Http] = [Idle EXCEPT !.pc = pc]]

\* A DELETE of the topic has begun and has not removed its name yet.
BeingDeleted(topic) ==
  http.topic = topic /\ (HttpAt("erase") \/ HttpAt("files") \/ HttpAt("name"))

-----------------------------------------------------------------------------
\* Produce and Metadata requests, and POST of messages.  use says whether the
\* handler appends to the log; metadata only makes it exist.

Refer(tp, log, use) == IF use THEN [pc |-> "use", tp |-> tp, log |-> log, use |-> TRUE] ELSE Idle

Found(th, tp, use) ==
  /\ logs[tp] # NoLog
  /\ t' = [t EXCEPT ![th] = Refer(tp, logs[tp], use)]
  /\ UNCHANGED <<mu, logs, alive, created, dir, history>>

NewLog(th, tp, use) ==
  /\ created < MaxLogs
  /\ created' = created + 1
  /\ alive' = alive \cup {created'}
  /\ dir' = [dir EXCEPT ![tp] = @ \cup {created'}]
  /\ opened' = opened \cup {tp}
  /\ overlapped' = IF BeingDeleted(tp[1]) THEN overlapped \cup {created'} ELSE overlapped
  /\ logs' = [logs EXCEPT ![tp] = created']
  /\ t' = [t EXCEPT ![th] = [pc |-> "new", tp |-> tp, log |-> created', use |-> use]]

\* As Construct, but the shard's mutex is released before the callback.
ConstructAndUnlock(th, tp, use) ==
  logs[tp] = NoLog /\ NewLog(th, tp, use) /\ UNCHANGED mu

\* As Construct, but the log is constructed on what an earlier search has said.
ConstructUnchecked(th, tp, use) ==
  NewLog(th, tp, use) /\ mu' = [mu EXCEPT ![ShardOf[tp]] = th]

\* The new log is in the map before its name is announced; the mutex is kept.
Construct(th, tp, use) ==
  logs[tp] = NoLog /\ NewLog(th, tp, use) /\ mu' = [mu EXCEPT ![ShardOf[tp]] = th]

get_or_create(th, tp, use) ==
  /\ t[th].pc = "idle"
  /\ mu[ShardOf[tp]] = Nobody
  /\ Found(th, tp, use) \/ Construct(th, tp, use)
  /\ UNCHANGED <<leftover, known_topics, http>>

Names == {known_topics[i] : i \in 1 .. Len(known_topics)}

AddName(topic) ==
  known_topics' = IF topic \in Names THEN known_topics ELSE Append(known_topics, topic)

\* The lock_guard of get_or_create goes out of scope.
Unlock(tp) == mu' = [mu EXCEPT ![ShardOf[tp]] = Nobody]

\* The callback of get_or_create_log, under topics_mu, and the return.
on_new_topic(th) ==
  /\ t[th].pc = "new"
  /\ AddName(t[th].tp[1])
  /\ Unlock(t[th].tp)
  /\ t' = [t EXCEPT ![th] = Refer(@.tp, @.log, @.use)]
  /\ UNCHANGED <<logs, alive, created, disk, http, history>>

produce(th) == \E tp \in TP : get_or_create(th, tp, TRUE)
metadata(th) == \E topic \in Topic : get_or_create(th, <<topic, 0>>, FALSE)
handle_post_messages == \E tp \in TP : get_or_create(Http, tp, TRUE)

\* For an unknown partition the handlers answer with an error and change nothing.
find(th, tp) ==
  /\ t[th].pc = "idle"
  /\ mu[ShardOf[tp]] = Nobody
  /\ logs[tp] # NoLog
  /\ t' = [t EXCEPT ![th] = Refer(tp, logs[tp], TRUE)]
  /\ UNCHANGED <<mu, logs, alive, created, disk, known_topics, http, history>>

list_offsets(th) == \E tp \in TP : find(th, tp)
fetch(th) == \E tp \in TP : find(th, tp)
handle_get_messages == \E tp \in TP : find(Http, tp)

\* append or read through the reference, under no lock of the map: what it does
\* to the log is PartitionLog's.  A log that has been destroyed in the meantime
\* is no longer memory of the program, and the outcome is undefined; the
\* registry's own state is in other memory and taken to stay as it is.
Use(th) ==
  /\ t[th].pc = "use"
  /\ t' = [t EXCEPT ![th] = Idle]
  /\ UNCHANGED <<mu, logs, alive, created, disk, known_topics, http, history>>

-----------------------------------------------------------------------------
\* The HTTP thread handles one request at a time: the scan of the shards for
\* GET of all topics or of one, and the three phases of DELETE.

\* The topic-partitions a scan is about: those of a topic, or all.
Of(topic) == {tp \in Existing : topic \in {tp[1], NoTopic}}

StartScan(pc, topic) ==
  /\ HttpAt("idle") /\ HttpTo(pc)
  /\ http' = [topic |-> topic, shard |-> 1, found |-> {}, before |-> Of(topic)]
  /\ UNCHANGED <<mu, logs, alive, created, disk, known_topics, history>>

handle_get_topics == StartScan("list", NoTopic)
handle_get_topic == \E topic \in Topic : StartScan("list", topic)
handle_delete_topic == \E topic \in Topic : StartScan("erase", topic)

InShard == {tp \in Of(http.topic) : ShardOf[tp] = http.shard}

\* The next shard's logs are added to those found; after the last shard the
\* thread goes on at done.
ScanShard(found, done) ==
  /\ mu[http.shard] = Nobody
  /\ http' = [http EXCEPT !.found = @ \cup found, !.shard = @ + 1]
  /\ IF http.shard = NumShards THEN HttpTo(done) ELSE UNCHANGED t

\* As for_each, but it stops when it has found some log.
ForEachUntilFound ==
  /\ HttpAt("list")
  /\ ScanShard(IF http.found = {} THEN InShard ELSE {}, "listed")
  /\ UNCHANGED <<mu, logs, alive, created, disk, known_topics, history>>

for_each ==
  /\ HttpAt("list")
  /\ ScanShard(InShard, "listed")
  /\ UNCHANGED <<mu, logs, alive, created, disk, known_topics, history>>

RespondTopics ==
  /\ HttpAt("listed") /\ HttpTo("idle")
  /\ http' = NoScan
  /\ UNCHANGED <<mu, logs, alive, created, disk, known_topics, history>>

\* Erasing a log from the map destroys it.
erase_if ==
  /\ HttpAt("erase")
  /\ ScanShard(InShard, "files")
  /\ logs' = [tp \in TP |-> IF tp \in InShard THEN NoLog ELSE logs[tp]]
  /\ alive' = alive \ {logs[tp] : tp \in InShard}
  /\ UNCHANGED <<mu, created, disk, known_topics, history>>

\* Response 404.
NothingErased ==
  /\ HttpAt("files") /\ http.found = {}
  /\ HttpTo("idle") /\ http' = NoScan
  /\ UNCHANGED <<mu, logs, alive, created, disk, known_topics, history>>

\* remove_all of a directory.
remove_all(tp) ==
  dir' = [dir EXCEPT ![tp] = {}] /\ leftover' = leftover \ {tp}

\* Mutant of RemoveFiles: only one of the directories is removed.
RemoveFilesOnce ==
  \E tp \in http.found :
    /\ HttpAt("files") /\ HttpTo("name")
    /\ remove_all(tp)
    /\ http' = [http EXCEPT !.found = {}]
    /\ UNCHANGED <<mu, logs, alive, created, known_topics, history>>

\* The directories of the erased logs, one after another, under no lock.
RemoveFiles ==
  \E tp \in http.found :
    /\ HttpAt("files")
    /\ remove_all(tp)
    /\ http' = [http EXCEPT !.found = @ \ {tp}]
    /\ IF http.found = {tp} THEN HttpTo("name") ELSE UNCHANGED t
    /\ UNCHANGED <<mu, logs, alive, created, known_topics, history>>

\* Mutant of remove: std::find in its place, so that all from x on is erased.
EraseFromFound(s, x) ==
  LET kept[i \in 0 .. Len(s)] ==
        IF i = 0 THEN <<>>
        ELSE IF s[i] = x \/ Len(kept[i - 1]) < i - 1 THEN kept[i - 1] ELSE Append(kept[i - 1], s[i])
  IN  kept[Len(s)]

\* std::remove of x from s: the others keep their order.
remove(s, x) ==
  LET kept[i \in 0 .. Len(s)] ==
        IF i = 0 THEN <<>> ELSE IF s[i] = x THEN kept[i - 1] ELSE Append(kept[i - 1], s[i])
  IN  kept[Len(s)]

RemoveName ==
  /\ HttpAt("name") /\ HttpTo("idle")
  /\ known_topics' = remove(known_topics, http.topic)
  /\ http' = NoScan
  /\ UNCHANGED <<mu, logs, alive, created, disk, history>>

Next ==
  \/ \E th \in Worker : produce(th) \/ metadata(th) \/ list_offsets(th) \/ fetch(th)
  \/ \E th \in Thread : on_new_topic(th) \/ Use(th)
  \/ handle_post_messages \/ handle_get_messages
  \/ handle_get_topics \/ handle_get_topic \/ for_each \/ RespondTopics
  \/ handle_delete_topic \/ erase_if \/ NothingErased \/ RemoveFiles \/ RemoveName

Spec == Init /\ [][Next]_vars

-----------------------------------------------------------------------------

\* However many threads ask for a partition at once, it has one log: the live
\* logs are those of the map, each for one partition, and a reference some
\* handler holds is to the log of the map or to one a DELETE has destroyed.
OneLogPerPartition ==
  /\ alive = {logs[tp] : tp \in Existing}
  /\ \A tp, tq \in Existing : logs[tp] = logs[tq] => tp = tq
  /\ \A th \in Thread :
       t[th].log \in alive => logs[t[th].tp] = t[th].log

\* The thread that has constructed the log has not announced its topic yet.
BeingAnnounced(tp) == \E th \in Thread : t[th].pc = "new" /\ t[th].tp = tp

\* A log that was constructed while no DELETE of its topic was under way keeps
\* its files, and its topic a name in metadata responses, for as long as it is in
\* the map: no DELETE of a topic reaches a log or a name of another, nor the
\* files of a log it has not destroyed.  It is not promised of a log that was
\* constructed during a DELETE: the DELETE may find nothing of it in the map and
\* then remove its files, or its name.
KeptUntilDeleted ==
  \A tp \in Existing :
    \/ logs[tp] \in overlapped
    \/ logs[tp] \in dir[tp] /\ (tp[1] \in Names \/ BeingAnnounced(tp))

\* A name that metadata responses list is of a topic that has a log, unless a
\* DELETE of it is under way: get_or_create announces a topic before erase_if
\* can take its log away, so that a DELETE leaves no name behind.
NoGhostTopic ==
  \A topic \in Names : BeingDeleted(topic) \/ \E tp \in Existing : tp[1] = topic

\* GET of topics scans the shards one after another while workers create
\* logs; what it lists, of all topics or of one, includes all that existed
\* when it began and nothing that does not exist when it ends.
ListingComplete ==
  HttpAt("listed") => http.before \subseteq http.found /\ http.found \subseteq Of(http.topic)

\* Unless a DELETE of the topic is under way, a directory holds files of no log
\* of this run but the one in the map: a DELETE removes the directory of every
\* log it destroys, and a partition created again does not find what was deleted.
\* With it goes what an earlier run has left in there.  The files of a partition
\* that has not been opened in this run stay: a DELETE does not see them.
NoOrphanFiles ==
  \A tp \in TP :
    \/ BeingDeleted(tp[1])
    \/ /\ dir[tp] \subseteq {logs[tp]}
       /\ tp \in leftover /\ tp \in opened => tp \in Existing
=============================================================================
