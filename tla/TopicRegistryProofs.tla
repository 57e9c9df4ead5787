------------------------ MODULE TopicRegistryProofs ------------------------
(***************************************************************************)
(* Proofs about TopicRegistry, for any number of workers, topics,          *)
(* partitions, shards and logs, any placement of topic-partitions in       *)
(* shards and any files of earlier runs: the five invariants of its run.   *)
(***************************************************************************)
EXTENDS TopicRegistry, WellFoundedInduction, TLAPS

Scanning == {"list", "listed", "erase", "files", "name"}

TypeOK ==
  /\ mu \in [Shards -> Thread \cup {Nobody}]
  /\ logs \in [TP -> Nat]
  /\ dir \in [TP -> SUBSET Nat] /\ leftover \subseteq TP
  /\ created \in Nat
  /\ known_topics \in Seq(Topic)
  /\ t \in [Thread -> [pc : {"idle", "new", "use"} \cup Scanning, tp : TP \cup {<<>>},
                       log : Nat, use : BOOLEAN]]
  /\ http \in [topic : Topic \cup {NoTopic}, shard : Nat, found : SUBSET TP, before : SUBSET TP]

\* Who holds what: a shard's mutex is held by the thread that announces a log
\* of that shard, a handler refers to a topic-partition while it has a log, and
\* only the HTTP thread scans.
ThreadsInv ==
  /\ \A th \in Thread, s \in Shards :
       mu[s] = th <=> t[th].pc = "new" /\ ShardOf[t[th].tp] = s
  /\ \A th \in Thread : t[th].pc \in {"new", "use"} => t[th].tp \in TP
  /\ \A th \in Thread : t[th].pc \notin {"new", "use"} => t[th].log = NoLog
  /\ \A th \in Worker : t[th].pc \notin Scanning

\* The live logs are those of the map, one for each topic-partition; what is
\* not alive any more is not in the map under another name.
LogsInv ==
  /\ \A tp \in TP : logs[tp] \in 0 .. created
  /\ \A th \in Thread : t[th].log \in 0 .. created
  /\ OneLogPerPartition

\* A log that is to be announced is in the map, for its shard is locked.
NewIsLogged == \A th \in Thread : t[th].pc = "new" => logs[t[th].tp] # NoLog

\* DELETE erases logs or removes their files.
Erasing == HttpAt("erase") \/ HttpAt("files")

\* A name without a log is of the topic whose DELETE has erased some log of it.
NamesInv ==
  \A topic \in Names :
    \/ \E tp \in Existing : tp[1] = topic
    \/ /\ http.topic = topic
       /\ HttpAt("name") \/ (Erasing /\ http.found # {})

\* Files of a log that is not in the map are in a directory DELETE has yet to
\* remove, and so are those of an earlier run where a log was and is no more.
FilesInv ==
  /\ \A tp \in TP : NoLog \notin dir[tp]
  /\ \A tp \in TP : \/ Erasing /\ tp \in http.found
                    \/ /\ dir[tp] \subseteq {logs[tp]}
                       /\ tp \in leftover /\ tp \in opened => logs[tp] # NoLog
  /\ Erasing \/ HttpAt("name") => http.topic \in Topic
  /\ Erasing => \A tp \in http.found : tp[1] = http.topic

\* A scan has been through the shards before http.shard, and nothing it has
\* found or that was there when it began goes away before it ends.
ScanInv ==
  /\ HttpAt("list") \/ HttpAt("erase") => http.shard \in Shards
  /\ HttpAt("list") \/ HttpAt("listed") =>
       http.before \subseteq Of(http.topic) /\ http.found \subseteq Of(http.topic)
  /\ HttpAt("list") =>
       \A tp \in http.before : ShardOf[tp] < http.shard => tp \in http.found
  /\ HttpAt("listed") => http.before \subseteq http.found

\* When DELETE removes files and the name, or has been through a shard, the logs
\* of the topic that exist were constructed since it began.
KeptInv ==
  /\ KeptUntilDeleted
  /\ HttpAt("erase") =>
       \A tp \in Existing : tp[1] = http.topic /\ ShardOf[tp] < http.shard => logs[tp] \in overlapped
  /\ HttpAt("files") \/ HttpAt("name") =>
       \A tp \in Existing : tp[1] = http.topic => logs[tp] \in overlapped

\* The inductive invariant.
IInv ==
  TypeOK /\ ThreadsInv /\ LogsInv /\ NewIsLogged /\ NamesInv /\ FilesInv /\ ScanInv /\ KeptInv

-----------------------------------------------------------------------------
(***************************************************************************)
(* remove, by induction over the length of the list                        *)
(***************************************************************************)

\* A set of natural numbers has a least one.
LEMMA LeastNumber ==
  ASSUME NEW T \in SUBSET Nat, T # {}
  PROVE  \E m \in T : \A k \in T : m <= k
<1> DEFINE R == OpToRel(<, Nat)
<1>1. IsWellFoundedOn(R, Nat)
  BY NatLessThanWellFounded, Zenon
<1>2. \A x, y \in Nat : x < y => <<x, y>> \in R
  BY Zenon DEF OpToRel
<1> HIDE DEF R
<1>3. \E x \in T : \A y \in T : ~(<<y, x>> \in R)
  BY <1>1, WFMin, Zenon
<1>4. PICK x \in T : \A y \in T : ~(<<y, x>> \in R)
  BY <1>3, Zenon
<1>5. \A y \in T : ~(y < x)
  BY <1>4, <1>2, Zenon
<1> QED BY <1>5

\* What remove has kept of s after i elements, as a function of i up to n.
KeptBy(f, s, x, n) ==
  f = [i \in 0 .. n |->
         IF i = 0 THEN <<>> ELSE IF s[i] = x THEN f[i - 1] ELSE Append(f[i - 1], s[i])]

\* There is such a function, and remove is its last value.
LEMMA RemoveDefined ==
  ASSUME NEW s \in Seq(Topic), NEW x
  PROVE  \E f : KeptBy(f, s, x, Len(s)) /\ remove(s, x) = f[Len(s)]
<1>1. ASSUME NEW n \in Nat PROVE \E f : KeptBy(f, s, x, n)
  <2> DEFINE T == {k \in Nat : ~\E f : KeptBy(f, s, x, k)}
  <2> SUFFICES ASSUME T # {} PROVE FALSE
    BY Zenon
  <2>1. PICK m \in T : \A k \in T : m <= k
    BY LeastNumber, Zenon
  <2>2. CASE m = 0
    <3> DEFINE g == [i \in 0 .. 0 |-> <<>>]
    <3>1. KeptBy(g, s, x, 0)
      BY DEF KeptBy
    <3> QED BY <2>2, <3>1, Zenon
  <2>3. CASE m # 0
    <3>1. m - 1 \in Nat /\ m - 1 \notin T
      BY <2>1, <2>3
    <3>2. PICK f : KeptBy(f, s, x, m - 1)
      BY <3>1, Zenon
    <3> DEFINE Last == IF s[m] = x THEN f[m - 1] ELSE Append(f[m - 1], s[m])
               g == [i \in 0 .. m |-> IF i = m THEN Last ELSE f[i]]
    <3>3. \A i \in 0 .. m - 1 : g[i] = f[i]
      OBVIOUS
    <3>4. g[m] = Last
      OBVIOUS
    <3>5. ASSUME NEW i \in 0 .. m
          PROVE  g[i] = IF i = 0 THEN <<>> ELSE IF s[i] = x THEN g[i - 1] ELSE Append(g[i - 1], s[i])
      <4>1. CASE i = m
        <5>1. g[i - 1] = f[i - 1]
          BY <4>1, <2>3, <3>3
        <5> QED BY <4>1, <2>3, <3>4, <5>1, Zenon
      <4>2. CASE i # m
        <5>1. i \in 0 .. m - 1
          BY <4>2
        <5>2. f[i] = IF i = 0 THEN <<>> ELSE IF s[i] = x THEN f[i - 1] ELSE Append(f[i - 1], s[i])
          BY <3>2, <5>1, Zenon DEF KeptBy
        <5>3. i # 0 => i - 1 \in 0 .. m - 1
          BY <5>1
        <5> HIDE DEF g
        <5> QED BY <5>1, <5>2, <5>3, <3>3, Zenon
      <4> QED BY <4>1, <4>2, Zenon
    <3>6. g = [i \in 0 .. m |-> g[i]]
      BY Zenon
    <3>7. KeptBy(g, s, x, m)
      <4> HIDE DEF g
      <4> QED BY <3>5, <3>6, Zenon DEF KeptBy
    <3> QED BY <3>7, Zenon
  <2> QED BY <2>2, <2>3, Zenon
<1>2. \E f : KeptBy(f, s, x, Len(s))
  BY <1>1
<1> DEFINE kept == CHOOSE f : KeptBy(f, s, x, Len(s))
<1>3. KeptBy(kept, s, x, Len(s))
  BY <1>2, Zenon
<1>4. remove(s, x) = kept[Len(s)]
  BY Zenon DEF remove, KeptBy
<1> QED BY <1>3, <1>4, Zenon

\* r holds the elements of s other than x, and no other.
Without(r, s, x) ==
  /\ r \in Seq(Topic)
  /\ \A i \in 1 .. Len(r) : \E k \in 1 .. Len(s) : s[k] # x /\ s[k] = r[i]
  /\ \A k \in 1 .. Len(s) : s[k] # x => \E i \in 1 .. Len(r) : r[i] = s[k]

\* remove keeps the elements other than x, and no other.
LEMMA RemoveProperties ==
  ASSUME NEW s \in Seq(Topic), NEW x
  PROVE  Without(remove(s, x), s, x)
<1>1. PICK f : KeptBy(f, s, x, Len(s)) /\ remove(s, x) = f[Len(s)]
  BY RemoveDefined, Zenon
<1>0. \A i \in 0 .. Len(s) :
        f[i] = IF i = 0 THEN <<>> ELSE IF s[i] = x THEN f[i - 1] ELSE Append(f[i - 1], s[i])
  <2> DEFINE e(i) == IF i = 0 THEN <<>> ELSE IF s[i] = x THEN f[i - 1] ELSE Append(f[i - 1], s[i])
  <2>1. f = [i \in 0 .. Len(s) |-> e(i)]
    BY <1>1, Zenon DEF KeptBy
  <2> HIDE DEF e
  <2>2. \A i \in 0 .. Len(s) : f[i] = e(i)
    BY <2>1, Zenon
  <2> QED BY <2>2, Zenon DEF e
<1> DEFINE P(n) == /\ f[n] \in Seq(Topic)
                   /\ \A i \in 1 .. Len(f[n]) : \E k \in 1 .. n : s[k] # x /\ s[k] = f[n][i]
                   /\ \A k \in 1 .. n : s[k] # x => \E i \in 1 .. Len(f[n]) : f[n][i] = s[k]
           T == {n \in Nat : n <= Len(s) /\ ~P(n)}
<1>2. T = {}
  <2> SUFFICES ASSUME T # {} PROVE FALSE
    BY Zenon
  <2>1. PICK m \in T : \A k \in T : m <= k
    BY LeastNumber, Zenon
  <2>2. m \in 0 .. Len(s) /\ ~P(m)
    OBVIOUS
  <2>3. CASE m = 0
    <3>1. f[0] = <<>>
      <4>1. 0 \in 0 .. Len(s)
        BY <2>2, <2>3, Zenon
      <4> QED BY <1>0, <4>1, Zenon
    <3>2. Len(<<>>) = 0 /\ <<>> \in Seq(Topic)
      OBVIOUS
    <3>3. P(0)
      <4>1. f[0] \in Seq(Topic) /\ 1 .. Len(f[0]) = {} /\ 1 .. 0 = {}
        BY <3>1, <3>2
      <4> QED BY <4>1, Zenon
    <3> HIDE DEF P
    <3> QED BY <3>3, <2>2, <2>3, Zenon
  <2>4. CASE m # 0
    <3>1. m - 1 \in 0 .. Len(s) /\ m \in 1 .. Len(s) /\ m - 1 \notin T
      BY <2>1, <2>4, <2>2, SMTT(30)
    <3>2. P(m - 1)
      BY <3>1, SMTT(30)
    <3>3. f[m] = IF s[m] = x THEN f[m - 1] ELSE Append(f[m - 1], s[m])
      BY <1>0, <3>1, <2>4
    <3>4. s[m] \in Topic
      BY <3>1
    <3>5. CASE s[m] = x
      <4>1. f[m] = f[m - 1] /\ \A k \in 1 .. m : k = m \/ k \in 1 .. m - 1
        BY <3>1, <3>3, <3>5
      <4>2. \A k \in 1 .. m - 1 : k \in 1 .. m
        BY <3>1
      <4>3. P(m)
        BY <3>2, <3>5, <4>1, <4>2, Zenon
      <4> QED BY <4>3, <2>2, Zenon
    <3>6. CASE s[m] # x
      <4> DEFINE e == f[m - 1]
                 a == f[m]
      <4>1. a = Append(e, s[m]) /\ e \in Seq(Topic)
        BY <3>2, <3>3, <3>6, Zenon
      <4>2. /\ a \in Seq(Topic) /\ Len(a) = Len(e) + 1 /\ a[Len(e) + 1] = s[m]
            /\ \A i \in 1 .. Len(e) : a[i] = e[i]
        BY <4>1, <3>4, SMTT(30)
      <4>3. \A i \in 1 .. Len(e) : \E k \in 1 .. m - 1 : s[k] # x /\ s[k] = e[i]
        BY <3>2, Zenon
      <4>4. \A k \in 1 .. m - 1 : s[k] # x => \E i \in 1 .. Len(e) : e[i] = s[k]
        BY <3>2, Zenon
      <4> HIDE DEF e, a
      <4>5. \A i \in 1 .. Len(a) : \E k \in 1 .. m : s[k] # x /\ s[k] = a[i]
        <5> SUFFICES ASSUME NEW i \in 1 .. Len(a)
                     PROVE  \E k \in 1 .. m : s[k] # x /\ s[k] = a[i]
          BY Zenon
        <5>1. CASE i = Len(e) + 1
          BY <5>1, <4>2, <3>1, <3>6
        <5>2. CASE i # Len(e) + 1
          <6>1. i \in 1 .. Len(e)
            BY <5>2, <4>1, <4>2, SMTT(30)
          <6>2. PICK k \in 1 .. m - 1 : s[k] # x /\ s[k] = e[i]
            BY <6>1, <4>3, Zenon
          <6>3. k \in 1 .. m /\ a[i] = e[i]
            BY <6>1, <4>2, <3>1, SMTT(30)
          <6> QED BY <6>2, <6>3, Zenon
        <5> QED BY <5>1, <5>2, Zenon
      <4>6. Len(e) + 1 \in 1 .. Len(a) /\ \A i \in 1 .. Len(e) : i \in 1 .. Len(a)
        BY <4>1, <4>2, SMTT(30)
      <4>7. \A k \in 1 .. m : s[k] # x => \E i \in 1 .. Len(a) : a[i] = s[k]
        <5> SUFFICES ASSUME NEW k \in 1 .. m, s[k] # x
                     PROVE  \E i \in 1 .. Len(a) : a[i] = s[k]
          BY Zenon
        <5>1. CASE k = m
          BY <5>1, <4>2, <4>6, Zenon
        <5>2. CASE k # m
          <6>1. k \in 1 .. m - 1
            BY <5>2, <3>1, SMTT(30)
          <6>2. PICK i \in 1 .. Len(e) : e[i] = s[k]
            BY <6>1, <4>4, Zenon
          <6> QED BY <6>2, <4>2, <4>6, Zenon
        <5> QED BY <5>1, <5>2, Zenon
      <4>8. P(m)
        BY <4>2, <4>5, <4>7, Zenon DEF a
      <4> QED BY <4>8, <2>2, Zenon
    <3> QED BY <3>5, <3>6, Zenon
  <2> QED BY <2>3, <2>4, Zenon
<1>3. P(Len(s))
  <2>1. Len(s) \in Nat
    OBVIOUS
  <2> HIDE DEF P
  <2> QED BY <1>2, <2>1
<1> QED BY <1>1, <1>3, Zenon DEF Without

-----------------------------------------------------------------------------
(***************************************************************************)
(* The inductive invariant                                                 *)
(***************************************************************************)

\* It holds initially.
LEMMA InitIInv == Init => IInv
<1> SUFFICES ASSUME Init PROVE IInv
  BY Zenon
<1>1. \A th \in Thread : t[th] = Idle
  BY Zenon DEF Init
<1>2. TypeOK
  BY RegistryAssumption DEF Init, TypeOK, Idle, NoScan, NoLog
<1>3. ThreadsInv
  BY <1>1, RegistryAssumption, Zenon DEF Init, ThreadsInv, Idle, Scanning, Thread
<1>4. Existing = {}
  BY Zenon DEF Init, Existing
<1>5. LogsInv
  BY <1>1, <1>4 DEF Init, LogsInv, OneLogPerPartition, Idle, NoLog
<1>6. NewIsLogged
  BY <1>1 DEF NewIsLogged, Idle
<1>7. t[Http].pc = "idle"
  BY <1>1 DEF Idle, Thread
<1>8. Len(known_topics) = 0
  BY Zenon DEF Init
<1>9. NamesInv
  BY <1>8 DEF NamesInv, Names
<1>10. FilesInv
  <2>1. \A tp \in TP : dir[tp] = {}
    BY Zenon DEF Init
  <2> QED BY <1>7, <2>1, Zenon DEF Init, FilesInv, Erasing, HttpAt
<1>11. ScanInv /\ KeptInv
  BY <1>4, <1>7, Zenon DEF ScanInv, KeptInv, KeptUntilDeleted, HttpAt
<1> QED BY <1>2, <1>3, <1>5, <1>6, <1>9, <1>10, <1>11, Zenon DEF IInv

\* A step that constructs no log, keeps the names, and takes files away from logs
\* of a DELETE's own time only.
LEMMA KeptFrame ==
  ASSUME IInv, Existing' \subseteq Existing, overlapped' = overlapped, Names \subseteq Names',
         \A tp \in Existing' : logs'[tp] = logs[tp],
         \A tp \in Existing' : logs[tp] \in dir[tp] => logs[tp] \in dir'[tp] \cup overlapped,
         \A tp \in TP : BeingAnnounced(tp) => BeingAnnounced(tp)' \/ tp[1] \in Names'
  PROVE  KeptUntilDeleted'
<1>1. Existing \subseteq TP
  BY Zenon DEF Existing
<1> QED BY <1>1, Zenon DEF IInv, KeptInv, KeptUntilDeleted

\* What the invariants of the HTTP thread depend on: where it is, its scan, and
\* the maps.
LEMMA HttpFrame ==
  ASSUME IInv, logs' = logs, dir' = dir, leftover' = leftover, http' = http,
         known_topics' = known_topics, opened' = opened, overlapped' = overlapped,
         \A pc \in Scanning : t'[Http].pc = pc <=> t[Http].pc = pc,
         \A th \in Thread : t[th].pc = "new" => t'[th] = t[th]
  PROVE  NamesInv' /\ FilesInv' /\ ScanInv' /\ KeptInv'
<1> USE DEF Scanning, HttpAt, Erasing
<1>1. Names' = Names /\ Existing' = Existing
  BY Zenon DEF Names, Existing
<1>2. NamesInv'
  BY <1>1, Zenon DEF IInv, NamesInv
<1>3. FilesInv'
  BY Zenon DEF IInv, FilesInv
<1>4. ScanInv'
  BY <1>1, Zenon DEF IInv, ScanInv, Of
<1>5. \A tp \in TP : BeingAnnounced(tp) => BeingAnnounced(tp)'
  BY Zenon DEF BeingAnnounced
<1>6. KeptUntilDeleted'
  BY <1>1, <1>5, KeptFrame, Zenon
<1>7. KeptInv'
  BY <1>1, <1>6, Zenon DEF IInv, KeptInv
<1> QED BY <1>2, <1>3, <1>4, <1>7, Zenon

\* A thread that has found the log goes on to use it or is done.
LEMMA FoundIInv ==
  ASSUME IInv, NEW th \in Thread, NEW tp \in TP, NEW use \in BOOLEAN,
         t[th].pc = "idle", Found(th, tp, use), leftover' = leftover,
         known_topics' = known_topics, http' = http
  PROVE  IInv'
<1> USE DEF Found, history
<1>1. Refer(tp, logs[tp], use) \in [pc : {"idle", "use"}, tp : TP \cup {<<>>}, log : Nat, use : BOOLEAN]
  BY Zenon DEF Refer, Idle, NoLog, IInv, TypeOK
<1>2. TypeOK'
  BY <1>1, Zenon DEF IInv, TypeOK
<1>3. /\ t'[th] = Refer(tp, logs[tp], use)
      /\ \A o \in Thread : o # th => t'[o] = t[o]
  BY Zenon DEF IInv, TypeOK
<1>4. /\ t'[th].pc \in {"idle", "use"}
      /\ t'[th].pc = "use" => t'[th].tp = tp /\ t'[th].log = logs[tp]
      /\ t'[th].pc = "idle" => t'[th].log = NoLog
  BY <1>3 DEF Refer, Idle
<1>5. ThreadsInv'
  BY <1>3, <1>4 DEF IInv, ThreadsInv, Scanning, Thread
<1>6. LogsInv'
  <2>1. \A o \in Thread : t'[o].log \in 0 .. created'
    BY <1>3, <1>4 DEF IInv, LogsInv, TypeOK, NoLog
  <2>2. NoLog \notin alive
    BY Zenon DEF IInv, LogsInv, OneLogPerPartition, Existing
  <2>3. \A o \in Thread : t'[o].log \in alive => logs[t'[o].tp] = t'[o].log
    BY <1>3, <1>4, <2>2 DEF IInv, LogsInv, OneLogPerPartition
  <2> QED BY <2>1, <2>3 DEF IInv, LogsInv, OneLogPerPartition, Existing
<1>7. NewIsLogged'
  BY <1>3, <1>4, Zenon DEF IInv, NewIsLogged
<1>8. \A pc \in Scanning : t'[Http].pc = pc <=> t[Http].pc = pc
  BY <1>3, <1>4, Zenon DEF Scanning, Thread
<1>9. \A o \in Thread : t[o].pc = "new" => t'[o] = t[o]
  BY <1>3, Zenon
<1> QED BY <1>2, <1>5, <1>6, <1>7, <1>8, <1>9, HttpFrame, Zenon DEF IInv

\* A thread constructs a log.
LEMMA ConstructIInv ==
  ASSUME IInv, NEW th \in Thread, NEW tp \in TP, NEW use \in BOOLEAN,
         t[th].pc = "idle", mu[ShardOf[tp]] = Nobody,
         Construct(th, tp, use), leftover' = leftover, known_topics' = known_topics, http' = http
  PROVE  IInv'
<1> DEFINE n == created + 1
<1>1. /\ logs[tp] = NoLog /\ created' = n /\ alive' = alive \cup {n}
      /\ dir' = [dir EXCEPT ![tp] = dir[tp] \cup {n}] /\ logs' = [logs EXCEPT ![tp] = n]
      /\ opened' = opened \cup {tp}
      /\ overlapped' = IF BeingDeleted(tp[1]) THEN overlapped \cup {n} ELSE overlapped
      /\ t' = [t EXCEPT ![th] = [pc |-> "new", tp |-> tp, log |-> n, use |-> use]]
      /\ mu' = [mu EXCEPT ![ShardOf[tp]] = th]
  BY Zenon DEF Construct, NewLog
<1>2. ShardOf[tp] \in Shards
  BY RegistryAssumption, Zenon
<1>3. n \in Nat /\ n # NoLog /\ n > created /\ created \in Nat
  BY DEF IInv, TypeOK, NoLog
<1> HIDE DEF n
<1>4. TypeOK'
  BY <1>1, <1>2, <1>3, Zenon DEF IInv, TypeOK
<1>5. /\ t'[th] = [pc |-> "new", tp |-> tp, log |-> n, use |-> use]
      /\ \A o \in Thread : o # th => t'[o] = t[o]
  BY <1>1, Zenon DEF IInv, TypeOK
<1>6. /\ logs'[tp] = n /\ dir'[tp] = dir[tp] \cup {n}
      /\ \A tq \in TP : tq # tp => logs'[tq] = logs[tq] /\ dir'[tq] = dir[tq]
  BY <1>1, Zenon DEF IInv, TypeOK
<1>7. /\ mu'[ShardOf[tp]] = th
      /\ \A s \in Shards : s # ShardOf[tp] => mu'[s] = mu[s]
  BY <1>1, <1>2, Zenon DEF IInv, TypeOK
<1>8. ThreadsInv'
  <2>1. \A o \in Thread, s \in Shards :
          mu'[s] = o <=> t'[o].pc = "new" /\ ShardOf[t'[o].tp] = s
    BY <1>5, <1>7, <1>2, RegistryAssumption DEF IInv, ThreadsInv
  <2> QED BY <2>1, <1>5, RegistryAssumption DEF IInv, ThreadsInv, Scanning, Thread
<1>9. Existing' = Existing \cup {tp} /\ tp \notin Existing
  BY <1>1, <1>3, <1>6, Zenon DEF Existing
<1>10. LogsInv'
  <2>1. \A tq \in TP : logs'[tq] \in 0 .. created'
    BY <1>1, <1>3, <1>6 DEF IInv, LogsInv
  <2>2. \A o \in Thread : t'[o].log \in 0 .. created'
    BY <1>1, <1>3, <1>5 DEF IInv, LogsInv
  <2>3. \A tq \in Existing : tq # tp /\ logs'[tq] = logs[tq]
    BY <1>6, <1>9, Zenon DEF Existing
  <2>4. alive' = {logs'[tq] : tq \in Existing'}
    BY <1>1, <1>6, <1>9, <2>3 DEF IInv, LogsInv, OneLogPerPartition
  <2>5. \A tq, tr \in Existing' : logs'[tq] = logs'[tr] => tq = tr
    <3>1. \A tq \in Existing : logs'[tq] = logs[tq] /\ logs[tq] # n
      BY <2>3, <1>3 DEF IInv, LogsInv, Existing
    <3> QED BY <3>1, <1>6, <1>9 DEF IInv, LogsInv, OneLogPerPartition
  <2>6. ASSUME NEW o \in Thread, t'[o].log \in alive'
        PROVE  logs'[t'[o].tp] = t'[o].log
    <3>1. CASE o = th
      BY <3>1, <1>5, <1>6
    <3>2. CASE o # th
      <4>1. t[o].log # n /\ t'[o] = t[o]
        BY <3>2, <1>3, <1>5 DEF IInv, LogsInv
      <4>2. t[o].log \in alive
        BY <4>1, <2>6, <1>1
      <4>3. PICK tq \in Existing : t[o].log = logs[tq]
        BY <4>2, Zenon DEF IInv, LogsInv, OneLogPerPartition
      <4>4. logs[t[o].tp] = t[o].log /\ t[o].log # NoLog
        BY <4>2, <4>3, Zenon DEF IInv, LogsInv, OneLogPerPartition, Existing
      <4>5. t[o].tp \in TP
        BY <4>4, Zenon DEF IInv, ThreadsInv
      <4> QED BY <4>1, <4>4, <4>5, <1>1, <1>6, Zenon
    <3> QED BY <3>1, <3>2, Zenon
  <2> QED BY <2>1, <2>2, <2>4, <2>5, <2>6, Zenon DEF LogsInv, OneLogPerPartition
<1>11. NewIsLogged'
  BY <1>3, <1>5, <1>6 DEF IInv, NewIsLogged, ThreadsInv
<1>12. \A pc \in Scanning : t'[Http].pc = pc <=> t[Http].pc = pc
  BY <1>5, SMTT(30) DEF Scanning, Thread
<1> USE DEF Scanning, HttpAt, Erasing
<1>14. NamesInv'
  BY <1>9, <1>12, SMTT(30) DEF IInv, NamesInv, Names
<1>15. FilesInv'
  <2>1. /\ Erasing' <=> Erasing
        /\ HttpAt("name")' <=> HttpAt("name")
    BY <1>12, Zenon
  <2>2. \A tq \in TP : NoLog \notin dir'[tq]
    BY <1>3, <1>6, Zenon DEF IInv, FilesInv
  <2>3. ASSUME NEW tq \in TP, ~(Erasing /\ tq \in http.found)
        PROVE  dir'[tq] \subseteq {logs'[tq]} /\ (tq \in leftover /\ tq \in opened' => logs'[tq] # NoLog)
    <3>1. dir[tq] \subseteq {logs[tq]} /\ (tq \in leftover /\ tq \in opened => logs[tq] # NoLog)
      BY <2>3, Zenon DEF IInv, FilesInv
    <3>2. CASE tq = tp
      <4>1. dir[tp] = {}
        BY <1>1, <3>1, <3>2, Zenon DEF IInv, FilesInv
      <4> QED BY <1>3, <1>6, <3>2, <4>1, Zenon
    <3>3. CASE tq # tp
      BY <1>1, <1>6, <3>1, <3>3, Zenon
    <3> QED BY <3>2, <3>3, Zenon
  <2> QED BY <2>1, <2>2, <2>3, Zenon DEF IInv, FilesInv
<1>16. ScanInv'
  BY <1>9, <1>12, Zenon DEF IInv, ScanInv, Of
<1>17. KeptInv'
  <2>1. overlapped \subseteq overlapped' /\ (BeingDeleted(tp[1]) => n \in overlapped')
    BY <1>1, Zenon
  <2>2. \A tq \in Existing : tq # tp /\ logs'[tq] = logs[tq] /\ dir'[tq] = dir[tq]
    BY <1>6, <1>9, Zenon DEF Existing
  <2>3. Names' = Names
    BY Zenon DEF Names
  <2>4. \A tq \in TP : BeingAnnounced(tq) => BeingAnnounced(tq)'
    BY <1>5, Zenon DEF BeingAnnounced
  <2>5. BeingAnnounced(tp)'
    <3>1. t'[th].pc = "new" /\ t'[th].tp = tp
      BY <1>5
    <3> QED BY <3>1, Zenon DEF BeingAnnounced
  <2>6. KeptUntilDeleted'
    BY <1>6, <1>9, <2>1, <2>2, <2>3, <2>4, <2>5, Zenon DEF IInv, KeptInv, KeptUntilDeleted, Existing
  <2>7. \A tq \in Existing : logs[tq] \in overlapped => logs'[tq] \in overlapped'
    BY <2>1, <2>2, Zenon
  <2>8. HttpAt("erase") \/ HttpAt("files") \/ HttpAt("name") =>
          (tp[1] = http.topic => logs'[tp] \in overlapped')
    BY <1>6, <2>1, Zenon DEF BeingDeleted
  <2> QED BY <1>9, <1>12, <2>6, <2>7, <2>8, Zenon DEF IInv, KeptInv
<1> QED BY <1>4, <1>8, <1>10, <1>11, <1>14, <1>15, <1>16, <1>17, Zenon DEF IInv

\* The topic of a new log is announced, and the mutex released.
LEMMA AnnounceIInv ==
  ASSUME IInv, NEW th \in Thread, on_new_topic(th)
  PROVE  IInv'
<1> DEFINE tp == t[th].tp
<1>1. /\ t[th].pc = "new" /\ tp \in TP /\ tp[1] \in Topic /\ logs[tp] # NoLog
      /\ t[th].log \in Nat /\ t[th].use \in BOOLEAN /\ ShardOf[tp] \in Shards
  BY RegistryAssumption DEF IInv, TypeOK, ThreadsInv, NewIsLogged, on_new_topic, TP
<1>2. /\ t' = [t EXCEPT ![th] = Refer(tp, t[th].log, t[th].use)]
      /\ mu' = [mu EXCEPT ![ShardOf[tp]] = Nobody]
      /\ logs' = logs /\ alive' = alive /\ created' = created /\ http' = http
      /\ dir' = dir /\ leftover' = leftover /\ opened' = opened /\ overlapped' = overlapped
      /\ known_topics' = IF tp[1] \in Names THEN known_topics ELSE Append(known_topics, tp[1])
  BY Zenon DEF on_new_topic, Unlock, AddName, disk, history
<1>3. Refer(tp, t[th].log, t[th].use) \in
        [pc : {"idle", "use"}, tp : TP \cup {<<>>}, log : Nat, use : BOOLEAN]
  BY <1>1, Zenon DEF Refer, Idle, NoLog
<1>4. /\ t'[th] = Refer(tp, t[th].log, t[th].use)
      /\ \A o \in Thread : o # th => t'[o] = t[o]
  BY <1>2, Zenon DEF IInv, TypeOK
<1>5. /\ t'[th].pc \in {"idle", "use"}
      /\ t'[th].pc = "use" => t'[th].tp = tp /\ t'[th].log = t[th].log
      /\ t'[th].pc = "idle" => t'[th].log = NoLog
  BY <1>4 DEF Refer, Idle
<1>6. TypeOK'
  BY <1>1, <1>2, <1>3, SMTT(30) DEF IInv, TypeOK
<1>7. /\ mu'[ShardOf[tp]] = Nobody
      /\ \A s \in Shards : s # ShardOf[tp] => mu'[s] = mu[s]
  BY <1>1, <1>2, Zenon DEF IInv, TypeOK
<1>8. mu[ShardOf[tp]] = th
  BY <1>1, Zenon DEF IInv, ThreadsInv
<1>9. ThreadsInv'
  <2>1. \A o \in Thread, s \in Shards :
          mu'[s] = o <=> t'[o].pc = "new" /\ ShardOf[t'[o].tp] = s
    BY <1>1, <1>4, <1>5, <1>7, <1>8, RegistryAssumption DEF IInv, ThreadsInv
  <2> QED BY <1>1, <2>1, <1>4, <1>5 DEF IInv, ThreadsInv, Scanning, Thread
<1>10. LogsInv'
  <2>1. \A o \in Thread : t'[o].log \in 0 .. created'
    BY <1>2, <1>4, <1>5 DEF IInv, LogsInv, TypeOK, NoLog
  <2>2. NoLog \notin alive
    BY Zenon DEF IInv, LogsInv, OneLogPerPartition, Existing
  <2>3. \A o \in Thread : t'[o].log \in alive => logs[t'[o].tp] = t'[o].log
    BY <1>4, <1>5, <2>2 DEF IInv, LogsInv, OneLogPerPartition
  <2>4. Existing' = Existing
    BY <1>2, Zenon DEF Existing
  <2>5. logs' = logs /\ alive' = alive /\ created' = created
    BY <1>2, Zenon
  <2>6. OneLogPerPartition'
    <3>1. alive = {logs[tq] : tq \in Existing}
      BY Zenon DEF IInv, LogsInv, OneLogPerPartition
    <3>2. alive' = {logs'[tq] : tq \in Existing'}
      BY <2>4, <2>5, <3>1, Zenon
    <3>3. \A tq, tr \in Existing' : logs'[tq] = logs'[tr] => tq = tr
      BY <2>4, <2>5, Zenon DEF IInv, LogsInv, OneLogPerPartition
    <3> QED BY <2>3, <2>5, <3>2, <3>3, Zenon DEF OneLogPerPartition
  <2> QED BY <2>1, <2>5, <2>6, Zenon DEF IInv, LogsInv
<1>11. NewIsLogged'
  BY <1>2, <1>4, <1>5, Zenon DEF IInv, NewIsLogged
<1>12. \A pc \in Scanning : t'[Http].pc = pc <=> t[Http].pc = pc
  BY <1>1, <1>4, <1>5, Zenon DEF Scanning, Thread
<1>13. FilesInv' /\ ScanInv'
  BY <1>2, <1>12, Zenon DEF IInv, FilesInv, ScanInv, Of, Existing, Scanning, HttpAt, Erasing
<1>14. tp \in Existing
  BY <1>1, Zenon DEF Existing
<1>15. Names' = Names \cup {tp[1]}
  <2>1. CASE tp[1] \in Names
    BY <2>1, <1>2, Zenon DEF Names
  <2>2. CASE tp[1] \notin Names
    <3>1. known_topics \in Seq(Topic) /\ known_topics' = Append(known_topics, tp[1])
      BY <2>2, <1>2, Zenon DEF IInv, TypeOK
    <3>2. /\ Len(known_topics') = Len(known_topics) + 1 /\ Len(known_topics) \in Nat
          /\ known_topics'[Len(known_topics) + 1] = tp[1]
          /\ \A i \in 1 .. Len(known_topics) : known_topics'[i] = known_topics[i]
      BY <3>1, <1>1
    <3> QED BY <3>2 DEF Names
  <2> QED BY <2>1, <2>2, Zenon
<1>16. Existing' = Existing /\ Existing \subseteq TP
  BY <1>2, Zenon DEF Existing
<1>17. NamesInv'
  BY <1>2, <1>12, <1>14, <1>15, <1>16, Zenon DEF IInv, NamesInv, Scanning, HttpAt, Erasing
<1>18. KeptInv'
  <2>1. \A tq \in TP : BeingAnnounced(tq) => BeingAnnounced(tq)' \/ tq[1] \in Names'
    BY <1>4, <1>15, Zenon DEF BeingAnnounced
  <2>2. KeptUntilDeleted'
    BY <1>2, <1>15, <1>16, <2>1, KeptFrame, Zenon
  <2> QED BY <1>2, <1>12, <1>16, <2>2, Zenon DEF IInv, KeptInv, Scanning, HttpAt
<1> QED BY <1>6, <1>9, <1>10, <1>11, <1>13, <1>17, <1>18, Zenon DEF IInv

\* The use of a log ends.
LEMMA UseIInv ==
  ASSUME IInv, NEW th \in Thread, Use(th)
  PROVE  IInv'
<1> USE DEF Use, disk, history
<1>1. Idle \in [pc : {"idle"}, tp : TP \cup {<<>>}, log : {NoLog}, use : BOOLEAN] /\ NoLog \in Nat
  BY Zenon DEF Idle, NoLog
<1>2. TypeOK'
  BY <1>1, Zenon DEF IInv, TypeOK
<1>3. /\ t'[th] = Idle
      /\ \A o \in Thread : o # th => t'[o] = t[o]
  BY Zenon DEF IInv, TypeOK
<1>4. ThreadsInv'
  BY <1>1, <1>3 DEF IInv, ThreadsInv, Scanning
<1>5. LogsInv'
  <2>1. NoLog \notin alive /\ NoLog \in 0 .. created
    BY DEF IInv, LogsInv, OneLogPerPartition, Existing, NoLog, TypeOK
  <2> QED BY <1>1, <1>3, <2>1 DEF IInv, LogsInv, OneLogPerPartition, Existing
<1>6. NewIsLogged'
  BY <1>1, <1>3, Zenon DEF IInv, NewIsLogged
<1>7. \A pc \in Scanning : t'[Http].pc = pc <=> t[Http].pc = pc
  BY <1>1, <1>3, Zenon DEF Scanning, Thread
<1>8. \A o \in Thread : t[o].pc = "new" => t'[o] = t[o]
  BY <1>3, Zenon
<1> QED BY <1>2, <1>4, <1>5, <1>6, <1>7, <1>8, HttpFrame, Zenon DEF IInv

\* A step of the HTTP thread from one phase of a request to another leaves the
\* mutexes and the other threads alone, and gives it no log.
LEMMA HttpMoves ==
  ASSUME IInv, NEW pc \in {"idle"} \cup Scanning,
         t[Http].pc \in {"idle"} \cup Scanning, HttpTo(pc) \/ t' = t, mu' = mu
  PROVE  /\ t' \in [Thread -> [pc : {"idle", "new", "use"} \cup Scanning, tp : TP \cup {<<>>},
                               log : Nat, use : BOOLEAN]]
         /\ t'[Http].pc = pc \/ t' = t
         /\ \A th \in Thread : th # Http => t'[th] = t[th]
         /\ \A th \in Thread : t'[th].log = t[th].log
         /\ \A tp \in TP : BeingAnnounced(tp) => BeingAnnounced(tp)'
         /\ ThreadsInv'
<1>1. Http \in Thread /\ t[Http].pc \notin {"new", "use"} /\ pc \notin {"new", "use"}
  BY Zenon DEF Thread, Scanning
<1>2. t[Http].log = NoLog
  BY <1>1, Zenon DEF IInv, ThreadsInv
<1>3. CASE HttpTo(pc)
  <2> DEFINE e == [Idle EXCEPT !.pc = pc]
  <2>1. /\ e \in [pc : {"idle", "new", "use"} \cup Scanning, tp : TP \cup {<<>>},
                  log : Nat, use : BOOLEAN]
        /\ e.pc = pc /\ e.log = NoLog
    <3>1. Idle \in [pc : {"idle", "new", "use"} \cup Scanning, tp : TP \cup {<<>>},
                    log : Nat, use : BOOLEAN] /\ Idle.log = NoLog
      BY Zenon DEF Idle, NoLog
    <3> QED BY <3>1, Zenon
  <2>2. t' = [t EXCEPT ![Http] = e]
    BY <1>3, Zenon DEF HttpTo
  <2> HIDE DEF e
  <2>3. /\ t'[Http].pc = pc /\ t'[Http].log = NoLog
        /\ \A th \in Thread : th # Http => t'[th] = t[th]
    BY <1>1, <2>1, <2>2, Zenon DEF IInv, TypeOK
  <2>4. t' \in [Thread -> [pc : {"idle", "new", "use"} \cup Scanning, tp : TP \cup {<<>>},
                           log : Nat, use : BOOLEAN]]
    BY <2>1, <2>2, Zenon DEF IInv, TypeOK
  <2>5. ThreadsInv'
    BY <1>1, <2>3, RegistryAssumption DEF IInv, ThreadsInv, Thread
  <2>6. \A tp \in TP : BeingAnnounced(tp) => BeingAnnounced(tp)'
    BY <1>1, <2>3, Zenon DEF BeingAnnounced
  <2> QED BY <1>2, <2>3, <2>4, <2>5, <2>6, Zenon
<1>4. CASE t' = t
  BY <1>4 DEF IInv, TypeOK, ThreadsInv, BeingAnnounced
<1> QED BY <1>3, <1>4, Zenon

\* If the map does not change either, what the invariant says of the logs is
\* kept.
LEMMA HttpMovesLogs ==
  ASSUME IInv, NEW pc \in {"idle"} \cup Scanning,
         t[Http].pc \in {"idle"} \cup Scanning, HttpTo(pc) \/ t' = t,
         mu' = mu, logs' = logs, alive' = alive, created' = created
  PROVE  LogsInv' /\ NewIsLogged'
<1>1. /\ \A th \in Thread : th # Http => t'[th] = t[th]
      /\ \A th \in Thread : t'[th].log = t[th].log
      /\ t'[Http].pc = pc \/ t' = t
      /\ ThreadsInv'
  BY HttpMoves, Zenon
<1>2. t'[Http].pc \notin {"new", "use"} /\ Http \in Thread
  BY <1>1, Zenon DEF Scanning, Thread
<1>3. t'[Http].log = NoLog
  BY <1>1, <1>2, Zenon DEF ThreadsInv
<1>4. NoLog \notin alive
  BY Zenon DEF IInv, LogsInv, OneLogPerPartition, Existing
<1>5. LogsInv'
  BY <1>1, <1>3, <1>4 DEF IInv, LogsInv, OneLogPerPartition, Existing
<1>6. NewIsLogged'
  BY <1>1, <1>2, Zenon DEF IInv, NewIsLogged
<1> QED BY <1>5, <1>6, Zenon

\* GET or DELETE begins its scan.
LEMMA StartScanIInv ==
  ASSUME IInv, NEW pc \in {"list", "erase"}, NEW topic \in Topic \cup {NoTopic},
         pc = "erase" => topic \in Topic, StartScan(pc, topic)
  PROVE  IInv'
<1> USE DEF StartScan, disk, history
<1>1. pc \in {"idle"} \cup Scanning /\ t[Http].pc \in {"idle"} \cup Scanning
  BY Zenon DEF Scanning, HttpAt
<1>2. Of(topic) \subseteq TP
  BY Zenon DEF Of, Existing
<1>3. TypeOK'
  BY <1>1, <1>2, HttpMoves, Zenon DEF IInv, TypeOK
<1>4. ThreadsInv' /\ LogsInv' /\ NewIsLogged'
  BY <1>1, HttpMoves, HttpMovesLogs, Zenon
<1>5. t'[Http].pc = pc /\ t[Http].pc = "idle"
  BY Zenon DEF HttpTo, HttpAt, Idle, IInv, TypeOK, Thread
<1>6. /\ http'.topic = topic /\ http'.shard = 1 /\ http'.found = {} /\ http'.before = Of(topic)
      /\ logs' = logs /\ dir' = dir /\ leftover' = leftover /\ known_topics' = known_topics
      /\ opened' = opened /\ overlapped' = overlapped
  BY Zenon
<1>10. \A tp \in TP : BeingAnnounced(tp) => BeingAnnounced(tp)'
  BY <1>1, HttpMoves, Zenon
<1> HIDE DEF StartScan
<1>7. NamesInv'
  <2>1. Names' = Names /\ Existing' = Existing
    BY <1>6, Zenon DEF Names, Existing
  <2>2. ~HttpAt("name") /\ ~Erasing
    BY <1>5, Zenon DEF HttpAt, Erasing
  <2> QED BY <1>6, <2>1, <2>2, Zenon DEF IInv, NamesInv
<1>8. FilesInv'
  BY <1>5, <1>6, Zenon DEF IInv, FilesInv, HttpAt, Erasing
<1>9. ScanInv'
  <2>1. 1 \in Shards /\ \A tp \in TP : ~(ShardOf[tp] < 1)
    BY RegistryAssumption DEF Shards
  <2> QED BY <1>2, <1>5, <1>6, <2>1, Zenon DEF ScanInv, Of, Existing, HttpAt, Erasing
<1>11. KeptInv'
  <2>1. Names' = Names /\ Existing' = Existing /\ Existing \subseteq TP
    BY <1>6, Zenon DEF Names, Existing
  <2>2. KeptUntilDeleted'
    BY <1>6, <1>10, <2>1, KeptFrame, Zenon
  <2>3. \A tp \in TP : ~(ShardOf[tp] < 1)
    BY RegistryAssumption DEF Shards
  <2> QED BY <1>5, <1>6, <2>1, <2>2, <2>3, Zenon DEF KeptInv, HttpAt
<1> QED BY <1>3, <1>4, <1>7, <1>8, <1>9, <1>11, Zenon DEF IInv

\* A shard is listed.
LEMMA ForEachIInv ==
  ASSUME IInv, for_each
  PROVE  IInv'
<1> USE DEF for_each, ScanShard, disk, history
<1>1. "listed" \in {"idle"} \cup Scanning /\ t[Http].pc \in {"idle"} \cup Scanning
  BY Zenon DEF Scanning, HttpAt
<1>2. HttpTo("listed") \/ t' = t
  BY Zenon
<1>3. InShard \subseteq Of(http.topic) /\ Of(http.topic) \subseteq TP
  BY Zenon DEF InShard, Of, Existing
<1>4. TypeOK'
  <2>1. http' \in [topic : Topic \cup {NoTopic}, shard : Nat, found : SUBSET TP, before : SUBSET TP]
    <3>1. http.found \cup InShard \in SUBSET TP /\ http.shard + 1 \in Nat
      BY <1>3 DEF IInv, TypeOK
    <3>2. http' = [http EXCEPT !.found = http.found \cup InShard, !.shard = http.shard + 1]
      BY Zenon
    <3> HIDE DEF for_each, ScanShard
    <3> QED BY <3>1, <3>2, Zenon DEF IInv, TypeOK
  <2> QED BY <1>1, <1>2, <2>1, HttpMoves, Zenon DEF IInv, TypeOK
<1>5. ThreadsInv' /\ LogsInv' /\ NewIsLogged'
  BY <1>1, <1>2, HttpMoves, HttpMovesLogs, Zenon
<1>6. /\ http'.topic = http.topic /\ http'.shard = http.shard + 1 /\ http'.before = http.before
      /\ http'.found = http.found \cup InShard
      /\ logs' = logs /\ dir' = dir /\ leftover' = leftover /\ known_topics' = known_topics
      /\ opened' = opened /\ overlapped' = overlapped
  BY Zenon DEF IInv, TypeOK
<1>16. \A tp \in TP : BeingAnnounced(tp) => BeingAnnounced(tp)'
  BY <1>1, <1>2, HttpMoves, Zenon
<1>7. /\ t[Http].pc = "list"
      /\ t'[Http].pc = IF http.shard = NumShards THEN "listed" ELSE "list"
  BY DEF HttpTo, HttpAt, Idle, IInv, TypeOK, Thread
<1> HIDE DEF for_each, ScanShard
<1>8. NamesInv'
  <2>1. Names' = Names /\ Existing' = Existing
    BY <1>6, Zenon DEF Names, Existing
  <2>2. ~HttpAt("name") /\ ~Erasing
    BY <1>7, Zenon DEF HttpAt, Erasing
  <2> QED BY <2>1, <2>2, Zenon DEF IInv, NamesInv
<1>9. FilesInv'
  BY <1>6, <1>7, Zenon DEF IInv, FilesInv, HttpAt, Erasing
<1>10. http.shard \in Shards /\ http.before \subseteq Of(http.topic) /\ http.found \subseteq Of(http.topic)
  BY <1>7, Zenon DEF IInv, ScanInv, HttpAt
<1>11. \A tp \in http.before : ShardOf[tp] < http.shard + 1 => tp \in http.found \cup InShard
  <2>1. \A tp \in http.before : ShardOf[tp] \in Shards
    BY <1>3, <1>10, RegistryAssumption, Zenon
  <2>2. \A tp \in http.before : ShardOf[tp] = http.shard => tp \in InShard
    BY <1>10, Zenon DEF InShard
  <2>3. \A tp \in http.before : ShardOf[tp] < http.shard => tp \in http.found
    BY <1>7, Zenon DEF IInv, ScanInv, HttpAt
  <2> QED BY <1>10, <2>1, <2>2, <2>3, RegistryAssumption DEF Shards
<1>12. http.shard = NumShards => \A tp \in http.before : ShardOf[tp] < http.shard + 1
  BY <1>3, <1>10, RegistryAssumption DEF Shards
<1>13. Of(http.topic)' = Of(http.topic)
  BY <1>6, Zenon DEF Of, Existing
<1>14. http.shard # NumShards => http.shard + 1 \in Shards
  BY <1>10, RegistryAssumption DEF Shards
<1>15. ScanInv'
  BY <1>3, <1>6, <1>7, <1>10, <1>11, <1>12, <1>13, <1>14, Zenon DEF ScanInv, HttpAt
<1>17. KeptInv'
  <2>1. Names' = Names /\ Existing' = Existing
    BY <1>6, Zenon DEF Names, Existing
  <2>2. KeptUntilDeleted'
    BY <1>6, <1>16, <2>1, KeptFrame, Zenon
  <2> QED BY <1>7, <2>2, Zenon DEF KeptInv, HttpAt
<1> QED BY <1>4, <1>5, <1>8, <1>9, <1>15, <1>17, Zenon DEF IInv

\* A scan that ends with the response, or a DELETE that has found nothing to
\* erase, changes no state but the HTTP thread's own.
LEMMA ScanEndsIInv ==
  ASSUME IInv, RespondTopics \/ NothingErased
  PROVE  IInv'
<1>1. /\ t[Http].pc = "listed" \/ (t[Http].pc = "files" /\ http.found = {})
      /\ HttpTo("idle") /\ http' = NoScan
      /\ mu' = mu /\ logs' = logs /\ alive' = alive /\ created' = created /\ dir' = dir
      /\ leftover' = leftover /\ known_topics' = known_topics
      /\ opened' = opened /\ overlapped' = overlapped
  BY Zenon DEF RespondTopics, NothingErased, HttpAt, disk, history
<1>2. "idle" \in {"idle"} \cup Scanning /\ t[Http].pc \in {"idle"} \cup Scanning
  BY <1>1, Zenon DEF Scanning
<1>3. TypeOK'
  <2>1. NoScan \in [topic : Topic \cup {NoTopic}, shard : Nat, found : SUBSET TP, before : SUBSET TP]
    BY Zenon DEF NoScan
  <2> QED BY <1>1, <1>2, <2>1, HttpMoves, Zenon DEF IInv, TypeOK
<1>4. ThreadsInv' /\ LogsInv' /\ NewIsLogged'
  BY <1>1, <1>2, HttpMoves, HttpMovesLogs, Zenon
<1>5. t'[Http].pc = "idle"
  BY <1>1, Zenon DEF HttpTo, Idle, IInv, TypeOK, Thread
<1>6. NamesInv'
  <2>1. Names' = Names /\ Existing' = Existing
    BY <1>1, Zenon DEF Names, Existing
  <2>2. ~HttpAt("name") /\ ~(Erasing /\ http.found # {})
    BY <1>1, Zenon DEF HttpAt, Erasing
  <2> QED BY <1>1, <2>1, <2>2, Zenon DEF IInv, NamesInv
<1>7. FilesInv'
  BY <1>1, <1>5, Zenon DEF IInv, FilesInv, HttpAt, Erasing
<1>8. ScanInv'
  BY <1>5, Zenon DEF ScanInv, HttpAt
<1>9. KeptInv'
  <2>1. Names' = Names /\ Existing' = Existing
    BY <1>1, Zenon DEF Names, Existing
  <2>2. \A tp \in TP : BeingAnnounced(tp) => BeingAnnounced(tp)'
    BY <1>1, <1>2, HttpMoves, Zenon
  <2>3. KeptUntilDeleted'
    BY <1>1, <2>1, <2>2, KeptFrame, Zenon
  <2> QED BY <1>5, <2>3, Zenon DEF KeptInv, HttpAt
<1> QED BY <1>3, <1>4, <1>6, <1>7, <1>8, <1>9, Zenon DEF IInv

\* The logs of the topic in one shard are erased.
LEMMA EraseIInv ==
  ASSUME IInv, erase_if
  PROVE  IInv'
<1>1. /\ t[Http].pc = "erase" /\ mu[http.shard] = Nobody /\ mu' = mu
      /\ http' = [http EXCEPT !.found = http.found \cup InShard, !.shard = http.shard + 1]
      /\ IF http.shard = NumShards THEN HttpTo("files") ELSE t' = t
      /\ logs' = [tp \in TP |-> IF tp \in InShard THEN NoLog ELSE logs[tp]]
      /\ alive' = alive \ {logs[tp] : tp \in InShard}
      /\ created' = created /\ dir' = dir /\ leftover' = leftover /\ known_topics' = known_topics
      /\ opened' = opened /\ overlapped' = overlapped
  BY Zenon DEF erase_if, ScanShard, HttpAt, disk, history
<1>2. "files" \in {"idle"} \cup Scanning /\ t[Http].pc \in {"idle"} \cup Scanning
  BY <1>1, Zenon DEF Scanning
<1>3. http.shard \in Shards /\ http.topic \in Topic
  BY <1>1, Zenon DEF IInv, ScanInv, FilesInv, HttpAt, Erasing
<1>4. /\ InShard \subseteq Existing /\ Existing \subseteq TP
      /\ \A tp \in InShard : tp[1] = http.topic /\ ShardOf[tp] = http.shard
  BY <1>3, RegistryAssumption, Zenon DEF InShard, Of, Existing
<1>5. /\ http'.topic = http.topic /\ http'.shard = http.shard + 1 /\ http'.before = http.before
      /\ http'.found = http.found \cup InShard
  BY <1>1, Zenon DEF IInv, TypeOK
<1>6. /\ t' \in [Thread -> [pc : {"idle", "new", "use"} \cup Scanning, tp : TP \cup {<<>>},
                            log : Nat, use : BOOLEAN]]
      /\ \A th \in Thread : th # Http => t'[th] = t[th]
      /\ \A th \in Thread : t'[th].log = t[th].log
      /\ \A tp \in TP : BeingAnnounced(tp) => BeingAnnounced(tp)'
      /\ ThreadsInv'
  BY <1>1, <1>2, HttpMoves, Zenon
<1>7. TypeOK'
  <2>1. http.found \cup InShard \in SUBSET TP /\ http.shard + 1 \in Nat
    BY <1>4 DEF IInv, TypeOK
  <2>2. http' \in [topic : Topic \cup {NoTopic}, shard : Nat, found : SUBSET TP, before : SUBSET TP]
    BY <1>1, <2>1, Zenon DEF IInv, TypeOK
  <2>3. logs' \in [TP -> Nat]
    BY <1>1, Zenon DEF IInv, TypeOK, NoLog
  <2> QED BY <1>1, <1>6, <2>2, <2>3, Zenon DEF IInv, TypeOK
<1>8. t'[Http].pc = IF http.shard = NumShards THEN "files" ELSE "erase"
  BY <1>1 DEF HttpTo, Idle, IInv, TypeOK, Thread
<1>9. /\ \A tp \in InShard : logs'[tp] = NoLog
      /\ \A tp \in TP : tp \notin InShard => logs'[tp] = logs[tp]
      /\ Existing' = Existing \ InShard
  BY <1>1, <1>4, Zenon DEF Existing
<1>10. LogsInv'
  <2>1. \A tp \in TP : logs'[tp] \in 0 .. created'
    BY <1>1, <1>9 DEF IInv, LogsInv, NoLog, TypeOK
  <2>2. \A th \in Thread : t'[th].log \in 0 .. created'
    BY <1>1, <1>6, Zenon DEF IInv, LogsInv
  <2>3. \A tp, tq \in Existing : logs[tp] = logs[tq] => tp = tq
    BY Zenon DEF IInv, LogsInv, OneLogPerPartition
  <2>4. \A tp \in Existing' : tp \in Existing /\ tp \notin InShard /\ logs'[tp] = logs[tp]
    BY <1>4, <1>9, Zenon
  <2>5. alive' = {logs'[tp] : tp \in Existing'}
    <3>1. alive = {logs[tp] : tp \in Existing}
      BY Zenon DEF IInv, LogsInv, OneLogPerPartition
    <3>2. ASSUME NEW x \in alive' PROVE \E tp \in Existing' : x = logs'[tp]
      BY <1>1, <1>9, <2>4, <3>1, Zenon
    <3>3. ASSUME NEW tp \in Existing' PROVE logs'[tp] \in alive'
      BY <1>1, <1>4, <2>3, <2>4, <3>1, ZenonT(30)
    <3> QED BY <3>2, <3>3, Zenon
  <2>6. \A tp, tq \in Existing' : logs'[tp] = logs'[tq] => tp = tq
    BY <2>3, <2>4, Zenon
  <2>7. ASSUME NEW th \in Thread, t'[th].log \in alive'
        PROVE  logs'[t'[th].tp] = t'[th].log
    <3>1. t[th].log \in alive /\ t'[th].log = t[th].log
      BY <1>1, <1>6, <2>7, Zenon
    <3>2. logs[t[th].tp] = t[th].log /\ t[th].log # NoLog
      BY <3>1, Zenon DEF IInv, LogsInv, OneLogPerPartition, Existing
    <3>3. t[th].pc \in {"new", "use"} /\ t[th].tp \in TP
      BY <3>2, Zenon DEF IInv, ThreadsInv
    <3>4. t'[th] = t[th]
      BY <1>1, <1>6, <3>3, Zenon
    <3>5. t[th].tp \notin InShard
      BY <1>1, <2>7, <3>1, <3>2, Zenon
    <3> QED BY <1>9, <3>2, <3>3, <3>4, <3>5, Zenon
  <2> QED BY <2>1, <2>2, <2>5, <2>6, <2>7, Zenon DEF LogsInv, OneLogPerPartition
<1>11. NewIsLogged'
  <2> SUFFICES ASSUME NEW th \in Thread, t'[th].pc = "new"
               PROVE  logs'[t'[th].tp] # NoLog
    BY Zenon DEF NewIsLogged
  <2>1. th # Http /\ t'[th] = t[th]
    BY <1>6, <1>8, Zenon
  <2>2. t[th].tp \in TP /\ logs[t[th].tp] # NoLog /\ mu[ShardOf[t[th].tp]] = th
    BY <2>1, RegistryAssumption DEF IInv, ThreadsInv, NewIsLogged
  <2>3. t[th].tp \notin InShard
    BY <1>1, <1>4, <2>2, RegistryAssumption, Zenon
  <2> QED BY <1>9, <2>1, <2>2, <2>3, Zenon
<1>12. Names' = Names
  BY <1>1, Zenon DEF Names
<1>13. NamesInv'
  <2> SUFFICES ASSUME NEW topic \in Names
               PROVE  \/ \E tp \in Existing' : tp[1] = topic
                      \/ http'.topic = topic /\ Erasing' /\ http'.found # {}
    BY <1>12, Zenon DEF NamesInv
  <2>1. Erasing'
    BY <1>8, Zenon DEF Erasing, HttpAt
  <2>2. CASE \E tp \in Existing : tp[1] = topic
    BY <1>4, <1>5, <1>9, <2>1, <2>2, Zenon
  <2>3. CASE ~\E tp \in Existing : tp[1] = topic
    BY <1>1, <1>5, <2>1, <2>3, Zenon DEF IInv, NamesInv, HttpAt
  <2> QED BY <2>2, <2>3, Zenon
<1>14. FilesInv'
  <2>1. Erasing /\ Erasing'
    BY <1>1, <1>8, Zenon DEF Erasing, HttpAt
  <2> QED BY <1>1, <1>4, <1>5, <1>9, <2>1, Zenon DEF IInv, FilesInv
<1>15. ScanInv'
  BY <1>3, <1>5, <1>8, RegistryAssumption, SMTT(30) DEF ScanInv, HttpAt, Shards
<1>16. KeptInv'
  <2>1. Existing' \subseteq Existing /\ \A tp \in Existing' : tp \in TP /\ tp \notin InShard /\ logs'[tp] = logs[tp]
    BY <1>4, <1>9, Zenon
  <2>2. KeptUntilDeleted'
    BY <1>1, <1>6, <1>12, <2>1, KeptFrame, Zenon
  <2>3. ASSUME NEW tp \in Existing', tp[1] = http.topic, ShardOf[tp] < http.shard + 1
        PROVE  logs'[tp] \in overlapped
    <3>1. ShardOf[tp] # http.shard
      BY <2>1, <2>3, Zenon DEF InShard, Of
    <3>2. ShardOf[tp] < http.shard
      BY <1>3, <2>1, <2>3, <3>1, RegistryAssumption DEF Shards
    <3> QED BY <1>1, <2>1, <2>3, <3>2, Zenon DEF IInv, KeptInv, HttpAt
  <2>4. http.shard = NumShards => \A tp \in TP : ShardOf[tp] < http.shard + 1
    BY RegistryAssumption DEF Shards
  <2> QED BY <1>1, <1>5, <1>8, <2>1, <2>2, <2>3, <2>4, Zenon DEF KeptInv, HttpAt
<1> QED BY <1>6, <1>7, <1>10, <1>11, <1>13, <1>14, <1>15, <1>16, Zenon DEF IInv

\* The directory of an erased log is removed.
LEMMA RemoveFilesIInv ==
  ASSUME IInv, RemoveFiles
  PROVE  IInv'
<1>1. PICK tp \in http.found :
        /\ t[Http].pc = "files" /\ dir' = [dir EXCEPT ![tp] = {}] /\ leftover' = leftover \ {tp}
        /\ http' = [http EXCEPT !.found = http.found \ {tp}]
        /\ IF http.found = {tp} THEN HttpTo("name") ELSE t' = t
        /\ mu' = mu /\ logs' = logs /\ alive' = alive /\ created' = created
        /\ known_topics' = known_topics /\ opened' = opened /\ overlapped' = overlapped
  BY Zenon DEF RemoveFiles, remove_all, HttpAt, history
<1>2. "name" \in {"idle"} \cup Scanning /\ t[Http].pc \in {"idle"} \cup Scanning
  BY <1>1, Zenon DEF Scanning
<1>3. TypeOK'
  <2>1. http' \in [topic : Topic \cup {NoTopic}, shard : Nat, found : SUBSET TP, before : SUBSET TP]
    BY <1>1, Zenon DEF IInv, TypeOK
  <2>2. dir' \in [TP -> SUBSET Nat] /\ leftover' \subseteq TP
    BY <1>1, Zenon DEF IInv, TypeOK
  <2> QED BY <1>1, <1>2, <2>1, <2>2, HttpMoves, Zenon DEF IInv, TypeOK
<1>4. ThreadsInv' /\ LogsInv' /\ NewIsLogged'
  BY <1>1, <1>2, HttpMoves, HttpMovesLogs, Zenon
<1>5. t'[Http].pc = IF http.found = {tp} THEN "name" ELSE "files"
  BY <1>1 DEF HttpTo, Idle, IInv, TypeOK, Thread
<1>6. /\ http'.topic = http.topic /\ http'.found = http.found \ {tp}
      /\ tp \in TP /\ dir'[tp] = {}
      /\ \A tq \in TP : tq # tp => dir'[tq] = dir[tq]
  BY <1>1, Zenon DEF IInv, TypeOK
<1>7. NamesInv'
  <2>1. Names' = Names /\ Existing' = Existing
    BY <1>1, Zenon DEF Names, Existing
  <2>2. HttpAt("name")' \/ (Erasing' /\ http'.found # {})
    BY <1>1, <1>5, <1>6, Zenon DEF HttpAt, Erasing
  <2>3. ~HttpAt("name")
    BY <1>1, Zenon DEF HttpAt
  <2> QED BY <1>1, <1>6, <2>1, <2>2, <2>3, Zenon DEF IInv, NamesInv
<1>8. FilesInv'
  <2>1. Erasing /\ (Erasing' \/ (HttpAt("name")' /\ ~Erasing' /\ http.found = {tp}))
    BY <1>1, <1>5, Zenon DEF HttpAt, Erasing
  <2> QED BY <1>1, <1>6, <2>1, Zenon DEF IInv, FilesInv
<1>9. ScanInv'
  BY <1>5, Zenon DEF ScanInv, HttpAt
<1>10. KeptInv'
  <2>1. Names' = Names /\ Existing' = Existing /\ Existing \subseteq TP
    BY <1>1, Zenon DEF Names, Existing
  <2>2. \A tq \in TP : BeingAnnounced(tq) => BeingAnnounced(tq)'
    BY <1>1, <1>2, HttpMoves, Zenon
  <2>3. tp[1] = http.topic
    BY <1>1, Zenon DEF IInv, FilesInv, Erasing, HttpAt
  <2>4. \A tq \in Existing : tq[1] = http.topic => logs[tq] \in overlapped
    BY <1>1, Zenon DEF IInv, KeptInv, HttpAt
  <2>5. \A tq \in Existing : logs[tq] \in dir[tq] => logs[tq] \in dir'[tq] \cup overlapped
    BY <1>6, <2>1, <2>3, <2>4, Zenon
  <2>6. KeptUntilDeleted'
    BY <1>1, <2>1, <2>2, <2>5, KeptFrame, Zenon
  <2> QED BY <1>1, <1>5, <1>6, <2>1, <2>4, <2>6, Zenon DEF KeptInv, HttpAt
<1> QED BY <1>3, <1>4, <1>7, <1>8, <1>9, <1>10, Zenon DEF IInv

\* DELETE removes the name.
LEMMA RemoveNameIInv ==
  ASSUME IInv, RemoveName
  PROVE  IInv'
<1>1. /\ t[Http].pc = "name" /\ HttpTo("idle") /\ http' = NoScan
      /\ mu' = mu /\ logs' = logs /\ alive' = alive /\ created' = created /\ dir' = dir
      /\ leftover' = leftover /\ opened' = opened /\ overlapped' = overlapped
      /\ known_topics' = remove(known_topics, http.topic)
  BY Zenon DEF RemoveName, HttpAt, disk, history
<1>2. "idle" \in {"idle"} \cup Scanning /\ t[Http].pc \in {"idle"} \cup Scanning
  BY <1>1, Zenon DEF Scanning
<1>3. /\ known_topics' \in Seq(Topic)
      /\ \A i \in 1 .. Len(known_topics') : \E k \in 1 .. Len(known_topics) :
           known_topics[k] # http.topic /\ known_topics[k] = known_topics'[i]
      /\ \A k \in 1 .. Len(known_topics) : known_topics[k] # http.topic =>
           \E i \in 1 .. Len(known_topics') : known_topics'[i] = known_topics[k]
  <2>1. known_topics \in Seq(Topic)
    BY Zenon DEF IInv, TypeOK
  <2>2. Without(known_topics', known_topics, http.topic)
    BY <1>1, <2>1, RemoveProperties, Zenon
  <2> QED BY <2>2, Zenon DEF Without
<1>4. TypeOK'
  <2>1. NoScan \in [topic : Topic \cup {NoTopic}, shard : Nat, found : SUBSET TP, before : SUBSET TP]
    BY Zenon DEF NoScan
  <2> QED BY <1>1, <1>2, <1>3, <2>1, HttpMoves, Zenon DEF IInv, TypeOK
<1>5. ThreadsInv' /\ LogsInv' /\ NewIsLogged'
  BY <1>1, <1>2, HttpMoves, HttpMovesLogs, Zenon
<1>6. t'[Http].pc = "idle"
  BY <1>1, Zenon DEF HttpTo, Idle, IInv, TypeOK, Thread
<1>7. NamesInv'
  <2>1. Existing' = Existing
    BY <1>1, Zenon DEF Existing
  <2>2. \A topic \in Names' : topic \in Names /\ topic # http.topic
    BY <1>3 DEF Names
  <2>3. \A topic \in Names' : \E tp \in Existing : tp[1] = topic
    BY <2>2, Zenon DEF IInv, NamesInv
  <2> QED BY <1>3, <2>1, <2>3, Zenon DEF NamesInv
<1>8. FilesInv'
  BY <1>1, <1>6, Zenon DEF IInv, FilesInv, HttpAt, Erasing
<1>9. ScanInv'
  BY <1>6, Zenon DEF ScanInv, HttpAt
<1>10. KeptInv'
  <2>1. Existing' = Existing /\ Existing \subseteq TP
    BY <1>1, Zenon DEF Existing
  <2>2. \A topic \in Names : topic # http.topic => topic \in Names'
    <3> SUFFICES ASSUME NEW topic \in Names, topic # http.topic
                 PROVE  topic \in Names'
      BY Zenon
    <3>1. PICK k \in 1 .. Len(known_topics) : topic = known_topics[k]
      BY Zenon DEF Names
    <3>2. PICK i \in 1 .. Len(known_topics') : known_topics'[i] = topic
      BY <1>3, <3>1, Zenon
    <3> QED BY <3>2, Zenon DEF Names
  <2>3. \A tp \in TP : BeingAnnounced(tp) => BeingAnnounced(tp)'
    BY <1>1, <1>2, HttpMoves, Zenon
  <2>4. \A tp \in Existing : tp[1] = http.topic => logs[tp] \in overlapped
    BY <1>1, Zenon DEF IInv, KeptInv, HttpAt
  <2>5. KeptUntilDeleted'
    BY <1>1, <2>1, <2>2, <2>3, <2>4, Zenon DEF IInv, KeptInv, KeptUntilDeleted
  <2> QED BY <1>6, <2>5, Zenon DEF KeptInv, HttpAt
<1> QED BY <1>4, <1>5, <1>7, <1>8, <1>9, <1>10, Zenon DEF IInv

\* Every step keeps the invariant.
LEMMA NextIInv == IInv /\ [Next]_vars => IInv'
<1> SUFFICES ASSUME IInv, [Next]_vars PROVE IInv'
  BY Zenon
<1>1. ASSUME NEW th \in Thread, NEW tp \in TP, NEW use \in BOOLEAN, get_or_create(th, tp, use)
      PROVE  IInv'
  BY <1>1, FoundIInv, ConstructIInv, Zenon DEF get_or_create
<1>2. ASSUME NEW th \in Thread, NEW tp \in TP, find(th, tp)
      PROVE  IInv'
  BY <1>2, FoundIInv, Zenon DEF find, Found, disk, history
<1>3. ASSUME NEW th \in Worker, produce(th) \/ metadata(th) \/ list_offsets(th) \/ fetch(th)
      PROVE  IInv'
  <2>1. th \in Thread /\ TRUE \in BOOLEAN /\ FALSE \in BOOLEAN
    BY Zenon DEF Thread
  <2>2. \A topic \in Topic : <<topic, 0>> \in TP
    BY RegistryAssumption, Zenon DEF TP
  <2> QED BY <1>1, <1>2, <1>3, <2>1, <2>2, Zenon DEF produce, metadata, list_offsets, fetch
<1>4. ASSUME NEW th \in Thread, on_new_topic(th) \/ Use(th)
      PROVE  IInv'
  BY <1>4, AnnounceIInv, UseIInv, Zenon
<1>5. CASE handle_post_messages \/ handle_get_messages
  <2>1. Http \in Thread /\ TRUE \in BOOLEAN
    BY Zenon DEF Thread
  <2> QED BY <1>1, <1>2, <1>5, <2>1, Zenon DEF handle_post_messages, handle_get_messages
<1>6. CASE handle_get_topics \/ handle_get_topic
  <2>1. "list" \in {"list", "erase"} /\ "list" # "erase" /\ NoTopic \in Topic \cup {NoTopic}
    BY Zenon
  <2> QED BY <1>6, <2>1, StartScanIInv, Zenon DEF handle_get_topics, handle_get_topic
<1>7. CASE handle_delete_topic
  <2>1. "erase" \in {"list", "erase"}
    BY Zenon
  <2> QED BY <1>7, <2>1, StartScanIInv, Zenon DEF handle_delete_topic
<1>8. CASE for_each \/ RespondTopics \/ erase_if \/ NothingErased \/ RemoveFiles \/ RemoveName
  BY <1>8, ForEachIInv, ScanEndsIInv, EraseIInv, RemoveFilesIInv, RemoveNameIInv, Zenon
<1>9. CASE UNCHANGED vars
  <2>1. TypeOK' /\ ThreadsInv' /\ NewIsLogged'
    BY <1>9, SMTT(30) DEF vars, disk, history, IInv, TypeOK, ThreadsInv, NewIsLogged
  <2>2. LogsInv'
    BY <1>9 DEF vars, IInv, LogsInv, OneLogPerPartition, Existing
  <2> QED BY <1>9, <2>1, <2>2, HttpFrame, Zenon DEF vars, disk, history, IInv
<1> QED BY <1>3, <1>4, <1>5, <1>6, <1>7, <1>8, <1>9, Zenon DEF Next

\* The inductive invariant holds in every reachable state.
LEMMA IInvariant == Spec => []IInv
<1>1. Init => IInv
  BY InitIInv, Zenon
<1>2. IInv /\ [Next]_vars => IInv'
  BY NextIInv, Zenon
<1> QED BY <1>1, <1>2, PTL DEF Spec

-----------------------------------------------------------------------------
(***************************************************************************)
(* The theorems                                                            *)
(***************************************************************************)

\* The variables have their types.
THEOREM TypeCorrect == Spec => []TypeOK
<1>1. IInv => TypeOK
  BY Zenon DEF IInv
<1> QED BY <1>1, IInvariant, PTL

\* However many threads ask get_or_create for a partition at once, there is one
\* log for it, and a reference to a live log is to the log of the map.
THEOREM OneLogCorrect == Spec => []OneLogPerPartition
<1>1. IInv => OneLogPerPartition
  BY Zenon DEF IInv, LogsInv
<1> QED BY <1>1, IInvariant, PTL

\* A name in known_topics is of a topic that has a log, unless a DELETE of the
\* topic is between its first shard and the removal of the name.
THEOREM NoGhostCorrect == Spec => []NoGhostTopic
<1>1. IInv => NoGhostTopic
  BY Zenon DEF IInv, NamesInv, NoGhostTopic, BeingDeleted, Erasing
<1> QED BY <1>1, IInvariant, PTL

\* A DELETE leaves no files of a log it has erased, and none of an earlier run in
\* the directory of such a log, whatever that run has left.
THEOREM NoOrphanCorrect == Spec => []NoOrphanFiles
<1>1. IInv => NoOrphanFiles
  <2> SUFFICES ASSUME IInv, NEW tp \in TP, ~BeingDeleted(tp[1])
               PROVE  dir[tp] \subseteq {logs[tp]} /\ (tp \in leftover /\ tp \in opened => tp \in Existing)
    BY Zenon DEF NoOrphanFiles
  <2>1. ~(Erasing /\ tp \in http.found)
    BY Zenon DEF IInv, FilesInv, BeingDeleted, Erasing
  <2> QED BY <2>1, Zenon DEF IInv, FilesInv, Existing
<1> QED BY <1>1, IInvariant, PTL

\* A listing by for_each, shard by shard, has every log that existed when it
\* began, and no other than those that exist when it ends.
THEOREM ListingCorrect == Spec => []ListingComplete
<1>1. IInv => ListingComplete
  BY Zenon DEF IInv, ScanInv, ListingComplete
<1> QED BY <1>1, IInvariant, PTL

\* A log that was constructed while no DELETE of its topic was under way keeps
\* its files and its topic's name until a DELETE destroys it.
THEOREM KeptCorrect == Spec => []KeptUntilDeleted
<1>1. IInv => KeptUntilDeleted
  BY Zenon DEF IInv, KeptInv
<1> QED BY <1>1, IInvariant, PTL
=============================================================================
