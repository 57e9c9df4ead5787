------------------------- MODULE PartitionLogProofs -------------------------
(***************************************************************************)
(* Proofs about the partition log of PartitionLog, for every set of        *)
(* writers and readers, every set of batches and every size of buffer,     *)
(* segment and index interval: offsets are neither reused nor skipped, and *)
(* a read of a log with one segment returns consecutive whole batches.     *)
(***************************************************************************)
EXTENDS PartitionLog, WellFoundedInduction, NaturalsInduction, TLAPS

-----------------------------------------------------------------------------
(***************************************************************************)
(* The inductive invariant                                                 *)
(***************************************************************************)

StoredBatch == [base : Nat, count : Nat, kept : SUBSET Nat, size : Nat, pos : Nat, id : Nat]
Segment == [base : Nat, data : Seq(StoredBatch), write_offset : Nat]
Batch == [count : Nat, kept : SUBSET Nat, size : 0 .. BufferSize]
WriterState == [pc : {"idle", "roll", "retry", "index", "publish"}, base : Nat, batch : Batch,
                id : Nat, byte_off : Int]
ReaderState == [pc : {"idle", "check", "lookup", "size", "map", "scan", "done"},
                start : Nat, max : Int, hw : Nat, pos : Nat, size : Nat, seg : Nat,
                data : Seq(StoredBatch), raced : BOOLEAN, garbage : BOOLEAN]

\* What the variables hold.
TypeOK ==
  /\ segments \in Seq(Segment) /\ segments # <<>>
  /\ next_offset \in Nat
  /\ index \in Seq([offset : Nat, position : Nat])
  /\ append_mu \in Writer \cup {Nobody}
  /\ w \in [Writer -> WriterState]
  /\ r \in [Reader -> ReaderState]
  /\ appends \in Nat /\ restarts \in Nat

\* Only the holder of append_mu_ is inside append(): the offset it gave its
\* batch is still the next one, and no other batch has been numbered since.
\* Where it has rolled, the active segment is still empty.
MutexInv ==
  \A t \in Writer :
    /\ w[t].pc # "idle" <=> append_mu = t
    /\ w[t].pc # "idle" => w[t].base = next_offset /\ w[t].id = appends /\ w[t].batch.size # 0
    /\ w[t].pc = "retry" => Active.write_offset = 0

\* A batch is in a segment and next_offset_ does not count it yet.
Unpublished(t) == w[t].pc \in {"index", "publish"}

\* b lies below next_offset_.
Below(b) == b.base + b.count <= next_offset

\* Every batch of the log lies below next_offset_, but the unpublished one,
\* which begins there.
StoredInv ==
  /\ (\A t \in Writer : ~Unpublished(t)) => \A b \in Stored : Below(b)
  /\ \A t \in Writer : Unpublished(t) =>
       \E b \in Stored : /\ b.base = next_offset /\ b.count = w[t].batch.count
                         /\ \A d \in Stored : d # b => Below(d)
  /\ EveryOffsetStoredOnce

\* The number of the newest batch that is in a segment: that of a writer that
\* has to roll is not yet.
Newest == IF \E t \in Writer : w[t].pc \in {"roll", "retry"} THEN appends - 1 ELSE appends

\* The batches of the active segment lie one behind the other, in the order of
\* their offsets and numbered without a gap up to the newest.
ActiveInv ==
  LET d == Active.data
  IN  /\ d = <<>> => Active.write_offset = 0
      /\ d # <<>> => d[1].pos = 0
      /\ \A i \in 1 .. Len(d) :
           /\ d[i].size > 0 /\ d[i].pos + d[i].size <= Active.write_offset
           /\ d[i].id + (Len(d) - i) = Newest
      /\ \A i, j \in 1 .. Len(d) :
           i < j => d[i].base <= d[j].base /\ d[i].pos + d[i].size <= d[j].pos

\* In a log of one segment an index entry points at a batch, the first entry at
\* the first one; a batch that is stored and not in the index yet is the last.
IndexInv ==
  Len(segments) = 1 =>
    LET d == segments[1].data
    IN  /\ \A k \in 1 .. Len(index) : \E i \in 1 .. Len(d) :
             d[i].base = index[k].offset /\ d[i].pos = index[k].position
        /\ index # <<>> => index[1].position = 0
        /\ \A t \in Writer : w[t].pc = "index" =>
             /\ d # <<>> /\ d[Len(d)].base = w[t].base /\ d[Len(d)].pos = w[t].byte_off
             /\ index = <<>> => Len(d) = 1
        /\ index = <<>> /\ (\A t \in Writer : w[t].pc # "index") => d = <<>>

\* A read that has returned, in a log of one segment: what ReadIsRun says, and
\* that no batch it returned is newer than the newest.
ReadResult(t) ==
  LET data == r[t].data
      d == segments[1].data
  IN  /\ ~r[t].garbage
      /\ \A i \in 1 .. Len(data) - 1 : data[i + 1].id = data[i].id + 1
      /\ data # <<>> =>
           /\ data[1].base >= r[t].start /\ data[1].id <= appends
           /\ \A i \in 1 .. Len(d) : d[i].base >= r[t].start => data[1].id <= d[i].id
      /\ r[t].start < r[t].hw /\ (\E i \in 1 .. Len(d) : d[i].base = r[t].start) => data # <<>>

\* A read of a log of one segment: it scans from a batch that is the first or
\* lies before the offset asked for, and the size it loaded covers every batch
\* that was published when it began.
ReaderOK(t) ==
  /\ r[t].pc # "idle" => r[t].start <= r[t].hw /\ r[t].hw <= next_offset
  /\ r[t].pc # "done" => ~r[t].garbage /\ r[t].data = <<>>
  /\ r[t].pc \in {"lookup", "size", "map", "scan"} => r[t].start < next_offset
  /\ r[t].pc = "scan" => r[t].seg \in 1 .. Len(segments)
  /\ Len(segments) = 1 /\ ~r[t].raced =>
       LET d == segments[1].data
       IN  /\ r[t].pc \in {"size", "map", "scan"} =>
                \E i \in 1 .. Len(d) : d[i].pos = r[t].pos /\ (i = 1 \/ d[i].base < r[t].start)
           /\ r[t].pc \in {"map", "scan"} =>
                /\ r[t].size <= segments[1].write_offset
                /\ \A i \in 1 .. Len(d) : d[i].base < r[t].hw => d[i].pos + d[i].size <= r[t].size
           /\ r[t].pc = "scan" => r[t].seg = 1
           /\ r[t].pc = "done" => ReadResult(t)

ReaderInv == \A t \in Reader : ReaderOK(t)

IInv == TypeOK /\ MutexInv /\ StoredInv /\ ActiveInv /\ IndexInv /\ ReaderInv

-----------------------------------------------------------------------------
(***************************************************************************)
(* Lemmas about the operators                                              *)
(***************************************************************************)

\* A set of numbers has a least one.
LEMMA LeastNumber ==
  ASSUME NEW T \in SUBSET Nat, T # {}
  PROVE  \E m \in T : \A k \in T : m <= k
<1> DEFINE R == OpToRel(<, Nat)
<1>1. IsWellFoundedOn(R, Nat)
  BY NatLessThanWellFounded, Zenon
<1>2. \A x, y \in Nat : x < y => <<x, y>> \in R
  BY Zenon DEF OpToRel
<1> HIDE DEF R
<1>3. PICK x \in T : \A y \in T : ~(<<y, x>> \in R)
  BY <1>1, WFMin, Zenon
<1>4. \A y \in T : ~(y < x)
  BY <1>3, <1>2, Zenon
<1> QED BY <1>4

\* A position of a sequence one longer is the new one, or one of the old ones.
LEMMA LastOrBefore ==
  ASSUME NEW S, NEW s \in Seq(S), NEW m, m = Len(s) + 1, NEW k \in 1 .. m, k # Len(s) + 1
  PROVE  k \in 1 .. Len(s)
OBVIOUS

\* What an append does to the positions of a sequence.
LEMMA Appended ==
  ASSUME NEW S, NEW s \in Seq(S), NEW e \in S
  PROVE  LET D == Append(s, e)
         IN  /\ D # <<>> /\ Len(D) = Len(s) + 1 /\ D[Len(s) + 1] = e
             /\ \A i \in 1 .. Len(s) : D[i] = s[i]
             /\ \A i \in 1 .. Len(D) : i = Len(s) + 1 \/ i \in 1 .. Len(s)
             /\ \A i \in 1 .. Len(s) : i \in 1 .. Len(D)
OBVIOUS

\* The batch numbered a, with n - i batches behind it, has one more behind it
\* after an append.
LEMMA OneMoreBehind ==
  ASSUME NEW a \in Nat, NEW n \in Nat, NEW i \in 1 .. n, NEW last \in Int,
         a + (n - i) = last
  PROVE  a + ((n + 1) - i) = last + 1
OBVIOUS

\* A reader that has not begun.
LEMMA IdleIsReader ==
  IdleReader \in ReaderState /\ IdleReader.garbage = FALSE /\ IdleReader.data = <<>>
BY SMTT(30) DEF IdleReader, ReaderState

\* What the invariant says of a reader depends on its state and on the log's.
LEMMA ReaderOKFrame ==
  ASSUME NEW t, ReaderOK(t), r'[t] = r[t], segments' = segments,
         next_offset' = next_offset, appends' = appends
  PROVE  ReaderOK(t)'
BY SMTT(30) DEF ReaderOK, ReadResult

\* Min is the least index of a set of them.
LEMMA MinIsLeast ==
  ASSUME NEW T \in SUBSET Nat, T # {}
  PROVE  Min(T) \in T /\ \A k \in T : Min(T) <= k
<1>1. \E m \in T : \A k \in T : m <= k
  BY LeastNumber, Zenon
<1> QED BY <1>1, Zenon DEF Min

\* Max is the greatest index of a set of them.
LEMMA MaxIsGreatest ==
  ASSUME NEW n \in Nat, NEW T \in SUBSET (1 .. n), T # {}
  PROVE  Max(T) \in T /\ \A k \in T : k <= Max(T)
<1> DEFINE U == {u \in Nat : \E k \in T : u = n - k}
<1>1. U # {}
  <2>1. PICK k : k \in T
    BY Zenon
  <2>2. n - k \in U
    BY <2>1
  <2> QED BY <2>2, Zenon
<1>2. PICK m \in U : \A u \in U : m <= u
  BY <1>1, LeastNumber, Zenon
<1>3. PICK x \in T : m = n - x
  BY Zenon
<1>4. \A k \in T : k <= x
  <2> SUFFICES ASSUME NEW k \in T PROVE k <= x
    BY Zenon
  <2>1. n - k \in U
    OBVIOUS
  <2>2. n - x <= n - k
    BY <2>1, <1>2, <1>3, Zenon
  <2> QED BY <2>2
<1>5. \A k \in T : x >= k
  BY <1>4, Zenon
<1>6. PICK y \in T : y = Max(T) /\ \A k \in T : y >= k
  BY <1>5, Zenon DEF Max
<1> QED BY <1>6, Zenon

\* f gives the bytes of the buffer in use after each of the first n records.
FilledBy(f, recs, n) ==
  f = [i \in 0 .. n |->
         IF i = 0 THEN Header
         ELSE IF f[i - 1] + recs[i] < BufferSize THEN f[i - 1] + recs[i] ELSE f[i - 1]]

\* There is such a function, and it is Filled.
LEMMA FilledDefined ==
  ASSUME NEW recs \in Batches
  PROVE  FilledBy(Filled(recs), recs, Len(recs))
<1>0. recs \in Seq(Nat \ {0}) /\ Len(recs) \in Nat
  BY SizesAssumption
<1>1. ASSUME NEW n \in Nat PROVE \E f : FilledBy(f, recs, n)
  <2> DEFINE T == {k \in Nat : ~\E f : FilledBy(f, recs, k)}
  <2> SUFFICES ASSUME T # {} PROVE FALSE
    BY Zenon
  <2>1. PICK m \in T : \A k \in T : m <= k
    BY LeastNumber, Zenon
  <2>2. CASE m = 0
    <3> DEFINE g == [i \in 0 .. 0 |-> Header]
    <3>1. FilledBy(g, recs, 0)
      BY DEF FilledBy
    <3> QED BY <2>2, <3>1, Zenon
  <2>3. CASE m # 0
    <3>1. m - 1 \in Nat /\ m - 1 \notin T
      BY <2>1, <2>3
    <3>2. PICK f : FilledBy(f, recs, m - 1)
      BY <3>1, Zenon
    <3> DEFINE e(h, i) == IF i = 0 THEN Header
                          ELSE IF h[i - 1] + recs[i] < BufferSize THEN h[i - 1] + recs[i] ELSE h[i - 1]
               g == [i \in 0 .. m |-> IF i = m THEN e(f, m) ELSE f[i]]
    <3>3. \A i \in 0 .. m - 1 : g[i] = f[i]
      OBVIOUS
    <3>4. g[m] = e(f, m)
      OBVIOUS
    <3>5. ASSUME NEW i \in 0 .. m PROVE g[i] = e(g, i)
      <4>1. CASE i = m
        <5>1. g[i - 1] = f[i - 1]
          BY <4>1, <2>3, <3>3
        <5> QED BY <4>1, <2>3, <3>4, <5>1, Zenon
      <4>2. CASE i # m
        <5>1. i \in 0 .. m - 1
          BY <4>2
        <5>2. f[i] = e(f, i)
          BY <3>2, <5>1, Zenon DEF FilledBy
        <5>3. i # 0 => i - 1 \in 0 .. m - 1
          BY <5>1
        <5> HIDE DEF g
        <5> QED BY <5>1, <5>2, <5>3, <3>3, Zenon
      <4> QED BY <4>1, <4>2, Zenon
    <3>6. g = [i \in 0 .. m |-> g[i]]
      BY Zenon
    <3>7. FilledBy(g, recs, m)
      <4> HIDE DEF g
      <4> QED BY <3>5, <3>6, Zenon DEF FilledBy
    <3> QED BY <3>7, Zenon
  <2> QED BY <2>2, <2>3, Zenon
<1>2. \E f : FilledBy(f, recs, Len(recs))
  BY <1>0, <1>1, Zenon
<1> DEFINE fill == CHOOSE f : FilledBy(f, recs, Len(recs))
<1>3. FilledBy(fill, recs, Len(recs))
  BY <1>2, Zenon
<1>4. Filled(recs) = fill
  BY Zenon DEF Filled, FilledBy
<1> QED BY <1>3, <1>4, Zenon

\* serialize_batch never writes past the buffer: whatever the records, the
\* batch has its header and at most BufferSize units.
LEMMA BatchFitsBuffer ==
  ASSUME NEW recs \in Batches
  PROVE  serialize_batch(recs) \in Batch /\ serialize_batch(recs).size # 0
<1> DEFINE f == Filled(recs)
           P(n) == f[n] \in 1 .. BufferSize
           T == {n \in Nat : n <= Len(recs) /\ ~P(n)}
<1>0. recs \in Seq(Nat \ {0}) /\ Len(recs) \in Nat /\ BufferSize \in Nat /\ BufferSize >= 1
  BY SizesAssumption
<1>1. \A i \in 0 .. Len(recs) :
        f[i] = IF i = 0 THEN Header
               ELSE IF f[i - 1] + recs[i] < BufferSize THEN f[i - 1] + recs[i] ELSE f[i - 1]
  <2> HIDE DEF f
  <2>1. FilledBy(f, recs, Len(recs))
    BY FilledDefined, Zenon DEF f
  <2> DEFINE e(i) == IF i = 0 THEN Header
                     ELSE IF f[i - 1] + recs[i] < BufferSize THEN f[i - 1] + recs[i] ELSE f[i - 1]
  <2>2. f = [i \in 0 .. Len(recs) |-> e(i)]
    BY <2>1, Zenon DEF FilledBy
  <2> HIDE DEF e
  <2>3. \A i \in 0 .. Len(recs) : f[i] = e(i)
    BY <2>2, Zenon
  <2> QED BY <2>3, Zenon DEF e
<1> HIDE DEF f
<1>2. T = {}
  <2> SUFFICES ASSUME T # {} PROVE FALSE
    BY Zenon
  <2>1. PICK m \in T : \A k \in T : m <= k
    BY LeastNumber, Zenon
  <2>2. m \in 0 .. Len(recs) /\ ~P(m)
    BY <1>0
  <2>3. CASE m = 0
    BY <1>0, <1>1, <2>2, <2>3 DEF Header
  <2>4. CASE m # 0
    <3>1. m - 1 \in 0 .. Len(recs) /\ m \in 1 .. Len(recs) /\ m - 1 \notin T
      BY <2>1, <2>4, <2>2, <1>0
    <3>2. P(m - 1)
      BY <3>1, <1>0
    <3>3. recs[m] \in Nat
      BY <1>0, <3>1
    <3>4. f[m] = IF f[m - 1] + recs[m] < BufferSize THEN f[m - 1] + recs[m] ELSE f[m - 1]
      BY <1>1, <3>1, <2>4
    <3> QED BY <1>0, <2>2, <3>2, <3>3, <3>4
  <2> QED BY <2>3, <2>4, Zenon
<1>3. f[Len(recs)] \in 1 .. BufferSize
  BY <1>0, <1>2
<1>4. serialize_batch(recs).size = f[Len(recs)] /\ serialize_batch(recs).count = Len(recs)
  BY Zenon DEF serialize_batch, f
<1>5. serialize_batch(recs) \in Batch
  BY <1>0, <1>3 DEF serialize_batch, Batch, f
<1> QED BY <1>3, <1>4, <1>5

-----------------------------------------------------------------------------
(***************************************************************************)
(* The invariant holds initially, and a writer's steps keep it             *)
(***************************************************************************)

\* A log that has just been constructed, at the start or after a restart.
Constructed ==
  /\ segments = <<NewSegment(0)>> /\ next_offset = 0 /\ index = <<>> /\ append_mu = Nobody
  /\ w = [t \in Writer |-> IdleWriter] /\ r = [t \in Reader |-> IdleReader]
  /\ appends \in Nat /\ restarts \in Nat

\* The constructor establishes the invariant.
LEMMA ConstructedIInv == Constructed => IInv
<1> SUFFICES ASSUME Constructed PROVE IInv
  BY Zenon
<1> USE DEF Constructed
<1>1. NewSegment(0) \in Segment /\ NewSegment(0).data = <<>> /\ NewSegment(0).write_offset = 0
  BY DEF NewSegment, Segment
<1>2. Len(segments) = 1 /\ Active = NewSegment(0) /\ segments[1] = NewSegment(0)
  BY Zenon DEF Active
<1>3. segments \in Seq(Segment) /\ segments # <<>>
  BY <1>1
<1>4. IdleWriter \in WriterState /\ IdleWriter.pc = "idle"
  <2>1. BufferSize \in Nat
    BY SizesAssumption, Zenon
  <2> QED BY <2>1 DEF IdleWriter, WriterState, Batch
<1>5. /\ IdleReader \in ReaderState /\ IdleReader.pc = "idle" /\ IdleReader.data = <<>>
      /\ IdleReader.garbage = FALSE
  BY DEF IdleReader, ReaderState
<1>6. TypeOK
  BY <1>3, <1>4, <1>5 DEF TypeOK
<1>7. MutexInv
  BY <1>4, SizesAssumption, Zenon DEF MutexInv
<1>8. Stored = {}
  BY <1>1, <1>2 DEF Stored
<1>9. StoredInv
  BY <1>4, <1>8 DEF StoredInv, EveryOffsetStoredOnce, Unpublished
<1>10. ActiveInv
  BY <1>1, <1>2 DEF ActiveInv
<1>11. IndexInv
  BY <1>1, <1>2, <1>4 DEF IndexInv
<1>12. ReaderInv
  BY <1>5, Zenon DEF ReaderInv, ReaderOK
<1> QED BY <1>6, <1>7, <1>9, <1>10, <1>11, <1>12, Zenon DEF IInv

\* And so does a step that constructs the log.
LEMMA ConstructedAgain == Constructed' => IInv'
  BY ConstructedIInv, PTL

\* What LogSegment::append puts into the active segment.
NewBatch(base, batch, id) ==
  [base |-> base, count |-> batch.count, kept |-> batch.kept, size |-> batch.size,
   pos |-> Size(Active), id |-> id]

\* The active segment is one of the log's.
LEMMA ActiveType ==
  ASSUME TypeOK
  PROVE  /\ Len(segments) \in Nat \ {0} /\ Len(segments) \in DOMAIN segments
         /\ Active \in Segment
         /\ Active.data \in Seq(StoredBatch) /\ Active.write_offset \in Nat
         /\ \A i \in 1 .. Len(Active.data) : Active.data[i] \in Stored /\ Active.data[i] \in StoredBatch
         /\ \A b \in Stored : b \in StoredBatch
<1>1. Len(segments) \in Nat \ {0} /\ Len(segments) \in DOMAIN segments
  BY DEF TypeOK
<1>2. \A k \in DOMAIN segments : segments[k] \in Segment
  BY DEF TypeOK
<1>3. Active \in Segment
  BY <1>1, <1>2, Zenon DEF Active
<1>4. Active.data \in Seq(StoredBatch) /\ Active.write_offset \in Nat
  BY <1>3, Zenon DEF Segment
<1>5. \A i \in 1 .. Len(Active.data) : Active.data[i] \in Stored /\ Active.data[i] \in StoredBatch
  <2>1. DOMAIN Active.data = 1 .. Len(Active.data)
    BY <1>4
  <2>2. \A i \in 1 .. Len(Active.data) : Active.data[i] \in Stored
    BY <1>1, <2>1 DEF Stored, Active
  <2> QED BY <2>2, <1>4
<1>6. \A b \in Stored : b \in StoredBatch
  <2> SUFFICES ASSUME NEW k \in DOMAIN segments, NEW i \in DOMAIN segments[k].data
               PROVE  segments[k].data[i] \in StoredBatch
    BY DEF Stored
  <2>1. segments[k].data \in Seq(StoredBatch)
    BY <1>2, Zenon DEF Segment
  <2> QED BY <2>1
<1> QED BY <1>1, <1>3, <1>4, <1>5, <1>6, Zenon

\* LogSegment::append changes the active segment only, where it adds the batch
\* at the end.
LEMMA WrittenFacts ==
  ASSUME TypeOK, NEW base \in Nat, NEW batch \in Batch, NEW id \in Nat,
         segments' = Written(base, batch, id)
  PROVE  /\ segments' \in Seq(Segment) /\ segments' # <<>> /\ Len(segments') = Len(segments)
         /\ NewBatch(base, batch, id) \in StoredBatch
         /\ (Active.data)' = Append(Active.data, NewBatch(base, batch, id))
         /\ (Active.write_offset)' = Active.write_offset + batch.size
         /\ Stored' = Stored \cup {NewBatch(base, batch, id)}
<1> DEFINE n == Len(segments)
           nb == NewBatch(base, batch, id)
           seg == [base |-> Active.base, data |-> Append(Active.data, nb),
                   write_offset |-> Active.write_offset + batch.size]
<1>1. /\ n \in Nat \ {0} /\ n \in DOMAIN segments /\ Active \in Segment
      /\ Active.data \in Seq(StoredBatch) /\ Active.write_offset \in Nat
  BY ActiveType, Zenon
<1>2. batch.count \in Nat /\ batch.kept \in SUBSET Nat /\ batch.size \in Nat
  BY SizesAssumption DEF Batch
<1>3. nb \in StoredBatch
  BY <1>1, <1>2, Zenon DEF NewBatch, StoredBatch, Size
<1>4. segments' = [segments EXCEPT ![n] = seg]
  BY Zenon DEF Written, NewBatch, Size
<1> HIDE DEF nb
<1>5. Append(Active.data, nb) \in Seq(StoredBatch) /\ Active.write_offset + batch.size \in Nat
  BY <1>1, <1>2, <1>3
<1>6. seg \in Segment /\ seg.data = Append(Active.data, nb) /\ seg.write_offset = Active.write_offset + batch.size
  BY <1>1, <1>5, Zenon DEF Segment
<1> HIDE DEF seg
<1>7. segments' \in Seq(Segment) /\ segments' # <<>> /\ Len(segments') = n /\ DOMAIN segments' = DOMAIN segments
  BY <1>1, <1>4, <1>6 DEF TypeOK
<1>8. segments'[n] = seg /\ \A k \in DOMAIN segments : k # n => segments'[k] = segments[k]
  BY <1>1, <1>4, Zenon DEF TypeOK
<1>9. Active' = seg
  BY <1>7, <1>8, Zenon DEF Active
<1>10. \A b : b \in Stored' <=> b \in Stored \/ b = nb
  <2> DEFINE old == Active.data
             new == Append(Active.data, nb)
  <2>1. /\ DOMAIN new = 1 .. Len(old) + 1 /\ DOMAIN old = 1 .. Len(old) /\ Len(old) \in Nat
        /\ new[Len(old) + 1] = nb /\ \A i \in 1 .. Len(old) : new[i] = old[i]
    BY <1>1, <1>3
  <2>2. segments'[n].data = new /\ segments[n].data = old
    BY <1>6, <1>8, Zenon DEF Active
  <2> HIDE DEF old, new
  <2>3. \A b : (\E i \in DOMAIN segments'[n].data : b = segments'[n].data[i]) <=>
               (\E i \in DOMAIN segments[n].data : b = segments[n].data[i]) \/ b = nb
    <3>1. ASSUME NEW i \in DOMAIN new PROVE (\E j \in DOMAIN old : new[i] = old[j]) \/ new[i] = nb
      <4>1. i = Len(old) + 1 \/ i \in 1 .. Len(old)
        BY <2>1
      <4> QED BY <4>1, <2>1, Zenon
    <3>2. ASSUME NEW j \in DOMAIN old PROVE j \in DOMAIN new /\ new[j] = old[j]
      BY <2>1
    <3>3. Len(old) + 1 \in DOMAIN new
      BY <2>1
    <3> QED BY <2>1, <2>2, <3>1, <3>2, <3>3, SMTT(30)
  <2>4. \A b : b \in Stored <=> \E k \in DOMAIN segments : \E i \in DOMAIN segments[k].data : b = segments[k].data[i]
    BY DEF Stored
  <2>5. \A b : b \in Stored' <=> \E k \in DOMAIN segments' : \E i \in DOMAIN segments'[k].data : b = segments'[k].data[i]
    BY DEF Stored
  <2> SUFFICES ASSUME NEW b PROVE b \in Stored' <=> b \in Stored \/ b = nb
    BY Zenon
  <2> DEFINE In(k) == \E i \in DOMAIN segments[k].data : b = segments[k].data[i]
             InNew(k) == \E i \in DOMAIN segments'[k].data : b = segments'[k].data[i]
  <2>6. InNew(n) <=> In(n) \/ b = nb
    BY <2>3, Zenon
  <2>7. \A k \in DOMAIN segments : k # n => (InNew(k) <=> In(k))
    BY <1>8, Zenon
  <2>8. (b \in Stored <=> \E k \in DOMAIN segments : In(k)) /\ (b \in Stored' <=> \E k \in DOMAIN segments : InNew(k))
    BY <1>7, <2>4, <2>5
  <2> HIDE DEF In, InNew
  <2> QED BY <1>1, <2>6, <2>7, <2>8, Zenon
<1> QED BY <1>3, <1>6, <1>7, <1>9, <1>10, Zenon DEF nb

\* The writer t puts its batch into the active segment, at the first attempt or
\* after a roll.
LEMMA StoreIInv ==
  ASSUME IInv, NEW t \in Writer, NEW batch \in Batch, batch.size # 0,
         NEW id \in Nat, id = Newest + 1, appends <= id,
         \A v \in Writer : ~Unpublished(v), \A v \in Writer : v # t => w[v].pc = "idle",
         segments' = Written(next_offset, batch, id),
         w' \in [Writer -> WriterState], w'[t].pc = "index", w'[t].base = next_offset,
         w'[t].batch = batch, w'[t].id = id, w'[t].byte_off = Size(Active),
         \A v \in Writer : v # t => w'[v] = w[v],
         append_mu' = t, appends' = id,
         next_offset' = next_offset, index' = index, r' = r, restarts' = restarts
  PROVE  IInv'
<1> DEFINE d == Active.data
           nb == NewBatch(next_offset, batch, id)
           off == Active.write_offset
<1>0. TypeOK /\ MutexInv /\ StoredInv /\ ActiveInv /\ IndexInv /\ ReaderInv
  BY Zenon DEF IInv
<1>1. /\ d \in Seq(StoredBatch) /\ off \in Nat /\ Len(d) \in Nat
      /\ \A i \in 1 .. Len(d) : d[i] \in Stored /\ d[i] \in StoredBatch
      /\ \A b \in Stored : b \in StoredBatch
  BY <1>0, ActiveType
<1>2. /\ next_offset \in Nat /\ appends \in Nat /\ batch.count \in Nat /\ batch.size \in Nat
  BY <1>0, SizesAssumption DEF TypeOK, Batch
<1>3. /\ segments' \in Seq(Segment) /\ segments' # <<>> /\ Len(segments') = Len(segments)
      /\ nb \in StoredBatch
      /\ (Active.data)' = Append(d, nb) /\ (Active.write_offset)' = off + batch.size
      /\ Stored' = Stored \cup {nb}
  BY <1>0, <1>2, WrittenFacts
<1>4. /\ nb.base = next_offset /\ nb.count = batch.count /\ nb.size = batch.size
      /\ nb.pos = off /\ nb.id = id
  BY Zenon DEF NewBatch, Size
<1> DEFINE D == Append(d, nb)
<1>5. /\ D # <<>> /\ Len(D) = Len(d) + 1 /\ D[Len(d) + 1] = nb
      /\ \A i \in 1 .. Len(d) : D[i] = d[i]
      /\ \A i \in 1 .. Len(D) : i = Len(d) + 1 \/ i \in 1 .. Len(d)
      /\ \A i \in 1 .. Len(d) : i \in 1 .. Len(D)
  BY <1>1, <1>3, Appended, Zenon
<1>6. Len(segments) = 1 => /\ segments[1].data = d /\ segments[1].write_offset = off
                           /\ segments'[1].data = D /\ segments'[1].write_offset = off + batch.size
  BY <1>3, Zenon DEF Active
<1>7. w' \in [Writer -> WriterState] /\ w'[t].pc = "index" /\ w'[t].base = next_offset
      /\ w'[t].batch = batch /\ w'[t].id = id /\ w'[t].byte_off = off
      /\ \A v \in Writer : v # t => w'[v].pc = "idle"
  BY Zenon DEF Size
<1>8. \A b \in Stored : b.base + b.count <= next_offset
  BY <1>0, Zenon DEF StoredInv, Below
<1>9. \A i \in 1 .. Len(d) : d[i].base <= next_offset
  <2> SUFFICES ASSUME NEW i \in 1 .. Len(d) PROVE d[i].base <= next_offset
    BY Zenon
  <2>1. d[i].base \in Nat /\ d[i].count \in Nat /\ d[i].base + d[i].count <= next_offset
    BY <1>1, <1>8, Zenon DEF StoredBatch
  <2> QED BY <1>2, <2>1
<1> HIDE DEF d, nb, off, D
<1>10. TypeOK'
  BY <1>0, <1>3, <1>7, Zenon DEF TypeOK
<1>11. MutexInv'
  BY <1>7, <1>0, Zenon DEF MutexInv
<1>12. StoredInv'
  <2>1. Unpublished(t)' /\ \A v \in Writer : Unpublished(v)' => v = t
    BY <1>7, Zenon DEF Unpublished
  <2>2. \A x \in Stored' : x # nb => Below(x)'
    BY <1>3, <1>8, Zenon DEF Below
  <2>3. nb \in Stored'
    BY <1>3, Zenon
  <2>4. EveryOffsetStoredOnce'
    <3> SUFFICES ASSUME NEW o \in 0 .. next_offset - 1
                 PROVE  \E b \in Stored' : Contains(b, o) /\ \A x \in Stored' : Contains(x, o) => x = b
      BY Zenon DEF EveryOffsetStoredOnce, Contains
    <3>1. PICK b \in Stored : Contains(b, o) /\ \A x \in Stored : Contains(x, o) => x = b
      BY <1>0, Zenon DEF StoredInv, EveryOffsetStoredOnce
    <3>2. ~Contains(nb, o)
      BY <1>2, <1>4 DEF Contains
    <3> QED BY <1>3, <3>1, <3>2
  <2>5. w'[t].batch.count = batch.count
    BY <1>7, Zenon
  <2> QED BY <1>4, <2>1, <2>2, <2>3, <2>4, <2>5, Zenon DEF StoredInv
<1>13. Newest' = id
  BY <1>7, Zenon DEF Newest
<1>14. /\ d = <<>> => off = 0
       /\ d # <<>> => d[1].pos = 0
       /\ \A i \in 1 .. Len(d) : d[i].size > 0 /\ d[i].pos + d[i].size <= off /\ d[i].id + (Len(d) - i) = Newest
       /\ \A i, j \in 1 .. Len(d) : i < j => d[i].base <= d[j].base /\ d[i].pos + d[i].size <= d[j].pos
  BY <1>0, Zenon DEF ActiveInv, d, off
<1>15. ActiveInv'
  <2>1. D[1].pos = 0
    <3>1. CASE d = <<>>
      <4>1. Len(d) = 0
        BY <3>1, Zenon
      <4> QED BY <4>1, <3>1, <1>4, <1>5, <1>14
    <3>2. CASE d # <<>>
      <4>1. 1 \in 1 .. Len(d)
        BY <3>2, <1>1
      <4> QED BY <4>1, <3>2, <1>5, <1>14, Zenon
    <3> QED BY <3>1, <3>2, Zenon
  <2>2. ASSUME NEW i \in 1 .. Len(D)
        PROVE  D[i].size > 0 /\ D[i].pos + D[i].size <= off + batch.size /\ D[i].id + (Len(D) - i) = id
    <3>1. CASE i = Len(d) + 1
      BY <3>1, <1>1, <1>2, <1>4, <1>5
    <3>2. CASE i \in 1 .. Len(d)
      <4>1. d[i].pos \in Nat /\ d[i].size \in Nat /\ d[i].id \in Nat
        BY <3>2, <1>1, Zenon DEF StoredBatch
      <4>2. D[i] = d[i] /\ d[i].id + (Len(d) - i) = Newest
        BY <3>2, <1>5, <1>14, Zenon
      <4>3. D[i].id + (Len(D) - i) = id
        <5>1. Newest \in Int
          BY <1>2 DEF Newest
        <5>2. d[i].id + ((Len(d) + 1) - i) = Newest + 1
          BY <3>2, <4>1, <4>2, <5>1, <1>1, OneMoreBehind, Zenon
        <5> QED BY <4>2, <5>2, <1>5, Zenon
      <4>4. D[i].size > 0 /\ D[i].pos + D[i].size <= off
        BY <3>2, <4>2, <1>14, Zenon
      <4>5. D[i].pos + D[i].size \in Nat
        <5>1. D[i] = d[i]
          BY <4>2, Zenon
        <5>2. D[i].pos \in Nat /\ D[i].size \in Nat
          BY <5>1, <4>1, Zenon
        <5> QED BY <5>2
      <4>6. D[i].pos + D[i].size <= off + batch.size
        <5> DEFINE x == D[i].pos + D[i].size
        <5>1. x \in Nat /\ x <= off
          BY <4>4, <4>5, Zenon
        <5> HIDE DEF x
        <5>2. x <= off + batch.size
          BY <5>1, <1>1, <1>2
        <5> QED BY <5>2, Zenon DEF x
      <4> QED BY <4>3, <4>4, <4>6, Zenon
    <3> QED BY <3>1, <3>2, <1>5, Zenon
  <2>3. ASSUME NEW i \in 1 .. Len(D), NEW j \in 1 .. Len(D), i < j
        PROVE  D[i].base <= D[j].base /\ D[i].pos + D[i].size <= D[j].pos
    <3>1. i \in 1 .. Len(d)
      BY <2>3, <1>1, <1>5
    <3>2. CASE j = Len(d) + 1
      BY <3>1, <3>2, <1>4, <1>5, <1>9, <1>14, Zenon
    <3>3. CASE j \in 1 .. Len(d)
      BY <2>3, <3>1, <3>3, <1>5, <1>14, Zenon
    <3> QED BY <3>2, <3>3, <1>5, Zenon
  <2> QED BY <1>3, <1>5, <1>13, <2>1, <2>2, <2>3, Zenon DEF ActiveInv, D
<1>16. IndexInv'
  <2> SUFFICES ASSUME Len(segments) = 1 PROVE IndexInv'
    BY <1>3, Zenon DEF IndexInv
  <2>1. /\ \A k \in 1 .. Len(index) : \E i \in 1 .. Len(d) :
             d[i].base = index[k].offset /\ d[i].pos = index[k].position
        /\ index # <<>> => index[1].position = 0
        /\ index = <<>> => d = <<>>
    BY <1>0, <1>6, SMTT(30) DEF IndexInv, Unpublished
  <2>2. \A k \in 1 .. Len(index) : \E i \in 1 .. Len(D) :
          D[i].base = index[k].offset /\ D[i].pos = index[k].position
    <3> SUFFICES ASSUME NEW k \in 1 .. Len(index)
                 PROVE  \E i \in 1 .. Len(D) : D[i].base = index[k].offset /\ D[i].pos = index[k].position
      BY Zenon
    <3>1. PICK i \in 1 .. Len(d) : d[i].base = index[k].offset /\ d[i].pos = index[k].position
      BY <2>1, Zenon
    <3>2. i \in 1 .. Len(D) /\ D[i] = d[i]
      BY <1>5, Zenon
    <3> QED BY <3>1, <3>2, Zenon
  <2>3. D[Len(D)].base = next_offset /\ D[Len(D)].pos = off
    BY <1>4, <1>5, Zenon
  <2>4. index = <<>> => Len(D) = 1
    <3>1. d = <<>> => Len(d) = 0
      OBVIOUS
    <3> QED BY <2>1, <3>1, <1>5
  <2>5. \A v \in Writer : w'[v].pc = "index" => w'[v].base = next_offset /\ w'[v].byte_off = off
    BY <1>7, Zenon
  <2>6. Len(segments') = 1 /\ segments'[1].data = D
    BY <1>3, <1>6, Zenon
  <2>7. /\ \A k \in 1 .. Len(index') : \E i \in 1 .. Len(D) :
             D[i].base = index'[k].offset /\ D[i].pos = index'[k].position
        /\ index' # <<>> => index'[1].position = 0
    BY <2>1, <2>2, Zenon
  <2>8. \A v \in Writer : w'[v].pc = "index" =>
          /\ D # <<>> /\ D[Len(D)].base = w'[v].base /\ D[Len(D)].pos = w'[v].byte_off
          /\ index' = <<>> => Len(D) = 1
    BY <1>5, <2>3, <2>4, <2>5, Zenon
  <2>9. ~(index' = <<>> /\ (\A v \in Writer : w'[v].pc # "index"))
    BY <1>7, Zenon
  <2> QED BY <2>6, <2>7, <2>8, <2>9, ZenonT(60) DEF IndexInv
<1>17. ReaderInv'
  <2> SUFFICES ASSUME NEW u \in Reader, Len(segments) = 1, ~r[u].raced
               PROVE  /\ r[u].pc \in {"size", "map", "scan"} =>
                           \E i \in 1 .. Len(D) : D[i].pos = r[u].pos /\ (i = 1 \/ D[i].base < r[u].start)
                      /\ r[u].pc \in {"map", "scan"} =>
                           /\ r[u].size <= off + batch.size
                           /\ \A i \in 1 .. Len(D) : D[i].base < r[u].hw => D[i].pos + D[i].size <= r[u].size
                      /\ r[u].pc = "scan" => r[u].seg = 1
                      /\ r[u].pc = "done" => ReadResult(u)'
    <3>1. \A u \in Reader :
            /\ r'[u].pc # "idle" => r'[u].start <= r'[u].hw /\ r'[u].hw <= next_offset'
            /\ r'[u].pc # "done" => ~r'[u].garbage /\ r'[u].data = <<>>
            /\ r'[u].pc \in {"lookup", "size", "map", "scan"} => r'[u].start < next_offset'
            /\ r'[u].pc = "scan" => r'[u].seg \in 1 .. Len(segments')
      BY <1>0, <1>3, Zenon DEF ReaderInv, ReaderOK
    <3>2. Len(segments') = 1 =>
            Len(segments) = 1 /\ segments'[1].data = D /\ segments'[1].write_offset = off + batch.size
      BY <1>3, <1>6, Zenon
    <3> QED BY <3>1, <3>2, SMTT(30) DEF ReaderInv, ReaderOK
  <2>1. /\ r[u].pc \in {"size", "map", "scan"} =>
             \E i \in 1 .. Len(d) : d[i].pos = r[u].pos /\ (i = 1 \/ d[i].base < r[u].start)
        /\ r[u].pc \in {"map", "scan"} =>
             /\ r[u].size <= off
             /\ \A i \in 1 .. Len(d) : d[i].base < r[u].hw => d[i].pos + d[i].size <= r[u].size
        /\ r[u].pc = "scan" => r[u].seg = 1
        /\ r[u].pc = "done" => ReadResult(u)
        /\ r[u].pc # "idle" => r[u].hw <= next_offset
    BY <1>0, <1>6, Zenon DEF ReaderInv, ReaderOK
  <2>2. r[u].size \in Nat /\ r[u].hw \in Nat /\ r[u].start \in Nat
    BY <1>0, Zenon DEF TypeOK, ReaderState
  <2>3. r[u].pc \in {"size", "map", "scan"} =>
          \E i \in 1 .. Len(D) : D[i].pos = r[u].pos /\ (i = 1 \/ D[i].base < r[u].start)
    BY <2>1, <1>5, Zenon
  <2>4. ASSUME r[u].pc \in {"map", "scan"}
        PROVE  /\ r[u].size <= off + batch.size
               /\ \A i \in 1 .. Len(D) : D[i].base < r[u].hw => D[i].pos + D[i].size <= r[u].size
    <3>1. r[u].size <= off + batch.size
      BY <2>1, <2>2, <2>4, <1>1, <1>2, SMTT(30)
    <3>2. ASSUME NEW i \in 1 .. Len(D), D[i].base < r[u].hw PROVE D[i].pos + D[i].size <= r[u].size
      <4>1. i # Len(d) + 1
        BY <3>2, <2>1, <2>2, <2>4, <1>2, <1>4, <1>5, SMTT(30)
      <4> QED BY <4>1, <3>2, <2>1, <2>4, <1>5, Zenon
    <3> QED BY <3>1, <3>2, Zenon
  <2>5. ASSUME r[u].pc = "done" PROVE ReadResult(u)'
    <3> DEFINE data == r[u].data
    <3>1. /\ ~r[u].garbage
          /\ \A i \in 1 .. Len(data) - 1 : data[i + 1].id = data[i].id + 1
          /\ data # <<>> =>
               /\ data[1].base >= r[u].start /\ data[1].id <= appends
               /\ \A i \in 1 .. Len(d) : d[i].base >= r[u].start => data[1].id <= d[i].id
          /\ r[u].start < r[u].hw /\ (\E i \in 1 .. Len(d) : d[i].base = r[u].start) => data # <<>>
      BY <2>1, <2>5, <1>6, Zenon DEF ReadResult
    <3>2. data # <<>> => data[1].id \in Nat
      <4>1. data \in Seq(StoredBatch)
        BY <1>0, Zenon DEF TypeOK, ReaderState
      <4>2. data # <<>> => data[1] \in StoredBatch
        BY <4>1
      <4> QED BY <4>2, Zenon DEF StoredBatch
    <3> HIDE DEF data
    <3>3. data # <<>> => data[1].id <= id
      BY <3>1, <3>2, <1>2
    <3>4. data # <<>> => \A i \in 1 .. Len(D) : D[i].base >= r[u].start => data[1].id <= D[i].id
      BY <3>1, <3>3, <1>4, <1>5, Zenon
    <3>5. r[u].start < r[u].hw /\ (\E i \in 1 .. Len(D) : D[i].base = r[u].start) => data # <<>>
      <4> SUFFICES ASSUME r[u].start < r[u].hw, NEW i \in 1 .. Len(D), D[i].base = r[u].start
                   PROVE  data # <<>>
        BY Zenon
      <4>1. i # Len(d) + 1
        BY <2>1, <2>2, <2>5, <1>2, <1>4, <1>5, SMTT(30)
      <4> QED BY <4>1, <3>1, <1>5, Zenon
    <3> QED BY <3>1, <3>3, <3>4, <3>5, <1>6, ZenonT(60) DEF ReadResult, data
  <2> QED BY <2>1, <2>3, <2>4, <2>5, Zenon
<1> QED BY <1>10, <1>11, <1>12, <1>15, <1>16, <1>17, Zenon DEF IInv

\* A step that leaves the segments and the readers alone keeps what the reads
\* in progress rely on: next_offset_ and the numbers of batches only grow.
LEMMA ReaderFrame ==
  ASSUME IInv, r' = r, segments' = segments,
         next_offset' \in Nat, next_offset <= next_offset', appends' \in Nat, appends <= appends'
  PROVE  ReaderInv'
<1>1. TypeOK /\ ReaderInv
  BY Zenon DEF IInv
<1>2. next_offset \in Nat /\ appends \in Nat
  BY <1>1, Zenon DEF TypeOK
<1> SUFFICES ASSUME NEW t \in Reader
             PROVE  /\ r[t].pc # "idle" => r[t].hw <= next_offset'
                    /\ r[t].pc \in {"lookup", "size", "map", "scan"} => r[t].start < next_offset'
                    /\ Len(segments) = 1 /\ ~r[t].raced /\ r[t].pc = "done" => ReadResult(t)'
  BY <1>1, Zenon DEF ReaderInv, ReaderOK
<1>3. r[t].hw \in Nat /\ r[t].start \in Nat /\ r[t].data \in Seq(StoredBatch)
  BY <1>1, Zenon DEF TypeOK, ReaderState
<1>4. r[t].pc # "idle" => r[t].hw <= next_offset'
  BY <1>1, <1>2, <1>3, SMTT(30) DEF ReaderInv, ReaderOK
<1>5. r[t].pc \in {"lookup", "size", "map", "scan"} => r[t].start < next_offset'
  BY <1>1, <1>2, <1>3, SMTT(30) DEF ReaderInv, ReaderOK
<1>6. ASSUME Len(segments) = 1, ~r[t].raced, r[t].pc = "done" PROVE ReadResult(t)'
  <2>1. ReadResult(t)
    BY <1>1, <1>6, Zenon DEF ReaderInv, ReaderOK
  <2>2. r[t].data # <<>> => r[t].data[1] \in StoredBatch
    BY <1>3
  <2>3. r[t].data # <<>> => r[t].data[1].id \in Nat
    BY <2>2, Zenon DEF StoredBatch
  <2>4. r[t].data # <<>> => r[t].data[1].id <= appends'
    BY <2>1, <2>3, <1>2 DEF ReadResult
  <2> QED BY <2>1, <2>4, Zenon DEF ReadResult
<1> QED BY <1>4, <1>5, <1>6, Zenon

\* append() begins, and stores the batch if it fits.
LEMMA AppendStartIInv ==
  ASSUME IInv, NEW t \in Writer, NEW recs \in Batches, AppendStart(t, recs)
  PROVE  IInv'
<1> DEFINE batch == serialize_batch(recs)
<1>0. TypeOK /\ MutexInv /\ StoredInv /\ ActiveInv /\ IndexInv /\ ReaderInv
  BY Zenon DEF IInv
<1>1. batch \in Batch /\ batch.size # 0
  BY BatchFitsBuffer, Zenon
<1>2. next_offset \in Nat /\ appends \in Nat /\ w \in [Writer -> WriterState]
  BY <1>0, Zenon DEF TypeOK
<1>3. /\ append_mu' = t /\ appends' = appends + 1 /\ next_offset' = next_offset
      /\ index' = index /\ r' = r /\ restarts' = restarts
  BY Zenon DEF AppendStart
<1>4. \A v \in Writer : w[v].pc = "idle"
  BY <1>0, SizesAssumption, Zenon DEF AppendStart, MutexInv
<1>5. Newest = appends /\ \A v \in Writer : ~Unpublished(v)
  BY <1>4, Zenon DEF Newest, Unpublished
<1>6. CASE Fits(batch)
  <2> DEFINE wt == [pc |-> "index", base |-> next_offset, batch |-> batch,
                    id |-> appends + 1, byte_off |-> Size(Active)]
  <2>1. segments' = Written(next_offset, batch, appends + 1) /\ w' = [w EXCEPT ![t] = wt]
    BY <1>6, Zenon DEF AppendStart
  <2> HIDE DEF batch
  <2>3. /\ wt \in WriterState /\ wt.pc = "index" /\ wt.base = next_offset /\ wt.batch = batch
        /\ wt.id = appends + 1 /\ wt.byte_off = Size(Active)
    BY <1>0, <1>1, <1>2, ActiveType, SMTT(30) DEF WriterState, Size
  <2> HIDE DEF wt
  <2>4. w' \in [Writer -> WriterState] /\ w'[t] = wt /\ \A v \in Writer : v # t => w'[v] = w[v]
    BY <1>2, <2>1, <2>3, Zenon
  <2>2. appends + 1 \in Nat /\ appends <= appends + 1 /\ appends + 1 = Newest + 1
    BY <1>2, <1>5
  <2> QED BY <1>1, <1>3, <1>4, <1>5, <2>1, <2>2, <2>3, <2>4, StoreIInv, Zenon
<1>7. CASE ~Fits(batch)
  <2> DEFINE wt == [pc |-> "roll", base |-> next_offset, batch |-> batch, id |-> appends + 1, byte_off |-> -1]
  <2>1. segments' = segments /\ w' = [w EXCEPT ![t] = wt]
    BY <1>7, Zenon DEF AppendStart
  <2> HIDE DEF batch
  <2>2. wt \in WriterState /\ wt.pc = "roll" /\ wt.base = next_offset /\ wt.id = appends + 1 /\ wt.batch = batch
    BY <1>1, <1>2 DEF WriterState
  <2> HIDE DEF wt
  <2>3. w' \in [Writer -> WriterState] /\ w'[t] = wt /\ \A v \in Writer : v # t => w'[v].pc = "idle"
    BY <1>2, <1>4, <2>1, <2>2, Zenon
  <2>4. TypeOK'
    BY <1>0, <1>2, <1>3, <2>1, <2>3 DEF TypeOK
  <2>5. MutexInv'
    BY <1>1, <1>3, <2>2, <2>3, Zenon DEF MutexInv
  <2>6. StoredInv'
    <3>1. \A v \in Writer : ~Unpublished(v)'
      BY <2>2, <2>3, Zenon DEF Unpublished
    <3>2. \A b \in Stored : Below(b)
      BY <1>0, <1>5, Zenon DEF StoredInv
    <3>3. Stored' = Stored /\ EveryOffsetStoredOnce'
      BY <1>0, <1>3, <2>1, SMTT(30) DEF StoredInv, Stored, EveryOffsetStoredOnce, Contains
    <3>4. \A b \in Stored' : Below(b)'
      BY <1>3, <3>2, <3>3, Zenon DEF Below
    <3> QED BY <3>1, <3>3, <3>4, Zenon DEF StoredInv
  <2>7. ActiveInv'
    <3>1. Newest' = Newest
      BY <1>2, <1>3, <1>5, <2>2, <2>3 DEF Newest
    <3> QED BY <1>0, <2>1, <3>1, Zenon DEF ActiveInv, Active
  <2>8. IndexInv'
    BY <1>0, <1>3, <1>4, <2>1, <2>2, <2>3, Zenon DEF IndexInv
  <2>9. ReaderInv'
    BY <1>2, <1>3, <2>1, ReaderFrame
  <2> QED BY <2>4, <2>5, <2>6, <2>7, <2>8, <2>9, Zenon DEF IInv
<1> QED BY <1>6, <1>7, Zenon

\* roll_segment() adds an empty segment, and the log has more than one.
LEMMA RollIInv ==
  ASSUME IInv, NEW t \in Writer, roll_segment(t)
  PROVE  IInv'
<1> DEFINE n == Len(segments)
           ns == NewSegment(next_offset)
<1>0. TypeOK /\ MutexInv /\ StoredInv /\ ActiveInv /\ IndexInv /\ ReaderInv
  BY Zenon DEF IInv
<1>1. next_offset \in Nat /\ w \in [Writer -> WriterState] /\ segments \in Seq(Segment) /\ n \in Nat \ {0}
  BY <1>0 DEF TypeOK
<1>2. /\ next_offset' = next_offset /\ index' = index /\ r' = r /\ appends' = appends /\ restarts' = restarts
      /\ append_mu' = append_mu
      /\ segments' = Append(segments, ns)
      /\ w[t].pc = "roll" /\ w' = [w EXCEPT ![t].pc = "retry"]
  BY Zenon DEF roll_segment
<1>3. ns \in Segment /\ ns.data = <<>> /\ ns.write_offset = 0
  BY <1>1 DEF NewSegment, Segment
<1> HIDE DEF ns
<1>4. /\ segments' \in Seq(Segment) /\ segments' # <<>> /\ Len(segments') = n + 1 /\ segments'[n + 1] = ns
      /\ DOMAIN segments' = 1 .. n + 1 /\ DOMAIN segments = 1 .. n
      /\ \A k \in 1 .. n : segments'[k] = segments[k]
  BY <1>1, <1>2, <1>3
<1>5. Active' = ns /\ Len(segments') # 1
  BY <1>1, <1>4 DEF Active
<1>6. /\ w' \in [Writer -> WriterState] /\ w'[t].pc = "retry" /\ w'[t].base = w[t].base
      /\ w'[t].id = w[t].id /\ w'[t].batch = w[t].batch
      /\ \A v \in Writer : v # t => w'[v] = w[v]
  BY <1>1, <1>2, Zenon DEF WriterState
<1>7. TypeOK'
  BY <1>0, <1>2, <1>4, <1>6, Zenon DEF TypeOK
<1>8. MutexInv'
  <2>1. \A v \in Writer : v # t => w[v].pc = "idle" /\ append_mu = t
    BY <1>0, <1>2, Zenon DEF MutexInv
  <2>2. append_mu = t
    BY <1>0, <1>2, Zenon DEF MutexInv
  <2> QED BY <1>0, <1>2, <1>3, <1>5, <1>6, <2>1, <2>2, Zenon DEF MutexInv
<1>9. Stored' = Stored
  <2>1. \A b : b \in Stored <=> \E k \in 1 .. n : \E i \in DOMAIN segments[k].data : b = segments[k].data[i]
    BY <1>4 DEF Stored
  <2>2. \A b : b \in Stored' <=> \E k \in 1 .. n + 1 : \E i \in DOMAIN segments'[k].data : b = segments'[k].data[i]
    BY <1>4 DEF Stored
  <2>3. DOMAIN segments'[n + 1].data = {}
    BY <1>3, <1>4
  <2>4. \A k : k \in 1 .. n + 1 <=> k = n + 1 \/ k \in 1 .. n
    BY <1>1
  <2>5. \A b : b \in Stored' <=> b \in Stored
    BY <1>4, <2>1, <2>2, <2>3, <2>4
  <2> QED BY <2>5, Zenon
<1>10. StoredInv'
  <2>1. \A v \in Writer : Unpublished(v)' <=> Unpublished(v)
    BY <1>2, <1>6, Zenon DEF Unpublished
  <2>2. \A v \in Writer : Unpublished(v) => w'[v].batch.count = w[v].batch.count
    BY <1>6, Zenon
  <2>3. \A b : Below(b)' <=> Below(b)
    BY <1>2, Zenon DEF Below
  <2>4. EveryOffsetStoredOnce'
    BY <1>0, <1>2, <1>9, Zenon DEF StoredInv, EveryOffsetStoredOnce, Contains
  <2> QED BY <1>0, <1>2, <1>9, <2>1, <2>2, <2>3, <2>4, Zenon DEF StoredInv
<1>11. ActiveInv'
  BY <1>3, <1>5 DEF ActiveInv
<1>12. IndexInv'
  BY <1>5, Zenon DEF IndexInv
<1>13. ReaderInv'
  BY <1>0, <1>2, <1>5 DEF ReaderInv, ReaderOK
<1> QED BY <1>7, <1>8, <1>10, <1>11, <1>12, <1>13, Zenon DEF IInv

\* The second attempt stores the batch: a segment that has just been created is
\* empty, and no batch is larger than the buffer it was serialized in.
LEMMA RetryIInv ==
  ASSUME IInv, NEW t \in Writer, AppendRetry(t)
  PROVE  IInv'
<1>0. TypeOK /\ MutexInv
  BY Zenon DEF IInv
<1>1. w \in [Writer -> WriterState] /\ w[t] \in WriterState /\ appends \in Nat
  BY <1>0, Zenon DEF TypeOK
<1>2. /\ w[t].pc = "retry" /\ append_mu = t /\ w[t].base = next_offset /\ w[t].id = appends
      /\ w[t].batch.size # 0 /\ Active.write_offset = 0
  BY <1>0, Zenon DEF MutexInv, AppendRetry
<1>3. w[t].batch \in Batch /\ w[t].batch.size \in 0 .. BufferSize
  BY <1>1, Zenon DEF WriterState, Batch
<1>4. Fits(w[t].batch)
  BY <1>2, <1>3, SizesAssumption DEF Fits, Size
<1>5. /\ segments' = Written(next_offset, w[t].batch, appends)
      /\ w' = [w EXCEPT ![t].pc = "index", ![t].byte_off = Size(Active)]
      /\ append_mu' = t /\ appends' = appends /\ next_offset' = next_offset
      /\ index' = index /\ r' = r /\ restarts' = restarts
  BY <1>2, <1>4, Zenon DEF AppendRetry
<1>6. /\ w' \in [Writer -> WriterState] /\ w'[t].pc = "index" /\ w'[t].base = w[t].base
      /\ w'[t].batch = w[t].batch /\ w'[t].id = w[t].id /\ w'[t].byte_off = Size(Active)
      /\ \A v \in Writer : v # t => w'[v] = w[v]
  <2>1. Size(Active) \in Int
    BY <1>0, ActiveType DEF Size
  <2> QED BY <1>1, <1>5, <2>1, Zenon DEF WriterState
<1>7. \A v \in Writer : v # t => w[v].pc = "idle"
  BY <1>0, <1>2, Zenon DEF MutexInv
<1>8. \A v \in Writer : ~Unpublished(v)
  BY <1>2, <1>7, Zenon DEF Unpublished
<1>9. appends = Newest + 1
  BY <1>1, <1>2 DEF Newest
<1>10. appends <= appends
  BY <1>1
<1> QED BY <1>1, <1>2, <1>3, <1>5, <1>6, <1>7, <1>8, <1>9, <1>10, StoreIInv

\* The index entry is added, or not.
LEMMA IndexAddIInv ==
  ASSUME IInv, NEW t \in Writer, IndexAdd(t)
  PROVE  IInv'
<1> DEFINE entry == [offset |-> w[t].base, position |-> w[t].byte_off]
<1>0. TypeOK /\ MutexInv /\ StoredInv /\ ActiveInv /\ IndexInv /\ ReaderInv
  BY Zenon DEF IInv
<1>1. /\ next_offset' = next_offset /\ segments' = segments /\ r' = r /\ appends' = appends
      /\ restarts' = restarts /\ append_mu' = append_mu
      /\ index' = IF NeedsEntry(w[t].byte_off) THEN Append(index, entry) ELSE index
      /\ w[t].pc = "index" /\ w' = [w EXCEPT ![t].pc = "publish"]
  BY Zenon DEF IndexAdd
<1>2. /\ w \in [Writer -> WriterState] /\ w[t] \in WriterState
      /\ w[t].base \in Nat /\ w[t].byte_off \in Int
      /\ index \in Seq([offset : Nat, position : Nat]) /\ next_offset \in Nat /\ appends \in Nat
  BY <1>0, Zenon DEF TypeOK, WriterState
<1>3. /\ w' \in [Writer -> WriterState] /\ w'[t].pc = "publish" /\ w'[t].base = w[t].base
      /\ w'[t].id = w[t].id /\ w'[t].batch = w[t].batch
      /\ \A v \in Writer : v # t => w'[v] = w[v]
  BY <1>1, <1>2, Zenon DEF WriterState
<1>4. NeedsEntry(w[t].byte_off) =>
        /\ entry \in [offset : Nat, position : Nat]
        /\ index' \in Seq([offset : Nat, position : Nat]) /\ Len(index') = Len(index) + 1
        /\ index'[Len(index) + 1] = entry /\ \A k \in 1 .. Len(index) : index'[k] = index[k]
  <2> SUFFICES ASSUME NeedsEntry(w[t].byte_off)
               PROVE  /\ entry \in [offset : Nat, position : Nat]
                      /\ index' \in Seq([offset : Nat, position : Nat]) /\ Len(index') = Len(index) + 1
                      /\ index'[Len(index) + 1] = entry /\ \A k \in 1 .. Len(index) : index'[k] = index[k]
    BY Zenon
  <2>1. entry \in [offset : Nat, position : Nat]
    BY <1>2 DEF NeedsEntry
  <2>2. index' = Append(index, entry)
    BY <1>1, Zenon
  <2> HIDE DEF entry
  <2> QED BY <1>2, <2>1, <2>2
<1>5. TypeOK'
  <2>1. index' \in Seq([offset : Nat, position : Nat])
    BY <1>1, <1>2, <1>4, Zenon
  <2> QED BY <1>0, <1>1, <1>3, <2>1, Zenon DEF TypeOK
<1>6. Active' = Active /\ Stored' = Stored
  BY <1>1 DEF Active, Stored
<1>7. \A v \in Writer : v # t => w[v].pc = "idle"
  BY <1>0, <1>1, Zenon DEF MutexInv
<1>8. MutexInv'
  BY <1>0, <1>1, <1>3, <1>7, Zenon DEF MutexInv
<1>9. StoredInv'
  <2>1. \A v \in Writer : (Unpublished(v)' <=> Unpublished(v)) /\ w'[v].batch.count = w[v].batch.count
    BY <1>1, <1>3, Zenon DEF Unpublished
  <2>2. \A b : Below(b)' <=> Below(b)
    BY <1>1, Zenon DEF Below
  <2>3. EveryOffsetStoredOnce'
    BY <1>0, <1>1, <1>6, Zenon DEF StoredInv, EveryOffsetStoredOnce, Contains
  <2> QED BY <1>0, <1>1, <1>6, <2>1, <2>2, <2>3, Zenon DEF StoredInv
<1>10. ActiveInv'
  <2>1. Newest' = Newest
    BY <1>1, <1>3, Zenon DEF Newest
  <2> QED BY <1>0, <1>6, <2>1, Zenon DEF ActiveInv
<1>11. IndexInv'
  <2> SUFFICES ASSUME Len(segments) = 1 PROVE IndexInv'
    BY <1>1, Zenon DEF IndexInv
  <2> DEFINE d == segments[1].data
  <2>1. /\ \A k \in 1 .. Len(index) : \E i \in 1 .. Len(d) :
             d[i].base = index[k].offset /\ d[i].pos = index[k].position
        /\ index # <<>> => index[1].position = 0
        /\ d # <<>> /\ d[Len(d)].base = w[t].base /\ d[Len(d)].pos = w[t].byte_off
        /\ index = <<>> => Len(d) = 1
    BY <1>0, <1>1, Zenon DEF IndexInv
  <2>2. d # <<>> => d[1].pos = 0
    BY <1>0, Zenon DEF ActiveInv, Active
  <2>3. Len(d) \in 1 .. Len(d)
    <3>1. d \in Seq(StoredBatch)
      BY <1>0, ActiveType, Zenon DEF Active
    <3> HIDE DEF d
    <3> QED BY <2>1, <3>1
  <2> HIDE DEF d
  <2>4. index = <<>> => w[t].byte_off = 0 /\ NeedsEntry(w[t].byte_off)
    <3>1. 0 % IndexInterval = 0
      BY SizesAssumption
    <3>2. index = <<>> => w[t].byte_off = d[1].pos
      BY <2>1, Zenon
    <3>3. NeedsEntry(0)
      BY <3>1 DEF NeedsEntry
    <3> QED BY <2>1, <2>2, <3>2, <3>3, Zenon
  <2>5. index' # <<>>
    <3>1. CASE NeedsEntry(w[t].byte_off)
      <4>1. Len(index') # 0
        BY <3>1, <1>2, <1>4
      <4> QED BY <4>1
    <3>2. CASE ~NeedsEntry(w[t].byte_off)
      BY <3>2, <1>1, <2>4, Zenon
    <3> QED BY <3>1, <3>2, Zenon
  <2>6. index'[1].position = 0
    <3>1. CASE index = <<>>
      <4>1. Len(index) = 0
        BY <3>1, Zenon
      <4> QED BY <3>1, <4>1, <2>4, <1>4
    <3>2. CASE index # <<>>
      <4>1. 1 \in 1 .. Len(index)
        BY <3>2, <1>2
      <4> QED BY <3>2, <4>1, <2>1, <1>1, <1>4, Zenon
    <3> QED BY <3>1, <3>2, Zenon
  <2>7. \A k \in 1 .. Len(index') : \E i \in 1 .. Len(d) :
          d[i].base = index'[k].offset /\ d[i].pos = index'[k].position
    <3> SUFFICES ASSUME NeedsEntry(w[t].byte_off), NEW k \in 1 .. Len(index')
                 PROVE  \E i \in 1 .. Len(d) : d[i].base = index'[k].offset /\ d[i].pos = index'[k].position
      BY <1>1, <2>1, Zenon
    <3>1. CASE k = Len(index) + 1
      BY <3>1, <1>4, <2>1, <2>3
    <3>2. CASE k # Len(index) + 1
      <4>1. k \in 1 .. Len(index)
        BY <3>2, <1>2, <1>4, LastOrBefore, Zenon
      <4> QED BY <4>1, <1>4, <2>1, Zenon
    <3> QED BY <3>1, <3>2, Zenon
  <2>8. \A v \in Writer : w'[v].pc # "index"
    BY <1>3, <1>7, Zenon
  <2> QED BY <1>1, <2>5, <2>6, <2>7, <2>8, Zenon DEF IndexInv, d
<1>12. ReaderInv'
  BY <1>1, <1>2, ReaderFrame
<1> QED BY <1>5, <1>8, <1>9, <1>10, <1>11, <1>12, Zenon DEF IInv

\* next_offset_ moves past the batch, and append_mu_ is released.
LEMMA PublishIInv ==
  ASSUME IInv, NEW t \in Writer, Publish(t)
  PROVE  IInv'
<1>0. TypeOK /\ MutexInv /\ StoredInv /\ ActiveInv /\ IndexInv /\ ReaderInv
  BY Zenon DEF IInv
<1>1. /\ segments' = segments /\ index' = index /\ r' = r /\ appends' = appends
      /\ restarts' = restarts /\ append_mu' = Nobody
      /\ next_offset' = w[t].base + w[t].batch.count
      /\ w[t].pc = "publish" /\ w' = [w EXCEPT ![t] = IdleWriter]
  BY Zenon DEF Publish
<1>2. /\ w \in [Writer -> WriterState] /\ w[t].batch.count \in Nat /\ w[t].base = next_offset
      /\ next_offset \in Nat /\ appends \in Nat
  BY <1>0, <1>1, Zenon DEF TypeOK, MutexInv, WriterState, Batch
<1>3. IdleWriter \in WriterState /\ IdleWriter.pc = "idle"
  <2>1. BufferSize \in Nat
    BY SizesAssumption, Zenon
  <2> QED BY <2>1, SMTT(30) DEF IdleWriter, WriterState, Batch
<1>4. \A v \in Writer : v # t => w[v].pc = "idle"
  BY <1>0, <1>1, Zenon DEF MutexInv
<1>5. w' \in [Writer -> WriterState] /\ \A v \in Writer : w'[v].pc = "idle"
  BY <1>1, <1>2, <1>3, <1>4, Zenon
<1>6. next_offset' \in Nat /\ next_offset <= next_offset'
  BY <1>1, <1>2
<1>7. TypeOK'
  BY <1>0, <1>1, <1>5, <1>6, Zenon DEF TypeOK
<1>8. MutexInv'
  BY <1>1, <1>5, SizesAssumption, Zenon DEF MutexInv
<1>9. Active' = Active /\ Stored' = Stored
  BY <1>1 DEF Active, Stored
<1>10. StoredInv'
  <2>1. \A b \in Stored : b.base \in Nat /\ b.count \in Nat
    <3>1. \A b \in Stored : b \in StoredBatch
      BY <1>0, ActiveType, Zenon
    <3> QED BY <3>1, Zenon DEF StoredBatch
  <2>2. PICK b \in Stored : /\ b.base = next_offset /\ b.count = w[t].batch.count
                            /\ \A x \in Stored : x # b => Below(x)
    BY <1>0, <1>1, Zenon DEF StoredInv, Unpublished
  <2>3. \A x \in Stored' : Below(x)'
    BY <1>1, <1>2, <1>6, <1>9, <2>1, <2>2 DEF Below
  <2>4. EveryOffsetStoredOnce'
    <3> SUFFICES ASSUME NEW o \in 0 .. next_offset' - 1
                 PROVE  \E c \in Stored : Contains(c, o) /\ \A x \in Stored : Contains(x, o) => x = c
      BY <1>9, Zenon DEF EveryOffsetStoredOnce, Contains
    <3>1. CASE o < next_offset
      <4>1. o \in 0 .. next_offset - 1
        BY <1>2, <1>6, <3>1
      <4> QED BY <4>1, <1>0, Zenon DEF StoredInv, EveryOffsetStoredOnce
    <3>2. CASE ~(o < next_offset)
      <4>1. Contains(b, o)
        BY <1>1, <1>2, <1>6, <2>2, <3>2 DEF Contains
      <4>2. ASSUME NEW x \in Stored, x # b PROVE ~Contains(x, o)
        <5>1. x.base + x.count <= next_offset
          BY <2>2, <4>2, Zenon DEF Below
        <5> QED BY <5>1, <2>1, <3>2, <1>2, <1>6 DEF Contains
      <4> QED BY <4>1, <4>2, Zenon
    <3> QED BY <3>1, <3>2, Zenon
  <2>5. \A v \in Writer : ~Unpublished(v)'
    BY <1>5, Zenon DEF Unpublished
  <2> QED BY <2>3, <2>4, <2>5, Zenon DEF StoredInv
<1>11. ActiveInv'
  <2>1. Newest' = Newest
    BY <1>1, <1>4, <1>5, Zenon DEF Newest
  <2> QED BY <1>0, <1>9, <2>1, Zenon DEF ActiveInv
<1>12. IndexInv'
  BY <1>0, <1>1, <1>4, <1>5, Zenon DEF IndexInv
<1>13. ReaderInv'
  BY <1>1, <1>2, <1>6, ReaderFrame
<1> QED BY <1>7, <1>8, <1>10, <1>11, <1>12, <1>13, Zenon DEF IInv

-----------------------------------------------------------------------------
(***************************************************************************)
(* A reader's steps keep the invariant                                     *)
(***************************************************************************)

\* A step of a reader changes its own state only.
LEMMA ReadStepIInv ==
  ASSUME IInv, NEW t \in Reader, NEW st \in ReaderState, Step(t, st),
         r'[t] = st => ReaderOK(t)'
  PROVE  IInv'
<1>0. TypeOK /\ MutexInv /\ StoredInv /\ ActiveInv /\ IndexInv /\ ReaderInv
  BY Zenon DEF IInv
<1>1. /\ segments' = segments /\ next_offset' = next_offset /\ index' = index /\ append_mu' = append_mu
      /\ w' = w /\ appends' = appends /\ restarts' = restarts /\ r' = [r EXCEPT ![t] = st]
  BY Zenon DEF Step
<1>2. r' \in [Reader -> ReaderState] /\ r'[t] = st /\ \A u \in Reader : u # t => r'[u] = r[u]
  BY <1>0, <1>1, Zenon DEF TypeOK
<1>3. TypeOK'
  BY <1>0, <1>1, <1>2, Zenon DEF TypeOK
<1>4. MutexInv'
  BY <1>0, <1>1, Zenon DEF MutexInv, Active
<1>5. StoredInv'
  BY <1>0, <1>1, SMTT(30) DEF StoredInv, Unpublished, Stored, Below, EveryOffsetStoredOnce, Contains
<1>6. ActiveInv'
  BY <1>0, <1>1, Zenon DEF ActiveInv, Active, Newest
<1>7. IndexInv'
  BY <1>0, <1>1, Zenon DEF IndexInv
<1>8. ReaderInv'
  <2>1. ASSUME NEW u \in Reader, u # t PROVE ReaderOK(u)'
    <3>1. ReaderOK(u)
      BY <1>0, Zenon DEF ReaderInv
    <3>2. r'[u] = r[u]
      BY <2>1, <1>2, Zenon
    <3> QED BY <3>1, <3>2, <1>1, ReaderOKFrame, Zenon
  <2> QED BY <1>2, <2>1, Zenon DEF ReaderInv
<1> QED BY <1>3, <1>4, <1>5, <1>6, <1>7, <1>8, Zenon DEF IInv

\* A read begins.
LEMMA ReadStartIInv ==
  ASSUME IInv, NEW t \in Reader, NEW start \in 0 .. next_offset, NEW max \in MaxBytes,
         ReadStart(t, start, max)
  PROVE  IInv'
<1> DEFINE st == [IdleReader EXCEPT !.pc = "check", !.start = start, !.max = max, !.hw = next_offset]
<1>1. next_offset \in Nat /\ max \in Int /\ start \in Nat
  BY SizesAssumption DEF IInv, TypeOK
<1>2. /\ st \in ReaderState /\ st.pc = "check" /\ st.start = start /\ st.hw = next_offset
      /\ st.garbage = FALSE /\ st.data = <<>>
  BY <1>1, IdleIsReader, Zenon DEF ReaderState
<1>3. Step(t, st)
  BY Zenon DEF ReadStart
<1> HIDE DEF st
<1>4. r'[t] = st => ReaderOK(t)'
  BY <1>1, <1>2, <1>3, SMTT(90) DEF ReaderOK, Step
<1> QED BY <1>2, <1>3, <1>4, ReadStepIInv, Zenon

\* The offset asked for is compared with next_offset_.
LEMMA ReadCheckIInv ==
  ASSUME IInv, NEW t \in Reader, ReadCheck(t)
  PROVE  IInv'
<1> DEFINE st == [r[t] EXCEPT !.pc = IF r[t].start >= next_offset THEN "done" ELSE "lookup"]
<1>0. TypeOK /\ ReaderOK(t)
  BY Zenon DEF IInv, ReaderInv
<1>1. r[t] \in ReaderState /\ r[t].start \in Nat /\ r[t].hw \in Nat /\ next_offset \in Nat
  BY <1>0, Zenon DEF TypeOK, ReaderState
<1>2. /\ st \in ReaderState /\ st.start = r[t].start /\ st.hw = r[t].hw
      /\ st.garbage = r[t].garbage /\ st.data = r[t].data
      /\ st.pc = IF r[t].start >= next_offset THEN "done" ELSE "lookup"
  BY <1>1, Zenon DEF ReaderState
<1>3. Step(t, st) /\ r[t].pc = "check"
  BY Zenon DEF ReadCheck
<1>4. /\ r[t].start <= r[t].hw /\ r[t].hw <= next_offset
      /\ r[t].garbage = FALSE /\ r[t].data = <<>>
  BY <1>0, <1>1, <1>3, Zenon DEF ReaderOK, ReaderState
<1>5. st.pc = "lookup" => r[t].start < next_offset
  BY <1>1, <1>2
<1>6. st.pc = "done" => ~(r[t].start < r[t].hw)
  BY <1>1, <1>2, <1>4
<1> HIDE DEF st
<1>7. r'[t] = st => ReaderOK(t)'
  <2> SUFFICES ASSUME r'[t] = st PROVE ReaderOK(t)'
    BY Zenon
  <2>1. st.pc = "done" => ReadResult(t)'
    <3>1. Len(<<>>) = 0
      BY Zenon
    <3> QED BY <1>2, <1>4, <1>6, <3>1, SMTT(30) DEF ReadResult
  <2> QED BY <1>2, <1>3, <1>4, <1>5, <2>1, Zenon DEF ReaderOK, Step
<1> QED BY <1>2, <1>3, <1>7, ReadStepIInv, Zenon

\* The index gives a place to begin at.
LEMMA ReadLookupIInv ==
  ASSUME IInv, NEW t \in Reader, ReadLookup(t)
  PROVE  IInv'
<1>0. TypeOK /\ MutexInv /\ StoredInv /\ ActiveInv /\ IndexInv /\ ReaderOK(t)
  BY Zenon DEF IInv, ReaderInv
<1>1. /\ r[t] \in ReaderState /\ r[t].start \in Nat /\ next_offset \in Nat
      /\ index \in Seq([offset : Nat, position : Nat])
  BY <1>0, Zenon DEF TypeOK, ReaderState
<1>2. PICK pos \in IF PushingEntry THEN 0 .. SegmentSize ELSE {lookup(index, r[t].start)} :
        Step(t, [r[t] EXCEPT !.pc = "size", !.pos = pos, !.raced = PushingEntry])
  BY Zenon DEF ReadLookup
<1> DEFINE st == [r[t] EXCEPT !.pc = "size", !.pos = pos, !.raced = PushingEntry]
           before == {i \in DOMAIN index : index[i].offset < r[t].start}
<1>3. r[t].pc = "lookup" /\ r[t].start < next_offset
  BY <1>0, Zenon DEF ReadLookup, ReaderOK
<1>4. before # {} => Max(before) \in before
  <2>1. before \in SUBSET (1 .. Len(index)) /\ Len(index) \in Nat
    BY <1>1, SMTT(30)
  <2> HIDE DEF before
  <2> QED BY <2>1, MaxIsGreatest, Zenon
<1>5. lookup(index, r[t].start) =
        IF index = <<>> THEN 0 ELSE IF before = {} THEN index[1].position ELSE index[Max(before)].position
  BY Zenon DEF lookup
<1>6. before # {} => /\ Max(before) \in 1 .. Len(index)
                     /\ index[Max(before)].offset < r[t].start
  BY <1>1, <1>4
<1> HIDE DEF before
<1>7. lookup(index, r[t].start) \in Nat
  <2>1. \A k \in 1 .. Len(index) : index[k].position \in Nat
    <3> DEFINE Entry == [offset : Nat, position : Nat]
    <3>1. index \in Seq(Entry)
      BY <1>1, Zenon
    <3>2. \A e \in Entry : e.position \in Nat
      BY Zenon
    <3> HIDE DEF Entry
    <3>3. \A k \in 1 .. Len(index) : index[k] \in Entry
      BY <3>1
    <3> QED BY <3>2, <3>3, Zenon
  <2>2. index # <<>> => 1 \in 1 .. Len(index)
    BY <1>1
  <2> QED BY <2>1, <2>2, <1>5, <1>6
<1>8. pos \in Nat
  BY <1>2, <1>7, SizesAssumption
<1>9. PushingEntry \in BOOLEAN
  BY Zenon DEF PushingEntry
<1>10. /\ st \in ReaderState /\ st.pc = "size" /\ st.pos = pos /\ st.raced = PushingEntry
       /\ st.start = r[t].start /\ st.hw = r[t].hw /\ st.data = r[t].data /\ st.garbage = r[t].garbage
  BY <1>1, <1>8, <1>9, Zenon DEF ReaderState
<1>11. Step(t, st)
  BY <1>2, Zenon
<1> HIDE DEF st
<1> DEFINE d == segments[1].data
<1>12. ASSUME Len(segments) = 1, ~PushingEntry
       PROVE  \E i \in 1 .. Len(d) : d[i].pos = pos /\ (i = 1 \/ d[i].base < r[t].start)
  <2>1. d = Active.data /\ d \in Seq(StoredBatch)
    BY <1>12, <1>0, ActiveType, Zenon DEF Active
  <2>2. d # <<>>
    <3>1. PICK b \in Stored : TRUE
      <4>1. 0 \in 0 .. next_offset - 1
        BY <1>1, <1>3
      <4> QED BY <4>1, <1>0, Zenon DEF StoredInv, EveryOffsetStoredOnce
    <3>2. DOMAIN segments = 1 .. 1
      BY <1>0, <1>12 DEF TypeOK
    <3>3. PICK k \in DOMAIN segments : \E i \in DOMAIN segments[k].data : b = segments[k].data[i]
      BY <3>1, Zenon DEF Stored
    <3>4. DOMAIN d # {}
      BY <3>2, <3>3
    <3> QED BY <3>4
  <2>3. 1 \in 1 .. Len(d) /\ d[1].pos = 0
    BY <1>0, <2>1, <2>2 DEF ActiveInv
  <2>4. pos = lookup(index, r[t].start)
    BY <1>2, <1>12, Zenon
  <2>5. /\ \A k \in 1 .. Len(index) : \E i \in 1 .. Len(d) :
             d[i].base = index[k].offset /\ d[i].pos = index[k].position
        /\ index # <<>> => index[1].position = 0
    BY <1>0, <1>12, Zenon DEF IndexInv
  <2> HIDE DEF d
  <2>6. CASE index = <<>> \/ before = {}
    BY <2>3, <2>4, <2>5, <2>6, <1>5, Zenon
  <2>7. CASE index # <<>> /\ before # {}
    <3>1. PICK i \in 1 .. Len(d) : d[i].base = index[Max(before)].offset /\ d[i].pos = index[Max(before)].position
      BY <2>5, <2>7, <1>6, Zenon
    <3> QED BY <3>1, <2>4, <2>7, <1>5, <1>6, Zenon
  <2> QED BY <2>6, <2>7, Zenon
<1>13. r'[t] = st => ReaderOK(t)'
  <2> SUFFICES ASSUME r'[t] = st PROVE ReaderOK(t)'
    BY Zenon
  <2>1. segments' = segments /\ next_offset' = next_offset
    BY <1>11, Zenon DEF Step
  <2>2. r[t].start <= r[t].hw /\ r[t].hw <= next_offset /\ ~r[t].garbage /\ r[t].data = <<>>
    BY <1>0, <1>3, Zenon DEF ReaderOK
  <2> QED BY <1>3, <1>10, <1>12, <2>1, <2>2, Zenon DEF ReaderOK
<1> QED BY <1>10, <1>11, <1>13, ReadStepIInv, Zenon

\* The size of the active segment is loaded: in a log of one segment it covers
\* all that was published when the read began.
LEMMA ReadSizeIInv ==
  ASSUME IInv, NEW t \in Reader, ReadSize(t)
  PROVE  IInv'
<1> DEFINE size == Active.write_offset
           st == [r[t] EXCEPT !.pc = IF size = 0 \/ r[t].pos >= size THEN "done" ELSE "map", !.size = size]
<1>0. TypeOK /\ ActiveInv /\ ReaderOK(t)
  BY Zenon DEF IInv, ReaderInv
<1>1. r[t] \in ReaderState /\ r[t].pos \in Nat /\ size \in Nat
  BY <1>0, ActiveType, Zenon DEF TypeOK, ReaderState
<1>2. Step(t, st) /\ r[t].pc = "size"
  BY Zenon DEF ReadSize, Size
<1> HIDE DEF size
<1>3. /\ st \in ReaderState /\ st.size = size /\ st.pos = r[t].pos /\ st.raced = r[t].raced
      /\ st.start = r[t].start /\ st.hw = r[t].hw /\ st.data = r[t].data /\ st.garbage = r[t].garbage
      /\ st.pc = IF size = 0 \/ r[t].pos >= size THEN "done" ELSE "map"
  BY <1>1, Zenon DEF ReaderState
<1> HIDE DEF st
<1> DEFINE d == segments[1].data
<1>4. ASSUME Len(segments) = 1, ~r[t].raced
      PROVE  /\ \E i \in 1 .. Len(d) : d[i].pos = r[t].pos /\ (i = 1 \/ d[i].base < r[t].start)
             /\ \A i \in 1 .. Len(d) : d[i].pos + d[i].size <= size
             /\ segments[1].write_offset = size
             /\ st.pc = "map"
  <2>1. d = Active.data /\ segments[1].write_offset = size
    BY <1>4, Zenon DEF Active, size
  <2>2. \A i \in 1 .. Len(d) : d[i].size > 0 /\ d[i].pos + d[i].size <= size
    BY <1>0, <2>1, Zenon DEF ActiveInv, size
  <2>3. PICK i \in 1 .. Len(d) : d[i].pos = r[t].pos /\ (i = 1 \/ d[i].base < r[t].start)
    BY <1>0, <1>2, <1>4, Zenon DEF ReaderOK
  <2>4. d[i].size \in Nat
    <3>1. d[i] \in StoredBatch
      BY <1>0, <2>1, ActiveType, Zenon
    <3> QED BY <3>1, Zenon DEF StoredBatch
  <2> HIDE DEF d
  <2>5. r[t].pos < size /\ size # 0
    BY <1>1, <2>2, <2>3, <2>4
  <2>6. st.pc = "map"
    BY <1>1, <1>3, <2>5
  <2> QED BY <2>1, <2>2, <2>3, <2>6, Zenon
<1>5. r'[t] = st => ReaderOK(t)'
  <2> SUFFICES ASSUME r'[t] = st PROVE ReaderOK(t)'
    BY Zenon
  <2>1. segments' = segments /\ next_offset' = next_offset
    BY <1>2, Zenon DEF Step
  <2>2. /\ r[t].start <= r[t].hw /\ r[t].hw <= next_offset /\ ~r[t].garbage /\ r[t].data = <<>>
        /\ r[t].start < next_offset
    BY <1>0, <1>2, Zenon DEF ReaderOK
  <2>3. size <= size
    BY <1>1, SMTT(30)
  <2>4. st.pc \in {"done", "map"}
    BY <1>3, Zenon
  <2> QED BY <1>3, <1>4, <2>1, <2>2, <2>3, <2>4, Zenon DEF ReaderOK
<1> QED BY <1>2, <1>3, <1>5, ReadStepIInv, Zenon

\* The pointer to the segment is taken: the segment of a log that has one has
\* not become smaller.
LEMMA ReadMapIInv ==
  ASSUME IInv, NEW t \in Reader, ReadMap(t)
  PROVE  IInv'
<1> DEFINE st == [r[t] EXCEPT !.pc = IF r[t].size > Size(Active) THEN "done" ELSE "scan", !.seg = Len(segments)]
<1>0. TypeOK /\ ActiveInv /\ ReaderOK(t)
  BY Zenon DEF IInv, ReaderInv
<1>1. r[t] \in ReaderState /\ r[t].size \in Nat /\ Active.write_offset \in Nat /\ Len(segments) \in Nat
  BY <1>0, ActiveType, Zenon DEF TypeOK, ReaderState
<1>2. Step(t, st) /\ r[t].pc = "map"
  BY Zenon DEF ReadMap
<1>3. /\ st \in ReaderState /\ st.size = r[t].size /\ st.pos = r[t].pos /\ st.raced = r[t].raced
      /\ st.start = r[t].start /\ st.hw = r[t].hw /\ st.data = r[t].data /\ st.garbage = r[t].garbage
      /\ st.pc = (IF r[t].size > Active.write_offset THEN "done" ELSE "scan") /\ st.seg = Len(segments)
  BY <1>1, Zenon DEF ReaderState, Size
<1> HIDE DEF st
<1>4. ASSUME Len(segments) = 1, ~r[t].raced PROVE st.pc = "scan" /\ st.seg = 1
  <2>1. r[t].size <= segments[1].write_offset
    BY <1>0, <1>2, <1>4, Zenon DEF ReaderOK
  <2>2. r[t].size <= Active.write_offset
    BY <2>1, <1>4, Zenon DEF Active
  <2> QED BY <1>1, <1>3, <1>4, <2>2
<1>5. r'[t] = st => ReaderOK(t)'
  <2> SUFFICES ASSUME r'[t] = st PROVE ReaderOK(t)'
    BY Zenon
  <2>1. segments' = segments /\ next_offset' = next_offset
    BY <1>2, Zenon DEF Step
  <2>2. /\ r[t].start <= r[t].hw /\ r[t].hw <= next_offset /\ ~r[t].garbage /\ r[t].data = <<>>
        /\ r[t].start < next_offset
    BY <1>0, <1>2, Zenon DEF ReaderOK
  <2>3. st.pc \in {"done", "scan"}
    BY <1>3, Zenon
  <2>4. Len(segments) \in 1 .. Len(segments)
    BY <1>0, ActiveType
  <2> QED BY <1>0, <1>2, <1>3, <1>4, <2>1, <2>2, <2>3, <2>4, Zenon DEF ReaderOK
<1> QED BY <1>2, <1>3, <1>5, ReadStepIInv, Zenon

\* The batches the scan may begin with.
Found(seg, pos, size, start) == {i \in Whole(seg, pos, size) : seg.data[i].base >= start}

\* run is empty, or a run of the batches d that begins with the first found.
RunOf(run, found, d) ==
  /\ run \in Seq(StoredBatch)
  /\ found = {} => run = <<>>
  /\ found # {} => \E f \in found : /\ \A k \in found : f <= k
                                    /\ run # <<>> /\ f + Len(run) - 1 \in 1 .. Len(d)
                                    /\ \A i \in 1 .. Len(run) : run[i] = d[f + i - 1]

\* The scan of a segment returns nothing, or a run of its batches that begins
\* with the first one it may begin with.
LEMMA ScanIsRun ==
  ASSUME NEW seg \in Segment, NEW pos \in Nat, NEW size \in Nat, NEW start \in Nat, NEW max \in Int
  PROVE  RunOf(Scan(seg, pos, size, start, max), Found(seg, pos, size, start), seg.data)
<1> DEFINE d == seg.data
           whole == Whole(seg, pos, size)
           found == Found(seg, pos, size, start)
           run == Scan(seg, pos, size, start, max)
           f == Min(found)
           taken == {i \in whole : i = f \/ (i > f /\ d[i].pos - d[f].pos < max)}
<1>1. d \in Seq(StoredBatch) /\ Len(d) \in Nat /\ DOMAIN d = 1 .. Len(d)
  BY DEF Segment
<1>2. whole \in SUBSET (1 .. Len(d)) /\ found \in SUBSET whole
  BY <1>1, Zenon DEF Whole, Found
<1>3. run = IF found = {} THEN <<>> ELSE SubSeq(d, f, Max(taken))
  BY Zenon DEF Scan, Found, Taken
<1>4. CASE found = {}
  BY <1>3, <1>4 DEF RunOf
<1>5. CASE found # {}
  <2>1. found \in SUBSET Nat
    BY <1>2
  <2> HIDE DEF found
  <2>2. f \in found /\ \A k \in found : f <= k
    BY <1>5, <2>1, MinIsLeast, Zenon
  <2>3. taken \in SUBSET (1 .. Len(d)) /\ f \in taken
    BY <1>2, <2>2, Zenon
  <2> HIDE DEF taken, f, whole
  <2>4. Max(taken) \in taken /\ f <= Max(taken)
    BY <1>1, <2>3, MaxIsGreatest, Zenon
  <2> DEFINE m == Max(taken)
  <2>5. f \in 1 .. Len(d) /\ m \in 1 .. Len(d) /\ f <= m /\ run = SubSeq(d, f, m)
    BY <1>3, <1>5, <2>3, <2>4, Zenon
  <2> HIDE DEF m, d, run
  <2>6. /\ run \in Seq(StoredBatch) /\ Len(run) = m - f + 1
        /\ \A i \in 1 .. m - f + 1 : run[i] = d[f + i - 1]
    BY <1>1, <2>5
  <2>7. run # <<>> /\ f + Len(run) - 1 = m
    BY <2>5, <2>6
  <2>8. RunOf(run, found, d)
    BY <1>5, <2>2, <2>5, <2>6, <2>7, Zenon DEF RunOf
  <2> QED BY <2>8, Zenon DEF d, run, found
<1> QED BY <1>4, <1>5, Zenon

\* In a log of one segment the scan returns a run of consecutive batches that
\* begins with the first one at or after the offset asked for.
LEMMA ScanResult ==
  ASSUME IInv, NEW t \in Reader, r[t].pc = "scan", Len(segments) = 1, ~r[t].raced
  PROVE  LET d == segments[1].data
             data == Scan(segments[1], r[t].pos, r[t].size, r[t].start, r[t].max)
         IN  /\ BeginsBatch(segments[1], r[t].pos)
             /\ \A i \in 1 .. Len(data) - 1 : data[i + 1].id = data[i].id + 1
             /\ data # <<>> =>
                  /\ data[1].base >= r[t].start /\ data[1].id <= appends
                  /\ \A i \in 1 .. Len(d) : d[i].base >= r[t].start => data[1].id <= d[i].id
             /\ r[t].start < r[t].hw /\ (\E i \in 1 .. Len(d) : d[i].base = r[t].start) => data # <<>>
<1> DEFINE d == segments[1].data
           pos == r[t].pos
           size == r[t].size
           start == r[t].start
           data == Scan(segments[1], pos, size, start, r[t].max)
           found == Found(segments[1], pos, size, start)
<1>0. TypeOK /\ ActiveInv /\ ReaderOK(t)
  BY Zenon DEF IInv, ReaderInv
<1>1. /\ pos \in Nat /\ size \in Nat /\ start \in Nat /\ r[t].max \in Int /\ r[t].hw \in Nat
      /\ appends \in Nat
  BY <1>0, Zenon DEF TypeOK, ReaderState
<1>2. Active = segments[1] /\ segments[1] \in Segment /\ d \in Seq(StoredBatch) /\ Len(d) \in Nat
  BY <1>0, ActiveType DEF Active
<1>3. \A i \in 1 .. Len(d) :
        /\ d[i].base \in Nat /\ d[i].pos \in Nat /\ d[i].size \in Nat /\ d[i].id \in Nat
  <2>1. \A i \in 1 .. Len(d) : d[i] \in StoredBatch
    BY <1>2
  <2> QED BY <2>1, Zenon DEF StoredBatch
<1>4. /\ \A i \in 1 .. Len(d) : d[i].size > 0 /\ d[i].id + (Len(d) - i) = Newest
      /\ \A i, j \in 1 .. Len(d) : i < j => d[i].base <= d[j].base /\ d[i].pos + d[i].size <= d[j].pos
      /\ d # <<>> => d[1].pos = 0
  BY <1>0, <1>2, Zenon DEF ActiveInv
<1>5. Newest \in Int /\ Newest <= appends
  BY <1>1 DEF Newest
<1>6. PICK k \in 1 .. Len(d) : d[k].pos = pos /\ (k = 1 \/ d[k].base < start)
  BY <1>0, Zenon DEF ReaderOK
<1>7. \A i \in 1 .. Len(d) : d[i].base < r[t].hw => d[i].pos + d[i].size <= size
  BY <1>0, Zenon DEF ReaderOK
<1>8. BeginsBatch(segments[1], pos)
  BY <1>2, <1>6 DEF BeginsBatch
<1>9. \A i : i \in found <=> /\ i \in 1 .. Len(d) /\ pos <= d[i].pos /\ d[i].pos + d[i].size <= size
                             /\ d[i].base >= start
  <2>1. DOMAIN d = 1 .. Len(d)
    BY <1>2
  <2> QED BY <2>1, Zenon DEF Found, Whole
<1>10. /\ found = {} => data = <<>>
       /\ found # {} => \E f \in found : /\ \A j \in found : f <= j
                                         /\ data # <<>> /\ f + Len(data) - 1 \in 1 .. Len(d)
                                         /\ \A i \in 1 .. Len(data) : data[i] = d[f + i - 1]
       /\ data \in Seq(StoredBatch)
  <2>1. RunOf(data, found, d)
    BY <1>1, <1>2, ScanIsRun, Zenon
  <2> HIDE DEF data, found, d
  <2> QED BY <2>1, Zenon DEF RunOf
<1> HIDE DEF d, pos, size, start, data, found
<1>11. ASSUME NEW i \in 1 .. Len(d), d[i].base >= start PROVE pos <= d[i].pos
  <2>1. CASE k = 1
    <3>1. d # <<>>
      BY <1>2, <1>6
    <3> QED BY <2>1, <3>1, <1>3, <1>4, <1>6
  <2>2. CASE d[k].base < start
    <3>1. d[k].base < d[i].base
      BY <2>2, <1>1, <1>3, <1>6, <1>11
    <3>2. ~(i < k) /\ i # k
      BY <3>1, <1>3, <1>4, <1>6
    <3>3. k < i
      BY <3>2, <1>2, <1>6
    <3>4. d[k].pos + d[k].size <= d[i].pos
      BY <3>3, <1>4, <1>6, Zenon
    <3> QED BY <3>4, <1>3, <1>6
  <2> QED BY <2>1, <2>2, <1>6, Zenon
<1>12. \A i, j \in 1 .. Len(d) : j - i = d[j].id - d[i].id
  <2> SUFFICES ASSUME NEW i \in 1 .. Len(d), NEW j \in 1 .. Len(d) PROVE j - i = d[j].id - d[i].id
    BY Zenon
  <2>1. d[i].id + (Len(d) - i) = Newest /\ d[j].id + (Len(d) - j) = Newest
    BY <1>4, Zenon
  <2>2. d[i].id \in Nat /\ d[j].id \in Nat
    BY <1>3, Zenon
  <2> DEFINE x == d[i].id
             y == d[j].id
             n == Len(d)
             q == Newest
  <2>3. x \in Int /\ y \in Int /\ n \in Int /\ q \in Int /\ i \in Int /\ j \in Int
    BY <2>2, <1>2, <1>5
  <2>4. x + (n - i) = q /\ y + (n - j) = q
    BY <2>1, Zenon
  <2> HIDE DEF x, y, n, q
  <2>5. j - i = y - x
    BY <2>3, <2>4
  <2> QED BY <2>5, Zenon DEF x, y
<1>13. CASE found = {}
  <2>1. ASSUME start < r[t].hw, NEW i \in 1 .. Len(d), d[i].base = start PROVE FALSE
    <3>1. pos <= d[i].pos
      BY <2>1, <1>1, <1>11
    <3>2. d[i].pos + d[i].size <= size /\ d[i].base >= start
      BY <2>1, <1>1, <1>7
    <3> QED BY <3>1, <3>2, <1>9, <1>13, Zenon
  <2>2. data = <<>> /\ Len(data) = 0
    BY <1>10, <1>13, Zenon
  <2> QED BY <1>8, <2>1, <2>2, SMTT(30) DEF d, pos, size, start, data
<1>14. CASE found # {}
  <2>1. PICK f \in found : /\ \A j \in found : f <= j
                           /\ data # <<>> /\ f + Len(data) - 1 \in 1 .. Len(d)
                           /\ \A i \in 1 .. Len(data) : data[i] = d[f + i - 1]
    BY <1>10, <1>14, Zenon
  <2>2. f \in 1 .. Len(d) /\ Len(data) \in Nat \ {0}
    BY <1>9, <1>10, <2>1, SMTT(30)
  <2>3. data[1] = d[f]
    <3>1. 1 \in 1 .. Len(data) /\ f + 1 - 1 = f
      BY <2>2
    <3> QED BY <2>1, <3>1, Zenon
  <2>4. data[1].base >= start
    BY <1>9, <2>1, <2>3, Zenon
  <2>5. data[1].id <= appends
    <3>1. d[f].id + (Len(d) - f) = Newest /\ d[f].id \in Nat
      BY <1>3, <1>4, <2>2, Zenon
    <3> QED BY <3>1, <2>2, <2>3, <1>1, <1>2, <1>5
  <2>6. ASSUME NEW i \in 1 .. Len(data) - 1 PROVE data[i + 1].id = data[i].id + 1
    <3>1. i \in 1 .. Len(data) /\ i + 1 \in 1 .. Len(data)
      BY <2>2
    <3>2. data[i] = d[f + i - 1] /\ data[i + 1] = d[f + i]
      <4>1. f + (i + 1) - 1 = f + i
        BY <2>2
      <4> QED BY <2>1, <3>1, <4>1, Zenon
    <3>3. f + i - 1 \in 1 .. Len(d) /\ f + i \in 1 .. Len(d)
      BY <2>1, <2>2, <3>1, <1>2
    <3>4. (f + i) - (f + i - 1) = d[f + i].id - d[f + i - 1].id
      BY <1>12, <3>3, Zenon
    <3>5. d[f + i].id \in Nat /\ d[f + i - 1].id \in Nat
      BY <1>3, <3>3, Zenon
    <3>6. d[f + i].id = d[f + i - 1].id + 1
      BY <2>2, <3>4, <3>5, SMTT(30)
    <3> QED BY <3>2, <3>6, Zenon
  <2>7. ASSUME NEW i \in 1 .. Len(d), d[i].base >= start PROVE data[1].id <= d[i].id
    <3>1. f <= i
      <4> SUFFICES ASSUME i < f PROVE FALSE
        BY <2>2
      <4>1. d[i].pos + d[i].size <= d[f].pos
        BY <1>4, <2>2, Zenon
      <4>2. d[f].pos + d[f].size <= size
        BY <1>9, <2>1, Zenon
      <4>3. d[i].pos + d[i].size <= size
        <5> DEFINE x == d[i].pos + d[i].size
                   y == d[f].pos
                   z == d[f].size
        <5>1. x \in Int /\ y \in Int /\ z \in Int /\ z >= 0
          BY <1>3, <2>2
        <5>2. x <= y /\ y + z <= size
          BY <4>1, <4>2, Zenon
        <5> HIDE DEF x, y, z
        <5>3. x <= size
          BY <5>1, <5>2, <1>1
        <5> QED BY <5>3, Zenon DEF x
      <4>4. i \in found
        BY <4>3, <1>9, <1>11, <2>7, Zenon
      <4> QED BY <4>4, <2>1, <2>2
    <3>2. i - f = d[i].id - d[f].id
      BY <1>12, <2>2, Zenon
    <3>3. d[i].id \in Nat /\ d[f].id \in Nat
      BY <1>3, <2>2, Zenon
    <3> QED BY <2>2, <2>3, <3>1, <3>2, <3>3
  <2> QED BY <1>8, <2>1, <2>4, <2>5, <2>6, <2>7, Zenon DEF d, pos, size, start, data
<1> QED BY <1>13, <1>14, Zenon

\* The segment is scanned and the read returns.
LEMMA ReadScanIInv ==
  ASSUME IInv, NEW t \in Reader, ReadScan(t)
  PROVE  IInv'
<1> DEFINE seg == segments[r[t].seg]
           data == Scan(seg, r[t].pos, r[t].size, r[t].start, r[t].max)
           st == IF BeginsBatch(seg, r[t].pos) THEN [r[t] EXCEPT !.pc = "done", !.data = data]
                 ELSE [r[t] EXCEPT !.pc = "done", !.garbage = TRUE]
<1>0. TypeOK /\ ReaderOK(t)
  BY Zenon DEF IInv, ReaderInv
<1>1. /\ r[t] \in ReaderState /\ r[t].pos \in Nat /\ r[t].size \in Nat /\ r[t].start \in Nat
      /\ r[t].max \in Int /\ r[t].garbage \in BOOLEAN
  BY <1>0, Zenon DEF TypeOK, ReaderState
<1>2. Step(t, st) /\ r[t].pc = "scan"
  BY Zenon DEF ReadScan
<1>3. r[t].seg \in DOMAIN segments
  BY <1>0, <1>2 DEF ReaderOK, TypeOK
<1>4. data \in Seq(StoredBatch)
  <2>1. seg \in Segment
    BY <1>0, <1>3 DEF TypeOK
  <2> HIDE DEF seg
  <2>2. RunOf(data, Found(seg, r[t].pos, r[t].size, r[t].start), seg.data)
    BY <1>1, <2>1, ScanIsRun, Zenon
  <2> QED BY <2>2, Zenon DEF RunOf
<1>5. /\ st \in ReaderState /\ st.pc = "done" /\ st.start = r[t].start /\ st.hw = r[t].hw
      /\ st.raced = r[t].raced
      /\ BeginsBatch(seg, r[t].pos) => st.data = data /\ st.garbage = r[t].garbage
  <2> HIDE DEF data, seg
  <2> QED BY <1>1, <1>4, Zenon DEF ReaderState
<1> HIDE DEF st
<1>6. r'[t] = st => ReaderOK(t)'
  <2> SUFFICES ASSUME r'[t] = st PROVE ReaderOK(t)'
    BY Zenon
  <2>1. segments' = segments /\ next_offset' = next_offset /\ appends' = appends
    BY <1>2, Zenon DEF Step
  <2>2. r[t].start <= r[t].hw /\ r[t].hw <= next_offset /\ ~r[t].garbage
    BY <1>0, <1>2, Zenon DEF ReaderOK
  <2>3. ASSUME Len(segments) = 1, ~r[t].raced PROVE ReadResult(t)'
    <3>1. seg = segments[1]
      BY <1>0, <1>2, <2>3, Zenon DEF ReaderOK
    <3> DEFINE d == segments[1].data
    <3>2. /\ BeginsBatch(seg, r[t].pos)
          /\ \A i \in 1 .. Len(data) - 1 : data[i + 1].id = data[i].id + 1
          /\ data # <<>> =>
               /\ data[1].base >= r[t].start /\ data[1].id <= appends
               /\ \A i \in 1 .. Len(d) : d[i].base >= r[t].start => data[1].id <= d[i].id
          /\ r[t].start < r[t].hw /\ (\E i \in 1 .. Len(d) : d[i].base = r[t].start) => data # <<>>
      <4> HIDE DEF seg
      <4> QED BY <1>2, <2>3, <3>1, ScanResult, Zenon
    <3> HIDE DEF data, seg
    <3>3. st.data = data /\ ~st.garbage
      BY <1>5, <2>2, <3>2, Zenon
    <3> QED BY <1>5, <2>1, <3>2, <3>3, Zenon DEF ReadResult
  <2> QED BY <1>5, <2>1, <2>2, <2>3, Zenon DEF ReaderOK
<1> QED BY <1>2, <1>5, <1>6, ReadStepIInv, Zenon

-----------------------------------------------------------------------------
(***************************************************************************)
(* The theorems                                                            *)
(***************************************************************************)

\* Every step keeps the invariant.
LEMMA NextIInv == IInv /\ [Next]_vars => IInv'
<1> SUFFICES ASSUME IInv, [Next]_vars PROVE IInv'
  BY Zenon
<1>1. ASSUME NEW t \in Writer,
             \/ \E recs \in Batches : AppendStart(t, recs)
             \/ roll_segment(t) \/ AppendRetry(t) \/ IndexAdd(t) \/ Publish(t)
      PROVE  IInv'
  BY <1>1, AppendStartIInv, RollIInv, RetryIInv, IndexAddIInv, PublishIInv, Zenon
<1>2. ASSUME NEW t \in Reader,
             \/ \E start \in 0 .. next_offset, max \in MaxBytes : ReadStart(t, start, max)
             \/ ReadCheck(t) \/ ReadLookup(t) \/ ReadSize(t) \/ ReadMap(t) \/ ReadScan(t)
      PROVE  IInv'
  BY <1>2, ReadStartIInv, ReadCheckIInv, ReadLookupIInv, ReadSizeIInv, ReadMapIInv, ReadScanIInv, Zenon
<1>3. CASE Restart
  <2>1. Constructed'
    BY <1>3 DEF Constructed, Restart, IInv, TypeOK
  <2> QED BY <2>1, ConstructedAgain, Zenon
<1>4. CASE UNCHANGED vars
  <2>1. TypeOK' /\ MutexInv' /\ ActiveInv'
    BY <1>4, Zenon DEF vars, IInv, TypeOK, MutexInv, ActiveInv, Active, Newest
  <2>2. StoredInv'
    <3>1. Stored' = Stored /\ next_offset' = next_offset /\ w' = w
      <4>1. segments' = segments /\ next_offset' = next_offset /\ w' = w
        BY <1>4, Zenon DEF vars
      <4> DEFINE S(seg) == UNION {{seg[k].data[i] : i \in DOMAIN seg[k].data} : k \in DOMAIN seg}
      <4>2. Stored = S(segments) /\ Stored' = S(segments')
        BY Zenon DEF Stored
      <4> HIDE DEF S
      <4> QED BY <4>1, <4>2, Zenon
    <3>2. EveryOffsetStoredOnce'
      BY <3>1, Zenon DEF IInv, StoredInv, EveryOffsetStoredOnce, Contains
    <3>3. \A b : Below(b) => Below(b)'
      BY <3>1, Zenon DEF Below
    <3>4. \A t \in Writer : Unpublished(t)' <=> Unpublished(t)
      BY <3>1, Zenon DEF Unpublished
    <3> QED BY <3>1, <3>2, <3>3, <3>4, Zenon DEF IInv, StoredInv
  <2>3. IndexInv'
    BY <1>4, Zenon DEF vars, IInv, IndexInv
  <2>4. ReaderInv'
    BY <1>4, ZenonT(30) DEF vars, IInv, ReaderInv, ReaderOK, ReadResult
  <2> QED BY <2>1, <2>2, <2>3, <2>4, Zenon DEF IInv
<1> QED BY <1>1, <1>2, <1>3, <1>4, Zenon DEF Next

\* The inductive invariant holds in every reachable state.
LEMMA IInvariant == Spec => []IInv
<1>1. Init => IInv
  BY ConstructedIInv DEF Init, Constructed
<1>2. IInv /\ [Next]_vars => IInv'
  BY NextIInv, Zenon
<1> QED BY <1>1, <1>2, PTL DEF Spec

\* The variables have their types: above all, a batch that is being stored is
\* never larger than append()'s buffer.
THEOREM TypeCorrect == Spec => []TypeOK
<1>1. IInv => TypeOK
  BY Zenon DEF IInv
<1> QED BY <1>1, IInvariant, PTL

\* With any number of threads appending, and whatever the sizes, every offset
\* below next_offset_ belongs to exactly one batch that is in a segment.
THEOREM EveryOffsetCorrect == Spec => []EveryOffsetStoredOnce
<1>1. IInv => EveryOffsetStoredOnce
  BY Zenon DEF IInv, StoredInv
<1> QED BY <1>1, IInvariant, PTL

\* While the log has one segment, a read that did not overlap a push_back into
\* the index returns consecutive whole batches, from the first one at or after
\* the offset asked for, whatever appends run beside it.
THEOREM ReadCorrect == Spec => []ReadIsRun
<1>1. IInv => ReadIsRun
  <2> SUFFICES ASSUME IInv, NEW t \in Reader, r[t].pc = "done", Len(segments) = 1, ~r[t].raced
               PROVE  LET data == r[t].data
                      IN  /\ ~r[t].garbage
                          /\ \A i \in 1 .. Len(data) - 1 : data[i + 1].id = data[i].id + 1
                          /\ data # <<>> => /\ data[1].base >= r[t].start
                                            /\ \A b \in Stored : b.base >= r[t].start => data[1].id <= b.id
                          /\ r[t].start < r[t].hw /\ (\E b \in Stored : b.base = r[t].start) => data # <<>>
    BY Zenon DEF ReadIsRun
  <2>1. ReadResult(t) /\ TypeOK
    BY Zenon DEF IInv, ReaderInv, ReaderOK
  <2> DEFINE d == segments[1].data
  <2>2. \A b \in Stored : \E i \in 1 .. Len(d) : b = d[i]
    <3>1. DOMAIN segments = 1 .. 1 /\ segments[1] \in Segment
      BY <2>1 DEF TypeOK
    <3>2. DOMAIN d = 1 .. Len(d)
      BY <3>1 DEF Segment
    <3> QED BY <3>1, <3>2 DEF Stored
  <2> QED BY <2>1, <2>2, Zenon DEF ReadResult
<1> QED BY <1>1, IInvariant, PTL

=============================================================================
