---------------------------- MODULE PartitionLog ----------------------------
(***************************************************************************)
(* One topic partition's log, class PartitionLog with its LogSegments and  *)
(* OffsetIndex (include/storage/partition_log.h), with any number of       *)
(* threads appending and reading.                                          *)
(*                                                                         *)
(* append() runs under append_mu_; read() takes no lock.  A step here is   *)
(* what one thread does between two accesses to memory it shares with the  *)
(* other: an append writes the segment, perhaps rolls to a new one and     *)
(* writes that, adds an index entry, and publishes next_offset_; a read    *)
(* loads next_offset_ twice, searches the index, loads the size of the     *)
(* active segment, takes the pointer to it, and scans.                     *)
(*                                                                         *)
(* Data abstraction.  A batch is the sequence of its records' sizes; what  *)
(* is stored of it is its base offset, its number of records, the records  *)
(* that were copied, its place and size in bytes.  Sizes are in units of   *)
(* the 61-byte batch header, and the constants scale with them.            *)
(***************************************************************************)
EXTENDS Integers, Sequences, FiniteSetsExt

CONSTANTS
  Writer, Reader,   \* threads that append and that read
  Batches,          \* the batches producers send: sequences of record sizes
  MaxBytes,         \* the max_bytes values of fetch requests
  BufferSize,       \* capacity of append's stack buffer (65536)
  SegmentSize,      \* max_size_ of a segment
  IndexInterval,    \* spacing of index entries (4096)
  MaxAppends,       \* bound on the number of appends
  MaxRestarts,      \* bound on the number of restarts of the broker
  Nobody            \* append_mu_ is free

\* A batch that fills the buffer fits an empty segment.
ASSUME SizesAssumption ==
  /\ Batches \subseteq Seq(Nat \ {0})
  /\ MaxBytes \subseteq Int
  /\ BufferSize \in Nat \ {0} /\ SegmentSize \in Nat /\ BufferSize <= SegmentSize
  /\ IndexInterval \in Nat \ {0}
  /\ MaxAppends \in Nat /\ MaxRestarts \in Nat
  /\ Nobody \notin Writer

VARIABLES
  segments,         \* segments_; active_segment_ is the last one
  next_offset,      \* next_offset_
  index,            \* index_.entries
  append_mu,        \* the holder of append_mu_
  w,                \* the local state of each thread that appends
  r,                \* the local state of each thread that reads
  appends,          \* number of appends so far, which also names each batch
  restarts,         \* number of restarts so far
  acked             \* history: the records append() has returned for, with their offsets

vars == <<segments, next_offset, index, append_mu, w, r, appends, restarts, acked>>

Header == 1

\* serialize_batch: the bytes used after the first i records.  A record that
\* does not fit what is left of the buffer is skipped.
Filled(recs) ==
  LET fill[i \in 0 .. Len(recs)] ==
        IF i = 0 THEN Header
        ELSE IF fill[i - 1] + recs[i] < BufferSize THEN fill[i - 1] + recs[i] ELSE fill[i - 1]
  IN  fill

serialize_batch(recs) ==
  [count |-> Len(recs),
   kept  |-> {i \in 1 .. Len(recs) : Filled(recs)[i] # Filled(recs)[i - 1]},
   size  |-> Filled(recs)[Len(recs)]]

Active == segments[Len(segments)]
Size(seg) == seg.write_offset
NewSegment(off) == [base |-> off, data |-> <<>>, write_offset |-> 0]

IdleWriter == [pc |-> "idle", base |-> 0, batch |-> [count |-> 0, kept |-> {}, size |-> 0],
               id |-> 0, byte_off |-> 0]
IdleReader == [pc |-> "idle", start |-> 0, max |-> 0, hw |-> 0, pos |-> 0, size |-> 0,
               seg |-> 0, data |-> <<>>, raced |-> FALSE, garbage |-> FALSE]

\* The constructor: next_offset_ is 0 and an empty segment is mapped, whatever
\* the segment's file holds.
Init ==
  /\ segments = <<NewSegment(0)>>
  /\ next_offset = 0
  /\ index = <<>>
  /\ append_mu = Nobody
  /\ w = [t \in Writer |-> IdleWriter]
  /\ r = [t \in Reader |-> IdleReader]
  /\ appends = 0 /\ restarts = 0 /\ acked = {}

-----------------------------------------------------------------------------
(***************************************************************************)
(* append                                                                  *)
(***************************************************************************)

Fits(batch) == Size(Active) + batch.size <= SegmentSize

\* LogSegment::append copies the batch and then moves write_offset_.
Written(base, batch, id) ==
  [segments EXCEPT ![Len(segments)] =
     [base |-> Active.base,
      data |-> Append(Active.data, [base |-> base, count |-> batch.count, kept |-> batch.kept,
                                    size |-> batch.size, pos |-> Size(Active), id |-> id]),
      write_offset |-> Size(Active) + batch.size]]

\* append() takes the mutex, gives the batch its offsets, serializes it and
\* writes it to the active segment if it fits.
AppendStart(t, recs) ==
  LET batch == serialize_batch(recs)
      id    == appends + 1
  IN  /\ w[t].pc = "idle"
      /\ append_mu = Nobody
      /\ appends < MaxAppends
      /\ append_mu' = t
      /\ appends' = id
      /\ segments' = IF Fits(batch) THEN Written(next_offset, batch, id) ELSE segments
      /\ w' = [w EXCEPT ![t] = [pc |-> IF Fits(batch) THEN "index" ELSE "roll",
                                base |-> next_offset, batch |-> batch, id |-> id,
                                byte_off |-> IF Fits(batch) THEN Size(Active) ELSE -1]]
      /\ UNCHANGED <<next_offset, index, r, restarts, acked>>

roll_segment(t) ==
  /\ w[t].pc = "roll"
  /\ segments' = Append(segments, NewSegment(next_offset))
  /\ w' = [w EXCEPT ![t].pc = "retry"]
  /\ UNCHANGED <<next_offset, index, append_mu, r, appends, restarts, acked>>

AppendRetry(t) ==
  /\ w[t].pc = "retry"
  /\ segments' = IF Fits(w[t].batch) THEN Written(w[t].base, w[t].batch, w[t].id) ELSE segments
  /\ w' = [w EXCEPT ![t].pc = "index",
                    ![t].byte_off = IF Fits(w[t].batch) THEN Size(Active) ELSE -1]
  /\ UNCHANGED <<next_offset, index, append_mu, r, appends, restarts, acked>>

\* byte_off % 4096 == 0; the remainder of -1 is not 0 in C++.
NeedsEntry(byte_off) == byte_off >= 0 /\ byte_off % IndexInterval = 0

IndexAdd(t) ==
  /\ w[t].pc = "index"
  /\ index' = IF NeedsEntry(w[t].byte_off)
              THEN Append(index, [offset |-> w[t].base, position |-> w[t].byte_off])
              ELSE index
  /\ w' = [w EXCEPT ![t].pc = "publish"]
  /\ UNCHANGED <<segments, next_offset, append_mu, r, appends, restarts, acked>>

\* Record i of a batch is given the offset base + i - 1, in this life of the log.
Acknowledged(wt) ==
  {[id |-> wt.id, record |-> i, offset |-> wt.base + i - 1, life |-> restarts] : i \in 1 .. wt.batch.count}

\* Mutant of Publish: last_offset is stored instead of last_offset + 1.
PublishLast(t) ==
  /\ w[t].pc = "publish"
  /\ next_offset' = IF w[t].batch.count = 0 THEN w[t].base ELSE w[t].base + w[t].batch.count - 1
  /\ append_mu' = Nobody
  /\ acked' = acked \cup Acknowledged(w[t])
  /\ w' = [w EXCEPT ![t] = IdleWriter]
  /\ UNCHANGED <<segments, index, r, appends, restarts>>

\* next_offset_ is stored, the mutex released and the base offset returned.
Publish(t) ==
  /\ w[t].pc = "publish"
  /\ next_offset' = w[t].base + w[t].batch.count
  /\ append_mu' = Nobody
  /\ acked' = acked \cup Acknowledged(w[t])
  /\ w' = [w EXCEPT ![t] = IdleWriter]
  /\ UNCHANGED <<segments, index, r, appends, restarts>>

-----------------------------------------------------------------------------
(***************************************************************************)
(* read                                                                    *)
(***************************************************************************)

Step(t, state) ==
  /\ r' = [r EXCEPT ![t] = state]
  /\ UNCHANGED <<segments, next_offset, index, append_mu, w, appends, restarts, acked>>

\* The high watermark of the result is loaded first.
ReadStart(t, start, max) ==
  /\ r[t].pc \in {"idle", "done"}
  /\ Step(t, [IdleReader EXCEPT !.pc = "check", !.start = start, !.max = max, !.hw = next_offset])

ReadCheck(t) ==
  /\ r[t].pc = "check"
  /\ Step(t, [r[t] EXCEPT !.pc = IF r[t].start >= next_offset THEN "done" ELSE "lookup"])

\* OffsetIndex::lookup: lower_bound, then one entry back unless at the front.
lookup(entries, target) ==
  LET before == {i \in DOMAIN entries : entries[i].offset < target}
  IN  IF entries = <<>> THEN 0
      ELSE IF before = {} THEN entries[1].position
      ELSE entries[Max(before)].position

\* A writer is inside index_.entries.push_back, which may move the entries.
PushingEntry == \E t \in Writer : w[t].pc = "index" /\ NeedsEntry(w[t].byte_off)

\* A lookup that overlaps a push_back may find any position; raced records it.
ReadLookup(t) ==
  /\ r[t].pc = "lookup"
  /\ \E pos \in IF PushingEntry THEN 0 .. SegmentSize ELSE {lookup(index, r[t].start)} :
       Step(t, [r[t] EXCEPT !.pc = "size", !.pos = pos, !.raced = PushingEntry])

ReadSize(t) ==
  LET size == Size(Active)
  IN  /\ r[t].pc = "size"
      /\ Step(t, [r[t] EXCEPT !.pc = IF size = 0 \/ r[t].pos >= size THEN "done" ELSE "map",
                              !.size = size])

\* active_segment_ is loaded again for the pointer to the data.
ReadMap(t) ==
  /\ r[t].pc = "map"
  /\ Step(t, [r[t] EXCEPT !.pc = IF r[t].size > Size(Active) THEN "done" ELSE "scan",
                          !.seg = Len(segments)])

\* The batches that lie in [pos, size) of the segment, by their index.
Whole(seg, pos, size) ==
  {i \in DOMAIN seg.data : pos <= seg.data[i].pos /\ seg.data[i].pos + seg.data[i].size <= size}

\* Batches from index first on, as long as fewer than max bytes have been taken.
Taken(seg, whole, first, max) ==
  LET taken == {i \in whole : \/ i = first
                              \/ i > first /\ seg.data[i].pos - seg.data[first].pos < max}
  IN  SubSeq(seg.data, first, Max(taken))

\* Mutant of Scan: only batches after start are taken.
ScanAfter(seg, pos, size, start, max) ==
  LET whole == Whole(seg, pos, size)
      found == {i \in whole : seg.data[i].base > start}
  IN  IF found = {} THEN <<>> ELSE Taken(seg, whole, Min(found), max)

\* The loop over the batches of seg in [pos, size): batches before start are
\* skipped, the first one at or after it is taken, and the following ones as
\* long as fewer than max bytes have been taken.  Bytes below size no longer
\* change, so the scan is one step.
Scan(seg, pos, size, start, max) ==
  LET whole == Whole(seg, pos, size)
      found == {i \in whole : seg.data[i].base >= start}
  IN  IF found = {} THEN <<>> ELSE Taken(seg, whole, Min(found), max)

\* A scan that does not begin at a batch reads arbitrary bytes as headers.
BeginsBatch(seg, pos) == \E i \in DOMAIN seg.data : seg.data[i].pos = pos

ReadScan(t) ==
  LET seg == segments[r[t].seg]
  IN  /\ r[t].pc = "scan"
      /\ Step(t, IF BeginsBatch(seg, r[t].pos)
                 THEN [r[t] EXCEPT !.pc = "done",
                         !.data = Scan(seg, r[t].pos, r[t].size, r[t].start, r[t].max)]
                 ELSE [r[t] EXCEPT !.pc = "done", !.garbage = TRUE])

start_offset == segments[1].base

-----------------------------------------------------------------------------
\* The broker stops and starts again: every thread is gone, and the log is
\* constructed over the files that are there.
Restart ==
  /\ restarts < MaxRestarts
  /\ restarts' = restarts + 1
  /\ segments' = <<NewSegment(0)>>
  /\ next_offset' = 0
  /\ index' = <<>>
  /\ append_mu' = Nobody
  /\ w' = [t \in Writer |-> IdleWriter]
  /\ r' = [t \in Reader |-> IdleReader]
  /\ UNCHANGED <<appends, acked>>

Next ==
  \/ \E t \in Writer :
       \/ \E recs \in Batches : AppendStart(t, recs)
       \/ roll_segment(t) \/ AppendRetry(t) \/ IndexAdd(t) \/ Publish(t)
  \/ \E t \in Reader :
       \/ \E start \in 0 .. next_offset, max \in MaxBytes : ReadStart(t, start, max)
       \/ ReadCheck(t) \/ ReadLookup(t) \/ ReadSize(t) \/ ReadMap(t) \/ ReadScan(t)
  \/ Restart

Spec == Init /\ [][Next]_vars

-----------------------------------------------------------------------------
(***************************************************************************)
(* Properties                                                              *)
(***************************************************************************)

Stored == UNION {{segments[k].data[i] : i \in DOMAIN segments[k].data} : k \in DOMAIN segments}
Contains(b, o) == b.base <= o /\ o < b.base + b.count

\* Whatever the interleaving of appends, and across rolls, every offset below
\* next_offset_ belongs to exactly one batch that is already in a segment:
\* offsets are neither reused nor skipped, and next_offset_ is never ahead of
\* the data a reader will look for.
EveryOffsetStoredOnce ==
  \A o \in 0 .. next_offset - 1 : \E b \in Stored :
    Contains(b, o) /\ \A d \in Stored : Contains(d, o) => d = b

\* While a log has one segment, a read concurrent with appends, whose lookup did
\* not overlap a push_back, returns consecutive whole batches, beginning with
\* the first one at or after the offset asked for; and it returns some batch if
\* one starts at that offset and had been published when the read began.
ReadIsRun ==
  \A t \in Reader : r[t].pc = "done" /\ Len(segments) = 1 /\ ~r[t].raced =>
    LET data == r[t].data
    IN  /\ ~r[t].garbage
        /\ \A i \in 1 .. Len(data) - 1 : data[i + 1].id = data[i].id + 1
        /\ data # <<>> => /\ data[1].base >= r[t].start
                          /\ \A b \in Stored : b.base >= r[t].start => data[1].id <= b.id
        /\ r[t].start < r[t].hw /\ (\E b \in Stored : b.base = r[t].start) => data # <<>>

\* The acknowledgement of a had been sent when the read of t began: it was sent
\* before the log was last constructed, or its offset is below the high
\* watermark the read loaded first.
AckedBefore(a, t) == a.life < restarts \/ a.offset < r[t].hw

\* partition_log.h, line 169, on the batch a read begins with: "Check if this
\* batch contains or follows start_offset".  A read at the offset a record was
\* acknowledged with returns that record, if the acknowledgement came before
\* the read.
AckedIsServed ==
  \A t \in Reader : r[t].pc = "done" =>
    \A a \in acked : a.offset = r[t].start /\ AckedBefore(a, t) =>
      \E i \in DOMAIN r[t].data : r[t].data[i].id = a.id /\ a.record \in r[t].data[i].kept

=============================================================================
