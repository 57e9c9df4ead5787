------------------------------ MODULE SPSCRing ------------------------------
(***************************************************************************)
(* SPSCRingBuffer (include/utils/ring_buffer.h): the lock-free ring that   *)
(* hands accepted sockets from the acceptor to a worker.  One producer     *)
(* thread pushes, one consumer thread pops; a step is one access to memory *)
(* the two share.                                                          *)
(*                                                                         *)
(* head_ and tail_ are unsigned counters that wrap: 2^64 in the code, here *)
(* Laps times the capacity.  An acquire load of the other thread's counter *)
(* may return any value the counter has had since this thread last loaded  *)
(* it, so the cached copies range over those.                              *)
(***************************************************************************)
EXTENDS Integers, Sequences

CONSTANTS
  Item, NoItem,   \* what is stored; NoItem is the T{} an unused slot holds
  Capacity, Laps, \* slots, and how often the counters go round before they wrap
  MaxCounts       \* the max_count values of try_pop_batch

\* The static_asserts require Capacity >= 2 and that it divides the range of
\* the counters.
ASSUME RingAssumption ==
  /\ Capacity \in Nat /\ Capacity >= 2
  /\ Laps \in Nat /\ Laps >= 2
  /\ MaxCounts \subseteq Nat
  /\ NoItem \notin Item

VARIABLES
  head, tail,                 \* head_, tail_
  tail_cached, head_cached,   \* tail_cached_ (producer), head_cached_ (consumer)
  storage,                    \* storage_
  push, item,                 \* where try_push is, and its argument
  pop, want, got,             \* where a pop is, how many it takes, those read so far
  out                         \* what the last pop returned

producer == <<head, tail_cached, storage, push, item>>
consumer == <<tail, head_cached, pop, want, got, out>>
vars == <<producer, consumer>>

Modulus == Capacity * Laps
Counter == 0 .. Modulus - 1
Slots == 0 .. Capacity - 1

\* uint64_t addition and subtraction, and the slot of a counter value.
Plus(a, n) == (a + n) % Modulus
Minus(a, b) == (a - b) % Modulus
Slot(a) == a % Capacity

\* What a load may return: the values from the last one seen to the current.
Loads(seen, now) == {Plus(seen, n) : n \in 0 .. Minus(now, seen)}

Init ==
  /\ head = 0 /\ tail = 0 /\ tail_cached = 0 /\ head_cached = 0
  /\ storage = [s \in Slots |-> NoItem]
  /\ push = "idle" /\ item = NoItem
  /\ pop = "idle" /\ want = 0 /\ got = <<>> /\ out = <<>>

-----------------------------------------------------------------------------
(***************************************************************************)
(* The producer                                                            *)
(***************************************************************************)

\* Mutant of LooksFull: one item too many.
LooksFullLate(t) == Minus(Plus(head, 1), t) > Capacity + 1

LooksFull(t) == Minus(Plus(head, 1), t) > Capacity

\* try_push loads its own head_ and compares it with the tail_ it knows of.
try_push(v) ==
  /\ push = "idle"
  /\ item' = v
  /\ push' = IF LooksFull(tail_cached) THEN "refresh" ELSE "write"
  /\ UNCHANGED <<head, tail_cached, storage, consumer>>

RefreshTail ==
  /\ push = "refresh"
  /\ tail_cached' \in Loads(tail_cached, tail)
  /\ push' = IF LooksFull(tail_cached') THEN "idle" ELSE "write"
  /\ item' = IF LooksFull(tail_cached') THEN NoItem ELSE item
  /\ UNCHANGED <<head, storage, consumer>>

WriteSlot ==
  /\ push = "write"
  /\ storage' = [storage EXCEPT ![Slot(head)] = item]
  /\ push' = "publish"
  /\ UNCHANGED <<head, tail_cached, item, consumer>>

StoreHead ==
  /\ push = "publish"
  /\ head' = Plus(head, 1)
  /\ push' = "idle" /\ item' = NoItem
  /\ UNCHANGED <<tail_cached, storage, consumer>>

-----------------------------------------------------------------------------
(***************************************************************************)
(* The consumer                                                            *)
(***************************************************************************)

\* A pop that will read n items; with none to read it returns.
Reading(n) ==
  /\ want' = n /\ got' = <<>>
  /\ pop' = IF n = 0 THEN "idle" ELSE "read"
  /\ out' = IF n = 0 THEN <<>> ELSE out

\* Mutant of try_pop: the ring is taken not to be empty.
PopUnchecked == pop = "idle" /\ Reading(1) /\ UNCHANGED <<tail, head_cached, producer>>

try_pop ==
  /\ pop = "idle"
  /\ IF head_cached = tail
     THEN pop' = "refresh" /\ UNCHANGED <<want, got, out>>
     ELSE Reading(1)
  /\ UNCHANGED <<tail, head_cached, producer>>

RefreshHead ==
  /\ pop = "refresh"
  /\ head_cached' \in Loads(head_cached, head)
  /\ Reading(IF head_cached' = tail THEN 0 ELSE 1)
  /\ UNCHANGED <<tail, producer>>

try_pop_batch(max_count) ==
  /\ pop = "idle"
  /\ head_cached' \in Loads(head_cached, head)
  /\ LET available == Minus(head_cached', tail)
     IN  Reading(IF available < max_count THEN available ELSE max_count)
  /\ UNCHANGED <<tail, producer>>

\* Mutant of ReadSlot: every item of a batch is read from the first slot.
ReadFirstSlot ==
  /\ pop = "read"
  /\ got' = Append(got, storage[Slot(tail)])
  /\ pop' = IF Len(got) + 1 = want THEN "publish" ELSE "read"
  /\ UNCHANGED <<tail, head_cached, want, out, producer>>

ReadSlot ==
  /\ pop = "read"
  /\ got' = Append(got, storage[Slot(Plus(tail, Len(got)))])
  /\ pop' = IF Len(got) + 1 = want THEN "publish" ELSE "read"
  /\ UNCHANGED <<tail, head_cached, want, out, producer>>

StoreTail ==
  /\ pop = "publish"
  /\ tail' = Plus(tail, want)
  /\ out' = got
  /\ pop' = "idle" /\ want' = 0 /\ got' = <<>>
  /\ UNCHANGED <<head_cached, producer>>

Next ==
  \/ (\E v \in Item : try_push(v)) \/ RefreshTail \/ WriteSlot \/ StoreHead
  \/ try_pop \/ RefreshHead \/ (\E n \in MaxCounts : try_pop_batch(n)) \/ ReadSlot \/ StoreTail

Spec == Init /\ [][Next]_vars

-----------------------------------------------------------------------------
(***************************************************************************)
(* Properties                                                              *)
(***************************************************************************)

\* The counters stay in the range of their unsigned type, an item is in hand
\* exactly while a push is in progress, and no pop takes more than a full ring.
TypeOK ==
  /\ head \in Counter /\ tail \in Counter
  /\ tail_cached \in Counter /\ head_cached \in Counter
  /\ storage \in [Slots -> Item \cup {NoItem}]
  /\ push \in {"idle", "refresh", "write", "publish"}
  /\ item \in Item \cup {NoItem} /\ (item = NoItem <=> push = "idle")
  /\ pop \in {"idle", "refresh", "read", "publish"}
  /\ want \in 0 .. Capacity
  /\ got \in Seq(Item \cup {NoItem}) /\ out \in Seq(Item \cup {NoItem})

\* The four counters keep their order round the ring, tail_cached_, tail_,
\* head_cached_, head_, within one capacity; a push about to write has a free
\* slot and one about to publish has filled it; and a pop has read, in order,
\* items the producer has published.
Positions ==
  /\ Minus(tail, tail_cached) <= Minus(head_cached, tail_cached)
  /\ Minus(head_cached, tail_cached) <= Minus(head, tail_cached)
  /\ Minus(head, tail_cached) <= Capacity
  /\ push \in {"write", "publish"} => Minus(head, tail_cached) < Capacity
  /\ push = "publish" => storage[Slot(head)] = item
  /\ pop \in {"read", "publish"} =>
       /\ want \in 1 .. Minus(head_cached, tail)
       /\ Len(got) <= want /\ (Len(got) = want <=> pop = "publish")
       /\ \A i \in 1 .. Len(got) : got[i] = storage[Slot(Plus(tail, i - 1))]

\* The items between tail_ and head_, in the order they were pushed.
size_approx == Minus(head, tail)
Queue == [i \in 1 .. size_approx |-> storage[Slot(Plus(tail, i - 1))]]

\* The two threads never touch the same slot at once: the slot try_push is
\* about to write is none of those a pop has yet to read.
NoSlotShared ==
  push = "write" /\ pop = "read" =>
    \A i \in Len(got) .. want - 1 : Slot(head) # Slot(Plus(tail, i))

\* The ring is a bounded queue: an item is accepted when head_ is stored and
\* taken when tail_ is.
Fifo == INSTANCE BoundedFifo WITH queue <- Queue

\* SPSCRingBuffer implements the queue: whatever the interleaving of the two
\* threads, across wrap-around of slots and of counters and with stale loads,
\* no item is lost, duplicated, reordered or read before it is written.
RefinesFifo == Fifo!Spec
=============================================================================
