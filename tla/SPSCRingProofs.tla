--------------------------- MODULE SPSCRingProofs ---------------------------
(***************************************************************************)
(* Proofs about SPSCRing for every capacity, every width of the counters   *)
(* and every set of items: first the arithmetic of counters that wrap,     *)
(* then that IInv is inductive, then what follows from it: the threads     *)
(* never share a slot, and the ring implements BoundedFifo.                *)
(***************************************************************************)
EXTENDS SPSCRing, TLAPS

\* The counters range over more than one lap of the ring.
LEMMA ModulusBound == Modulus \in Nat /\ Modulus >= Capacity + 2
<1>1. Capacity * Laps \in Nat
  BY RingAssumption
<1>2. Capacity * Laps >= Capacity * 2
  BY RingAssumption
<1> QED
  BY <1>1, <1>2, RingAssumption DEF Modulus

\* The remainder of a division is unique.
LEMMA Remainder ==
  ASSUME NEW m \in Nat, m > 0, NEW x \in Int, NEW q \in Int, NEW r \in 0 .. m - 1, x = m * q + r
  PROVE  x % m = r
  OBVIOUS

\* Every integer has a quotient and a remainder.
LEMMA Division ==
  ASSUME NEW m \in Nat, m > 0, NEW x \in Int
  PROVE  \E q \in Int, r \in 0 .. m - 1 : x = m * q + r
<1>1. x \div m \in Int
  OBVIOUS
<1>2. x % m \in 0 .. m - 1
  OBVIOUS
<1>3. x = m * (x \div m) + (x % m)
  OBVIOUS
<1> QED BY <1>1, <1>2, <1>3, Zenon

\* Addition of counters subtracts the modulus at most once.
LEMMA PlusIs ==
  ASSUME NEW a \in Counter, NEW n \in 0 .. Modulus
  PROVE  Plus(a, n) = IF a + n < Modulus THEN a + n ELSE a + n - Modulus
<1>1. CASE a + n < Modulus
  BY <1>1, ModulusBound, RingAssumption, Remainder DEF Plus, Counter
<1>2. CASE a + n >= Modulus
  BY <1>2, ModulusBound, RingAssumption, Remainder DEF Plus, Counter
<1> QED BY <1>1, <1>2, ModulusBound, RingAssumption DEF Counter

\* Subtraction of counters adds the modulus at most once.
LEMMA MinusIs ==
  ASSUME NEW a \in Counter, NEW b \in Counter
  PROVE  Minus(a, b) = IF b <= a THEN a - b ELSE a - b + Modulus
<1>1. CASE b <= a
  BY <1>1, ModulusBound, RingAssumption, Remainder DEF Minus, Counter
<1>2. CASE a < b
  BY <1>2, ModulusBound, RingAssumption, Remainder DEF Minus, Counter
<1> QED BY <1>1, <1>2, ModulusBound, RingAssumption DEF Counter

\* The mask yields a slot.
LEMMA SlotType == ASSUME NEW a \in Int PROVE Slot(a) \in Slots
  BY RingAssumption DEF Slot, Slots

\* The capacity is positive.
LEMMA CapacityType == Capacity \in Nat /\ Capacity > 0
  BY RingAssumption

\* The slot of a counter is not affected by wrap-around of the counter.
LEMMA SlotWraps ==
  ASSUME NEW a \in Counter, NEW n \in 0 .. Modulus
  PROVE  Slot(Plus(a, n)) = (a + n) % Capacity
<1>1. CASE a + n < Modulus
  BY <1>1, PlusIs DEF Slot
<1>2. CASE a + n >= Modulus
  <2>1. PICK q \in Int, r \in 0 .. Capacity - 1 : a + n - Modulus = Capacity * q + r
    <3>1. a + n - Modulus \in Int
      BY ModulusBound DEF Counter
    <3> QED BY <3>1, Division, CapacityType, Zenon
  <2>2. a + n = Capacity * (q + Laps) + r
    BY <2>1, RingAssumption, ModulusBound DEF Modulus, Counter
  <2>3. (a + n) % Capacity = r
    <3>1. q + Laps \in Int /\ a + n \in Int
      BY RingAssumption, ModulusBound DEF Counter
    <3> QED BY <3>1, <2>2, Remainder, CapacityType, Zenon
  <2>4. (a + n - Modulus) % Capacity = r
    <3>1. a + n - Modulus \in Int
      BY ModulusBound DEF Counter
    <3> QED BY <3>1, <2>1, Remainder, CapacityType, Zenon
  <2> QED BY <1>2, <2>3, <2>4, PlusIs, ModulusBound DEF Slot, Counter
<1> QED BY <1>1, <1>2, ModulusBound DEF Counter

\* Counters less than one capacity apart have different slots.
LEMMA SlotsDiffer ==
  ASSUME NEW a \in Counter, NEW i \in 0 .. Capacity - 1, NEW j \in 0 .. Capacity - 1, i # j
  PROVE  Slot(Plus(a, i)) # Slot(Plus(a, j))
<1>1. ASSUME NEW x \in Int, NEW d \in 1 .. Capacity - 1
      PROVE  (x + d) % Capacity # x % Capacity
  <2>1. PICK q \in Int, r \in 0 .. Capacity - 1 : x = Capacity * q + r
    BY Division, CapacityType, Zenon
  <2>2. x % Capacity = r
    BY <2>1, Remainder, RingAssumption
  <2>3. CASE r + d < Capacity
    <3>1. (x + d) % Capacity = r + d
      BY <2>1, <2>3, Remainder, RingAssumption
    <3> QED BY <3>1, <2>2, RingAssumption
  <2>4. CASE r + d >= Capacity
    <3>1. x + d = Capacity * (q + 1) + (r + d - Capacity)
      BY <2>1, RingAssumption
    <3>2. r + d - Capacity \in 0 .. Capacity - 1 /\ q + 1 \in Int /\ x + d \in Int
      BY <2>4, RingAssumption
    <3>3. (x + d) % Capacity = r + d - Capacity
      BY <3>1, <3>2, Remainder, CapacityType, Zenon
    <3> QED BY <3>3, <2>2, RingAssumption
  <2> QED BY <2>3, <2>4, RingAssumption
<1>2. Slot(Plus(a, i)) = (a + i) % Capacity /\ Slot(Plus(a, j)) = (a + j) % Capacity
  BY SlotWraps, ModulusBound, RingAssumption
<1>3. CASE i < j
  <2>1. j - i \in 1 .. Capacity - 1 /\ (a + i) + (j - i) = a + j /\ a + i \in Int
    BY <1>3, RingAssumption DEF Counter
  <2> QED BY <2>1, <1>1, <1>2
<1>4. CASE j < i
  <2>1. i - j \in 1 .. Capacity - 1 /\ (a + j) + (i - j) = a + i /\ a + j \in Int
    BY <1>4, RingAssumption DEF Counter
  <2> QED BY <2>1, <1>1, <1>2
<1> QED BY <1>3, <1>4, RingAssumption

\* A sum of counters is a counter.
LEMMA PlusType == ASSUME NEW a \in Counter, NEW n \in 0 .. Modulus PROVE Plus(a, n) \in Counter
  BY PlusIs, ModulusBound DEF Counter

\* A difference of counters is a counter.
LEMMA MinusType == ASSUME NEW a \in Counter, NEW b \in Counter PROVE Minus(a, b) \in Counter
  BY MinusIs, ModulusBound DEF Counter

\* Advancing twice is advancing by the sum.
LEMMA PlusPlus ==
  ASSUME NEW a \in Counter, NEW m \in Nat, NEW n \in Nat, m + n < Modulus
  PROVE  Plus(Plus(a, m), n) = Plus(a, m + n)
<1>1. m \in 0 .. Modulus /\ n \in 0 .. Modulus /\ m + n \in 0 .. Modulus
  BY ModulusBound
<1>2. PICK b \in Counter : b = Plus(a, m)
  BY <1>1, PlusType
<1>3. b = IF a + m < Modulus THEN a + m ELSE a + m - Modulus
  BY <1>1, <1>2, PlusIs
<1>4. Plus(b, n) = IF b + n < Modulus THEN b + n ELSE b + n - Modulus
  BY <1>1, PlusIs
<1>5. Plus(a, m + n) = IF a + (m + n) < Modulus THEN a + (m + n) ELSE a + (m + n) - Modulus
  BY <1>1, PlusIs
<1> QED BY <1>2, <1>3, <1>4, <1>5, ModulusBound DEF Counter

\* A counter is reached by advancing another by their distance.
LEMMA PlusMinus ==
  ASSUME NEW a \in Counter, NEW b \in Counter
  PROVE  Plus(a, Minus(b, a)) = b
<1>1. PICK d \in Counter : d = Minus(b, a)
  BY MinusType
<1>2. d \in 0 .. Modulus
  BY ModulusBound DEF Counter
<1>3. Plus(a, d) = IF a + d < Modulus THEN a + d ELSE a + d - Modulus
  BY <1>2, PlusIs
<1>4. d = IF a <= b THEN b - a ELSE b - a + Modulus
  BY <1>1, MinusIs
<1> QED BY <1>1, <1>3, <1>4, ModulusBound DEF Counter

\* Advancing a counter by n increases its distance from another by n.
LEMMA MinusPlus ==
  ASSUME NEW a \in Counter, NEW b \in Counter, NEW n \in Nat, Minus(a, b) + n < Modulus
  PROVE  Minus(Plus(a, n), b) = Minus(a, b) + n
<1>1. n \in 0 .. Modulus
  BY MinusType, ModulusBound DEF Counter
<1>2. PICK c \in Counter : c = Plus(a, n)
  BY <1>1, PlusType
<1>3. c = IF a + n < Modulus THEN a + n ELSE a + n - Modulus
  BY <1>1, <1>2, PlusIs
<1>4. Minus(c, b) = IF b <= c THEN c - b ELSE c - b + Modulus
  BY MinusIs
<1>5. Minus(a, b) = IF b <= a THEN a - b ELSE a - b + Modulus
  BY MinusIs
<1> QED BY <1>2, <1>3, <1>4, <1>5, ModulusBound DEF Counter

\* Distances along the ring add up.
LEMMA MinusMinus ==
  ASSUME NEW a \in Counter, NEW b \in Counter, NEW c \in Counter, Minus(a, c) <= Minus(b, c)
  PROVE  Minus(b, a) = Minus(b, c) - Minus(a, c)
  BY MinusIs, ModulusBound DEF Counter

-----------------------------------------------------------------------------
(***************************************************************************)
(* The invariant                                                           *)
(***************************************************************************)

IInv == TypeOK /\ Positions

\* The distances the invariant gives, from tail_ as well as from tail_cached_.
LEMMA Distances ==
  ASSUME IInv
  PROVE  /\ Minus(head, tail_cached) \in 0 .. Capacity
         /\ Minus(tail, tail_cached) \in 0 .. Minus(head_cached, tail_cached)
         /\ Minus(head_cached, tail_cached) \in 0 .. Minus(head, tail_cached)
         /\ Minus(head, tail) = Minus(head, tail_cached) - Minus(tail, tail_cached)
         /\ Minus(head_cached, tail) = Minus(head_cached, tail_cached) - Minus(tail, tail_cached)
         /\ Minus(head, head_cached) = Minus(head, tail_cached) - Minus(head_cached, tail_cached)
         /\ Minus(head, tail) \in 0 .. Capacity
         /\ Minus(head_cached, tail) \in 0 .. Minus(head, tail)
<1>1. /\ head \in Counter /\ tail \in Counter /\ tail_cached \in Counter /\ head_cached \in Counter
      /\ Minus(head, tail_cached) <= Capacity
      /\ Minus(tail, tail_cached) <= Minus(head_cached, tail_cached)
      /\ Minus(head_cached, tail_cached) <= Minus(head, tail_cached)
  BY DEF IInv, TypeOK, Positions
<1>2. /\ Minus(head, tail_cached) \in Nat /\ Minus(tail, tail_cached) \in Nat
      /\ Minus(head_cached, tail_cached) \in Nat
  BY <1>1, MinusType, ModulusBound DEF Counter
<1>3. Minus(tail, tail_cached) <= Minus(head, tail_cached)
  BY <1>1, <1>2, RingAssumption
<1>4. /\ Minus(head, tail) = Minus(head, tail_cached) - Minus(tail, tail_cached)
      /\ Minus(head_cached, tail) = Minus(head_cached, tail_cached) - Minus(tail, tail_cached)
      /\ Minus(head, head_cached) = Minus(head, tail_cached) - Minus(head_cached, tail_cached)
  BY <1>1, <1>3, MinusMinus
<1> QED BY <1>1, <1>2, <1>3, <1>4, RingAssumption

\* While a push has a free slot, that slot holds none of the queued items.
LEMMA HeadSlotFree ==
  ASSUME IInv, push = "write", NEW i \in 0 .. Minus(head, tail) - 1
  PROVE  Slot(Plus(tail, i)) # Slot(head)
<1>1. Minus(head, tail) \in 0 .. Capacity - 1
  BY Distances, RingAssumption DEF IInv, Positions
<1>2. head = Plus(tail, Minus(head, tail))
  BY PlusMinus DEF IInv, TypeOK
<1>3. i \in 0 .. Capacity - 1 /\ i # Minus(head, tail)
  BY <1>1, RingAssumption
<1>4. Slot(Plus(tail, i)) # Slot(Plus(tail, Minus(head, tail)))
  BY <1>1, <1>3, SlotsDiffer DEF IInv, TypeOK
<1> QED BY <1>2, <1>4

\* The invariant holds of an empty ring.
LEMMA InitIInv == Init => IInv
<1> SUFFICES ASSUME Init PROVE IInv
  OBVIOUS
<1>1. 0 \in Counter
  BY ModulusBound, RingAssumption DEF Counter
<1>2. Minus(0, 0) = 0
  BY <1>1, MinusIs
<1>3. TypeOK
  BY <1>1, RingAssumption DEF Init, TypeOK
<1>4. Positions
  BY <1>2, RingAssumption DEF Init, Positions
<1> QED BY <1>3, <1>4 DEF IInv

\* The beginning of a push keeps the invariant.
LEMMA PushIInv ==
  ASSUME IInv, NEW v \in Item, try_push(v)
  PROVE  IInv'
<1> USE DEF try_push, consumer
<1>1. TypeOK'
  BY RingAssumption DEF IInv, TypeOK
<1>2. push' = "write" => Minus(head, tail_cached) < Capacity
  <2>1. Minus(head, tail_cached) + 1 < Modulus
    BY Distances, ModulusBound, RingAssumption
  <2>2. Minus(Plus(head, 1), tail_cached) = Minus(head, tail_cached) + 1
    BY <2>1, MinusPlus DEF IInv, TypeOK
  <2> QED BY <2>2, Distances, RingAssumption DEF LooksFull
<1>3. Positions'
  BY <1>2 DEF IInv, Positions, Minus, Plus
<1> QED BY <1>1, <1>3 DEF IInv

\* Loading tail_, however old the value, keeps the invariant.
LEMMA RefreshTailIInv ==
  ASSUME IInv, RefreshTail
  PROVE  IInv'
<1> USE DEF RefreshTail, consumer
<1>1. PICK k \in 0 .. Minus(tail, tail_cached) : tail_cached' = Plus(tail_cached, k)
  BY DEF Loads
<1>2. k \in 0 .. Capacity /\ k \in Nat /\ k \in 0 .. Modulus
  BY Distances, ModulusBound, RingAssumption
<1>3. tail_cached' \in Counter
  BY <1>1, <1>2, PlusType DEF IInv, TypeOK
<1>4. TypeOK'
  BY <1>3, RingAssumption DEF IInv, TypeOK
<1>5. Minus(tail_cached', tail_cached) = k
  <2>1. Minus(tail_cached, tail_cached) = 0
    BY MinusIs DEF IInv, TypeOK, Counter
  <2> QED BY <1>1, <1>2, <2>1, MinusPlus, ModulusBound, RingAssumption DEF IInv, TypeOK
<1>6. ASSUME NEW x \in Counter, Minus(tail, tail_cached) <= Minus(x, tail_cached)
      PROVE  Minus(x, tail_cached') = Minus(x, tail_cached) - k
  <2>1. k <= Minus(x, tail_cached)
    <3>1. Minus(x, tail_cached) \in Int /\ Minus(tail, tail_cached) \in Int
      BY <1>6, MinusType, ModulusBound DEF IInv, TypeOK, Counter
    <3> QED BY <1>6, <3>1
  <2> QED BY <2>1, <1>3, <1>5, MinusMinus DEF IInv, TypeOK
<1>7. /\ Minus(tail, tail_cached') = Minus(tail, tail_cached) - k
      /\ Minus(head_cached, tail_cached') = Minus(head_cached, tail_cached) - k
      /\ Minus(head, tail_cached') = Minus(head, tail_cached) - k
  <2>1. /\ Minus(tail, tail_cached) <= Minus(tail, tail_cached)
        /\ Minus(tail, tail_cached) <= Minus(head_cached, tail_cached)
        /\ Minus(tail, tail_cached) <= Minus(head, tail_cached)
    BY Distances, RingAssumption, SMTT(30)
  <2>2. head \in Counter /\ tail \in Counter /\ head_cached \in Counter
    BY Zenon DEF IInv, TypeOK
  <2> QED BY <1>6, <2>1, <2>2, Zenon
<1>8. push' = "write" => Minus(head, tail_cached') < Capacity
  <2>1. Minus(head, tail_cached') \in 0 .. Capacity /\ Minus(head, tail_cached') + 1 < Modulus
    BY <1>2, <1>7, Distances, ModulusBound, RingAssumption
  <2>2. Minus(Plus(head, 1), tail_cached') = Minus(head, tail_cached') + 1
    BY <1>3, <2>1, MinusPlus DEF IInv, TypeOK
  <2> QED BY <2>1, <2>2, RingAssumption DEF LooksFull
<1>9. Positions'
  BY <1>2, <1>7, <1>8, Distances, RingAssumption DEF IInv, Positions, Minus, Plus
<1> QED BY <1>4, <1>9 DEF IInv

\* Writing the free slot keeps the invariant: no queued item is overwritten.
LEMMA WriteSlotIInv ==
  ASSUME IInv, WriteSlot
  PROVE  IInv'
<1> USE DEF WriteSlot, consumer
<1>1. Slot(head) \in Slots
  BY SlotType DEF IInv, TypeOK, Counter
<1>2. TypeOK'
  BY <1>1 DEF IInv, TypeOK
<1>3. storage'[Slot(head)] = item
  BY <1>1 DEF IInv, TypeOK
<1>4. ASSUME pop \in {"read", "publish"}, NEW i \in 1 .. Len(got)
      PROVE  storage'[Slot(Plus(tail, i - 1))] = storage[Slot(Plus(tail, i - 1))]
  <2>1. i - 1 \in 0 .. Minus(head, tail) - 1
    <3>1. want \in 1 .. Minus(head_cached, tail) /\ Len(got) <= want
      BY <1>4, Zenon DEF IInv, Positions
    <3>2. Minus(head, tail) \in 0 .. Capacity /\ Minus(head_cached, tail) \in 0 .. Minus(head, tail)
      BY Distances, Zenon
    <3>3. Len(got) \in Nat
      BY DEF IInv, TypeOK
    <3> QED BY <3>1, <3>2, <3>3, RingAssumption
  <2>2. Slot(Plus(tail, i - 1)) # Slot(head)
    BY <2>1, HeadSlotFree
  <2> QED BY <2>2 DEF IInv, TypeOK
<1>5. Positions'
  BY <1>3, <1>4 DEF IInv, Positions, Minus, Plus, Slot
<1> QED BY <1>2, <1>5 DEF IInv

\* Storing head_ keeps the invariant.
LEMMA StoreHeadIInv ==
  ASSUME IInv, StoreHead
  PROVE  IInv'
<1> USE DEF StoreHead, consumer
<1>1. Minus(head, tail_cached) < Capacity /\ Minus(head, tail_cached) + 1 < Modulus
  BY Distances, ModulusBound, RingAssumption DEF IInv, Positions
<1>2. Minus(head', tail_cached) = Minus(head, tail_cached) + 1
  BY <1>1, MinusPlus DEF IInv, TypeOK
<1>3. head' \in Counter
  BY PlusType, ModulusBound, RingAssumption DEF IInv, TypeOK
<1>4. TypeOK'
  BY <1>3 DEF IInv, TypeOK
<1>5. Positions'
  BY <1>1, <1>2, Distances, RingAssumption DEF IInv, Positions, Minus, Plus
<1> QED BY <1>4, <1>5 DEF IInv

\* Beginning to read n items, all of them published.
LEMMA ReadingIInv ==
  ASSUME IInv, NEW n \in Nat, Reading(n), UNCHANGED <<tail, producer>>,
         head_cached' \in Counter,
         n <= Minus(head_cached', tail),
         Minus(tail, tail_cached) <= Minus(head_cached', tail_cached),
         Minus(head_cached', tail_cached) <= Minus(head, tail_cached)
  PROVE  IInv'
<1> USE DEF Reading, producer
<1>1. n \in 0 .. Capacity
  <2>1. Minus(head_cached', tail) = Minus(head_cached', tail_cached) - Minus(tail, tail_cached)
    BY MinusMinus DEF IInv, TypeOK
  <2>2. Minus(head_cached', tail_cached) \in Int
    BY MinusType, ModulusBound DEF IInv, TypeOK, Counter
  <2> QED BY <2>1, <2>2, Distances, RingAssumption
<1>2. got' = <<>> /\ Len(got') = 0 /\ got' \in Seq(Item \cup {NoItem})
  OBVIOUS
<1>3. out' \in Seq(Item \cup {NoItem}) /\ pop' \in {"idle", "read"}
  BY DEF IInv, TypeOK
<1>4. TypeOK'
  BY <1>1, <1>2, <1>3 DEF IInv, TypeOK
<1>5. pop' = "read" => want' \in 1 .. Minus(head_cached', tail)
  <2>1. Minus(head_cached', tail) \in Int
    BY MinusType, ModulusBound DEF IInv, TypeOK, Counter
  <2> QED BY <2>1
<1>6. Positions'
  BY <1>2, <1>3, <1>5 DEF IInv, Positions, Minus, Plus
<1> QED BY <1>4, <1>6 DEF IInv

\* The beginning of a pop keeps the invariant.
LEMMA PopIInv ==
  ASSUME IInv, try_pop
  PROVE  IInv'
<1> USE DEF try_pop
<1>1. CASE head_cached = tail
  <2>1. TypeOK'
    BY <1>1 DEF IInv, TypeOK, producer
  <2>2. Positions'
    BY <1>1 DEF IInv, Positions, producer, Minus, Plus
  <2> QED BY <2>1, <2>2 DEF IInv
<1>2. CASE head_cached # tail
  <2>1. 1 <= Minus(head_cached, tail)
    BY <1>2, MinusIs, ModulusBound DEF IInv, TypeOK, Counter
  <2> QED BY <1>2, <2>1, ReadingIInv DEF IInv, TypeOK, Positions
<1> QED BY <1>1, <1>2

\* What a load of head_ can return lies between tail_ and head_.
LEMMA LoadHead ==
  ASSUME IInv, NEW h \in Loads(head_cached, head)
  PROVE  /\ h \in Counter
         /\ Minus(tail, tail_cached) <= Minus(h, tail_cached)
         /\ Minus(h, tail_cached) <= Minus(head, tail_cached)
<1>1. PICK k \in 0 .. Minus(head, head_cached) : h = Plus(head_cached, k)
  BY DEF Loads
<1>2. k \in Nat /\ k \in 0 .. Modulus /\ Minus(head_cached, tail_cached) + k <= Capacity
  BY Distances, ModulusBound, RingAssumption
<1>3. Minus(h, tail_cached) = Minus(head_cached, tail_cached) + k
  BY <1>1, <1>2, MinusPlus, Distances, ModulusBound, RingAssumption DEF IInv, TypeOK
<1> QED BY <1>1, <1>2, <1>3, PlusType, Distances, RingAssumption DEF IInv, TypeOK

\* Loading head_, however old the value, keeps the invariant.
LEMMA RefreshHeadIInv ==
  ASSUME IInv, RefreshHead
  PROVE  IInv'
<1> USE DEF RefreshHead
<1> DEFINE n == IF head_cached' = tail THEN 0 ELSE 1
<1>1. /\ head_cached' \in Counter
      /\ Minus(tail, tail_cached) <= Minus(head_cached', tail_cached)
      /\ Minus(head_cached', tail_cached) <= Minus(head, tail_cached)
  BY LoadHead
<1>2. n \in Nat /\ n <= Minus(head_cached', tail)
  BY <1>1, MinusIs, ModulusBound, SMTT(30) DEF IInv, TypeOK, Counter
<1>3. Reading(n)
  OBVIOUS
<1> QED BY <1>1, <1>2, <1>3, ReadingIInv

\* The beginning of a batch pop keeps the invariant.
LEMMA PopBatchIInv ==
  ASSUME IInv, NEW max_count \in MaxCounts, try_pop_batch(max_count)
  PROVE  IInv'
<1> USE DEF try_pop_batch
<1> DEFINE available == Minus(head_cached', tail)
           n == IF available < max_count THEN available ELSE max_count
<1>1. /\ head_cached' \in Counter
      /\ Minus(tail, tail_cached) <= Minus(head_cached', tail_cached)
      /\ Minus(head_cached', tail_cached) <= Minus(head, tail_cached)
  BY LoadHead
<1>2. available \in Nat /\ max_count \in Nat
  BY <1>1, MinusType, RingAssumption DEF IInv, TypeOK, Counter
<1>3. n \in Nat /\ n <= available
  BY <1>2
<1>4. Reading(n)
  OBVIOUS
<1> QED BY <1>1, <1>3, <1>4, ReadingIInv

\* Reading a slot keeps the invariant.
LEMMA ReadSlotIInv ==
  ASSUME IInv, ReadSlot
  PROVE  IInv'
<1> USE DEF ReadSlot, producer
<1> DEFINE x == storage[Slot(Plus(tail, Len(got)))]
<1>1. Len(got) \in Nat /\ Len(got) \in 0 .. Modulus
  BY Distances, ModulusBound, RingAssumption DEF IInv, TypeOK, Positions
<1>2. x \in Item \cup {NoItem}
  <2>1. Plus(tail, Len(got)) \in Int
    BY <1>1, PlusType DEF IInv, TypeOK, Counter
  <2> QED BY <2>1, SlotType DEF IInv, TypeOK
<1>3. /\ got' \in Seq(Item \cup {NoItem}) /\ Len(got') = Len(got) + 1
      /\ got'[Len(got) + 1] = x /\ \A i \in 1 .. Len(got) : got'[i] = got[i]
  BY <1>2 DEF IInv, TypeOK
<1>4. TypeOK'
  BY <1>3 DEF IInv, TypeOK
<1>5. Len(got) < want /\ want \in Nat
  BY <1>1 DEF IInv, TypeOK, Positions
<1>6. Len(got') <= want /\ (Len(got') = want <=> pop' = "publish")
  BY <1>1, <1>3, <1>5
<1>7. \A i \in 1 .. Len(got') : got'[i] = storage[Slot(Plus(tail, i - 1))]
  BY <1>1, <1>3 DEF IInv, Positions
<1>8. Positions'
  BY <1>6, <1>7 DEF IInv, Positions, Minus, Plus, Slot
<1> QED BY <1>4, <1>8 DEF IInv

\* Storing tail_ keeps the invariant.
LEMMA StoreTailIInv ==
  ASSUME IInv, StoreTail
  PROVE  IInv'
<1> USE DEF StoreTail, producer
<1>1. want \in 1 .. Minus(head_cached, tail)
  BY DEF IInv, Positions
<1>2. want \in Nat /\ want \in 0 .. Modulus /\ Minus(tail, tail_cached) + want < Modulus
  BY <1>1, Distances, ModulusBound, RingAssumption
<1>3. Minus(tail', tail_cached) = Minus(tail, tail_cached) + want
  BY <1>2, MinusPlus DEF IInv, TypeOK
<1>4. tail' \in Counter
  BY <1>2, PlusType DEF IInv, TypeOK
<1>5. TypeOK'
  BY <1>4, RingAssumption DEF IInv, TypeOK
<1>6. Minus(tail', tail_cached) <= Minus(head_cached, tail_cached)
  BY <1>1, <1>3, Distances, RingAssumption
<1>7. Positions'
  BY <1>6 DEF IInv, Positions, Minus
<1> QED BY <1>5, <1>7 DEF IInv

\* Every step keeps the invariant.
LEMMA NextIInv == IInv /\ [Next]_vars => IInv'
<1> SUFFICES ASSUME IInv, [Next]_vars PROVE IInv'
  OBVIOUS
<1>1. CASE UNCHANGED vars
  BY <1>1 DEF IInv, TypeOK, Positions, vars, producer, consumer, Minus, Plus, Slot
<1>2. ASSUME NEW v \in Item, try_push(v) PROVE IInv'
  BY <1>2, PushIInv
<1>3. ASSUME NEW n \in MaxCounts, try_pop_batch(n) PROVE IInv'
  BY <1>3, PopBatchIInv
<1> QED
  BY <1>1, <1>2, <1>3, RefreshTailIInv, WriteSlotIInv, StoreHeadIInv, PopIInv, RefreshHeadIInv,
     ReadSlotIInv, StoreTailIInv DEF Next

\* The invariant is inductive.
LEMMA Invariance == Spec => []IInv
  BY InitIInv, NextIInv, PTL DEF Spec

\* The counters stay in range and no pop asks for more than a full ring.
THEOREM TypeCorrect == Spec => []TypeOK
<1>1. IInv => TypeOK
  BY DEF IInv
<1> QED BY <1>1, Invariance, PTL

\* The counters, caches and slots of the ring keep their order and contents,
\* for every capacity and every width of the counters.
THEOREM PositionsCorrect == Spec => []Positions
<1>1. IInv => Positions
  BY DEF IInv
<1> QED BY <1>1, Invariance, PTL

\* The producer never writes the slot a pop is reading: the plain accesses to
\* storage_ do not race.
THEOREM SlotsCorrect == Spec => []NoSlotShared
<1>1. IInv => NoSlotShared
  <2> SUFFICES ASSUME IInv, push = "write", pop = "read", NEW i \in Len(got) .. want - 1
               PROVE  Slot(head) # Slot(Plus(tail, i))
    BY DEF NoSlotShared
  <2>1. i \in 0 .. Minus(head, tail) - 1
    BY Distances, RingAssumption DEF IInv, TypeOK, Positions
  <2> QED BY <2>1, HeadSlotFree
<1> QED BY <1>1, Invariance, PTL

-----------------------------------------------------------------------------
(***************************************************************************)
(* The ring implements the bounded queue                                   *)
(***************************************************************************)

\* The queue is a sequence of what the slots hold, at most Capacity long.
LEMMA QueueType ==
  IInv => /\ Queue \in Seq(Item \cup {NoItem})
          /\ Len(Queue) = Minus(head, tail)
          /\ \A i \in 1 .. Minus(head, tail) : Queue[i] = storage[Slot(Plus(tail, i - 1))]
<1> SUFFICES ASSUME IInv
             PROVE  /\ Queue \in Seq(Item \cup {NoItem})
                    /\ Len(Queue) = Minus(head, tail)
                    /\ \A i \in 1 .. Minus(head, tail) : Queue[i] = storage[Slot(Plus(tail, i - 1))]
  OBVIOUS
<1>1. Minus(head, tail) \in Nat
  BY Distances, RingAssumption
<1>2. ASSUME NEW i \in 1 .. Minus(head, tail)
      PROVE  storage[Slot(Plus(tail, i - 1))] \in Item \cup {NoItem}
  <2>1. i - 1 \in 0 .. Modulus
    BY Distances, ModulusBound, RingAssumption
  <2>2. Plus(tail, i - 1) \in Int
    BY <2>1, PlusType DEF IInv, TypeOK, Counter
  <2> QED BY <2>2, SlotType DEF IInv, TypeOK
<1> QED BY <1>1, <1>2 DEF Queue, size_approx

\* Same counters and same contents between them: the same queue.
LEMMA QueueUnchanged ==
  ASSUME IInv, head' = head, tail' = tail,
         \A i \in 0 .. Minus(head, tail) - 1 :
           storage'[Slot(Plus(tail, i))] = storage[Slot(Plus(tail, i))]
  PROVE  Queue' = Queue
<1>1. ASSUME NEW i \in 1 .. Minus(head, tail)
      PROVE  storage'[Slot(Plus(tail, i - 1))] = storage[Slot(Plus(tail, i - 1))]
  <2>1. i - 1 \in 0 .. Minus(head, tail) - 1
    BY Distances, RingAssumption
  <2> QED BY <2>1
<1> QED BY <1>1 DEF Queue, size_approx, Minus, Plus, Slot

\* Storing head_ appends the item of the push to the queue.
LEMMA AcceptStep ==
  ASSUME IInv, StoreHead
  PROVE  Fifo!Accept
<1> USE DEF StoreHead, consumer
<1> DEFINE n == Minus(head, tail)
<1>1. n \in 0 .. Capacity - 1 /\ n \in Nat
  BY Distances, RingAssumption DEF IInv, Positions
<1>2. Minus(head', tail') = n + 1
  BY <1>1, MinusPlus, ModulusBound, RingAssumption DEF IInv, TypeOK
<1>3. IInv'
  BY StoreHeadIInv
<1>4. storage[Slot(head)] = item /\ head = Plus(tail, n)
  BY PlusMinus DEF IInv, TypeOK, Positions
<1>5. Append(Queue, item) \in Seq(Item \cup {NoItem}) /\ Len(Append(Queue, item)) = n + 1
  BY QueueType DEF IInv, TypeOK
<1>6. Queue' \in Seq(Item \cup {NoItem}) /\ Len(Queue') = n + 1
  <2>1. (Queue \in Seq(Item \cup {NoItem}) /\ Len(Queue) = Minus(head, tail))'
    BY <1>3, QueueType, PTL
  <2> QED BY <2>1, <1>2
<1>7. ASSUME NEW i \in 1 .. n + 1 PROVE Queue'[i] = Append(Queue, item)[i]
  <2>1. Queue'[i] = storage[Slot(Plus(tail, i - 1))]
    BY <1>2 DEF Queue, size_approx, Plus, Slot
  <2>2. CASE i = n + 1
    BY <1>1, <1>4, <2>1, <2>2, QueueType DEF IInv, TypeOK
  <2>3. CASE i \in 1 .. n
    BY <1>1, <2>1, <2>3, QueueType DEF IInv, TypeOK
  <2>4. i = n + 1 \/ i \in 1 .. n
    BY <1>1
  <2> QED BY <2>2, <2>3, <2>4, Zenon
<1>8. Queue' = Append(Queue, item)
  BY <1>1, <1>5, <1>6, <1>7
<1>9. item # NoItem /\ Len(Queue) < Capacity
  BY <1>1, QueueType, RingAssumption DEF IInv, TypeOK
<1> QED BY <1>8, <1>9 DEF Fifo!Accept

\* Storing tail_ takes the items read off the front of the queue.
LEMMA TakeStep ==
  ASSUME IInv, StoreTail
  PROVE  want \in 0 .. Capacity /\ Fifo!Take(want)
<1> USE DEF StoreTail, producer
<1> DEFINE n == Minus(head, tail)
<1>1. n \in 0 .. Capacity /\ want \in 1 .. n /\ n \in Nat /\ want \in Nat
  BY Distances, RingAssumption DEF IInv, Positions
<1>2. IInv'
  BY StoreTailIInv
<1>3. Minus(tail', tail) = want /\ tail' \in Counter
  <2>1. Minus(tail, tail) = 0
    BY MinusIs DEF IInv, TypeOK, Counter
  <2>2. want \in 0 .. Modulus
    BY <1>1, ModulusBound, RingAssumption
  <2>3. Minus(tail, tail) + want < Modulus
    BY <1>1, <2>1, ModulusBound, RingAssumption
  <2>4. Minus(Plus(tail, want), tail) = Minus(tail, tail) + want
    BY <1>1, <2>3, MinusPlus DEF IInv, TypeOK
  <2> QED BY <1>1, <2>1, <2>2, <2>4, PlusType DEF IInv, TypeOK
<1>4. Minus(head', tail') = n - want
  BY <1>1, <1>3, MinusMinus DEF IInv, TypeOK
<1>5. Queue \in Seq(Item \cup {NoItem}) /\ Len(Queue) = n
  BY QueueType
<1>6. out' = SubSeq(Queue, 1, want)
  <2>1. got \in Seq(Item \cup {NoItem}) /\ Len(got) = want
    BY DEF IInv, TypeOK, Positions
  <2>2. ASSUME NEW i \in 1 .. want PROVE got[i] = Queue[i]
    BY <1>1, <2>1, QueueType DEF IInv, Positions
  <2>3. /\ SubSeq(Queue, 1, want) \in Seq(Item \cup {NoItem})
        /\ Len(SubSeq(Queue, 1, want)) = want
        /\ \A i \in 1 .. want : SubSeq(Queue, 1, want)[i] = Queue[i]
    BY <1>1, <1>5
  <2> QED BY <1>1, <2>1, <2>2, <2>3
<1>7. Queue' = SubSeq(Queue, want + 1, Len(Queue))
  <2>1. (Queue \in Seq(Item \cup {NoItem}) /\ Len(Queue) = Minus(head, tail))'
    BY <1>2, QueueType, PTL
  <2>2. Queue' \in Seq(Item \cup {NoItem}) /\ Len(Queue') = n - want
    BY <1>4, <2>1
  <2>3. /\ SubSeq(Queue, want + 1, n) \in Seq(Item \cup {NoItem})
        /\ Len(SubSeq(Queue, want + 1, n)) = n - want
        /\ \A i \in 1 .. n - want : SubSeq(Queue, want + 1, n)[i] = Queue[want + i]
    BY <1>1, <1>5
  <2>4. ASSUME NEW i \in 1 .. n - want PROVE Queue'[i] = Queue[want + i]
    <3>1. Queue'[i] = storage[Slot(Plus(Plus(tail, want), i - 1))]
      BY <1>4 DEF Queue, size_approx, Plus, Slot
    <3>2. i - 1 \in Nat /\ want + (i - 1) < Modulus /\ want + (i - 1) = (want + i) - 1
      BY <1>1, ModulusBound, RingAssumption
    <3>3. Plus(Plus(tail, want), i - 1) = Plus(tail, (want + i) - 1)
      BY <1>1, <3>2, PlusPlus DEF IInv, TypeOK
    <3>4. want + i \in 1 .. n
      BY <1>1
    <3> QED BY <3>1, <3>3, <3>4, QueueType
  <2> QED BY <1>1, <1>5, <2>2, <2>3, <2>4
<1> QED BY <1>1, <1>5, <1>6, <1>7, RingAssumption DEF Fifo!Take

\* A pop that begins by reading n items either returns none, which is a Take of
\* no items, or changes nothing the queue's specification sees.
LEMMA ReadingStep ==
  ASSUME IInv, NEW n \in Nat, Reading(n), UNCHANGED <<tail, producer>>
  PROVE  Fifo!Take(0) \/ UNCHANGED Fifo!vars
<1>1. Queue' = Queue
  BY QueueUnchanged DEF producer
<1>2. CASE n = 0
  <2>1. Queue \in Seq(Item \cup {NoItem}) /\ Len(Queue) \in Nat
    BY QueueType
  <2>2. SubSeq(Queue, 1, 0) = <<>> /\ SubSeq(Queue, 1, Len(Queue)) = Queue
    BY <2>1
  <2>3. out' = <<>> /\ item' = item
    BY <1>2 DEF Reading, producer
  <2> QED BY <1>1, <2>1, <2>2, <2>3 DEF Fifo!Take
<1>3. CASE n # 0
  BY <1>1, <1>3 DEF Reading, producer, Fifo!vars
<1> QED BY <1>2, <1>3

\* Every step of the ring is a step of the queue or leaves it as it is.
LEMMA NextRefines == IInv /\ [Next]_vars => [Fifo!Next]_Fifo!vars
<1> SUFFICES ASSUME IInv, [Next]_vars PROVE Fifo!Next \/ UNCHANGED Fifo!vars
  OBVIOUS
<1>0. 0 \in 0 .. Capacity
  BY RingAssumption
<1>1. CASE UNCHANGED vars
  <2>1. Queue' = Queue
    BY <1>1, QueueUnchanged DEF vars, producer, consumer
  <2> QED BY <1>1, <2>1 DEF vars, producer, consumer, Fifo!vars
<1>2. ASSUME NEW v \in Item, try_push(v) PROVE Fifo!Next
  <2>1. Queue' = Queue
    BY <1>2, QueueUnchanged DEF try_push, consumer
  <2>2. Fifo!Offer(v)
    BY <1>2, <2>1 DEF try_push, consumer, IInv, TypeOK, Fifo!Offer
  <2> QED BY <2>2 DEF Fifo!Next
<1>3. CASE RefreshTail
  <2>1. Queue' = Queue
    BY <1>3, QueueUnchanged DEF RefreshTail, consumer
  <2>2. CASE item' = item
    BY <1>3, <2>1, <2>2 DEF RefreshTail, consumer, Fifo!vars
  <2>3. CASE item' # item
    <3>1. Fifo!Refuse
      BY <1>3, <2>1, <2>3 DEF RefreshTail, consumer, IInv, TypeOK, Fifo!Refuse
    <3> QED BY <3>1 DEF Fifo!Next
  <2> QED BY <2>2, <2>3
<1>4. CASE WriteSlot
  <2>1. ASSUME NEW i \in 0 .. Minus(head, tail) - 1
        PROVE  storage'[Slot(Plus(tail, i))] = storage[Slot(Plus(tail, i))]
    BY <1>4, HeadSlotFree DEF WriteSlot, IInv, TypeOK
  <2>2. Queue' = Queue
    BY <1>4, <2>1, QueueUnchanged DEF WriteSlot, consumer
  <2> QED BY <1>4, <2>2 DEF WriteSlot, consumer, Fifo!vars
<1>5. CASE StoreHead
  BY <1>5, AcceptStep DEF Fifo!Next
<1>6. CASE try_pop
  <2>1. CASE head_cached = tail
    <3>1. Queue' = Queue
      BY <1>6, QueueUnchanged DEF try_pop, producer
    <3> QED BY <1>6, <2>1, <3>1 DEF try_pop, producer, Fifo!vars
  <2>2. CASE head_cached # tail
    <3>1. Fifo!Take(0) \/ UNCHANGED Fifo!vars
      BY <1>6, <2>2, ReadingStep DEF try_pop
    <3> QED BY <1>0, <3>1 DEF Fifo!Next
  <2> QED BY <2>1, <2>2
<1>7. CASE RefreshHead
  <2>1. PICK n \in Nat : Reading(n)
    BY <1>7 DEF RefreshHead
  <2>2. Fifo!Take(0) \/ UNCHANGED Fifo!vars
    BY <1>7, <2>1, ReadingStep DEF RefreshHead
  <2> QED BY <1>0, <2>2 DEF Fifo!Next
<1>8. ASSUME NEW m \in MaxCounts, try_pop_batch(m) PROVE Fifo!Next \/ UNCHANGED Fifo!vars
  <2>1. head_cached' \in Counter /\ tail \in Counter
    BY <1>8, LoadHead DEF try_pop_batch, IInv, TypeOK
  <2>2. Minus(head_cached', tail) \in Nat /\ m \in Nat
    BY <2>1, MinusType, RingAssumption DEF Counter
  <2>3. PICK n \in Nat : Reading(n)
    BY <1>8, <2>2 DEF try_pop_batch
  <2>4. Fifo!Take(0) \/ UNCHANGED Fifo!vars
    BY <1>8, <2>3, ReadingStep DEF try_pop_batch
  <2> QED BY <1>0, <2>4 DEF Fifo!Next
<1>9. CASE ReadSlot
  <2>1. Queue' = Queue
    BY <1>9, QueueUnchanged DEF ReadSlot, producer
  <2> QED BY <1>9, <2>1 DEF ReadSlot, producer, Fifo!vars
<1>10. CASE StoreTail
  BY <1>10, TakeStep DEF Fifo!Next
<1> QED BY <1>1, <1>2, <1>3, <1>4, <1>5, <1>6, <1>7, <1>8, <1>9, <1>10 DEF Next

\* An empty ring is an empty queue.
LEMMA InitRefines == Init => Fifo!Init
<1> SUFFICES ASSUME Init PROVE Queue = <<>> /\ item = NoItem /\ out = <<>>
  BY DEF Fifo!Init
<1>1. 0 \in Counter
  BY ModulusBound, RingAssumption DEF Counter
<1>2. Minus(0, 0) = 0
  BY <1>1, MinusIs
<1> QED BY <1>2 DEF Init, Queue, size_approx

\* SPSCRingBuffer is a bounded first-in first-out queue, for every capacity,
\* every width of the counters and any interleaving of the two threads: no item
\* is lost, duplicated or reordered, across wrap-around and with stale loads.
THEOREM RingIsFifo == Spec => RefinesFifo
<1> SUFFICES Spec => Fifo!Init /\ [][Fifo!Next]_Fifo!vars
  BY DEF RefinesFifo, Fifo!Spec
<1> QED BY InitRefines, NextRefines, InitIInv, NextIInv, PTL DEF Spec
=============================================================================
