--------------------------- MODULE CircularBuffer ---------------------------
(***************************************************************************)
(* FixedCircularBuffer (include/utils/circular_buffer.h), the read and the *)
(* write buffer of every connection.  It belongs to one thread, so that    *)
(* its operations are functions of its state: a record of the storage      *)
(* data, its capacity and the counters head and tail, which only grow and  *)
(* are reduced modulo the capacity where they address the storage.         *)
(***************************************************************************)
EXTENDS Naturals, Sequences

Empty(n, filler) ==
    [data |-> [p \in 0 .. n - 1 |-> filler], capacity |-> n, head |-> 0, tail |-> 0]

size(b) == b.head - b.tail
free_space(b) == b.capacity - size(b)
empty(b) == b.head = b.tail

Smaller(m, n) == IF m <= n THEN m ELSE n

\* The number of elements that can be stored at head without wrapping.
write_head(b) == Smaller(b.capacity - (b.head % b.capacity), free_space(b))

\* The number of elements that can be taken at tail without wrapping.
read_head(b) == Smaller(b.capacity - (b.tail % b.capacity), size(b))

\* memcpy or recv to the storage from position pos on.
Store(data, pos, src) ==
    [p \in DOMAIN data |->
        IF p \in pos .. pos + Len(src) - 1 THEN src[p - pos + 1] ELSE data[p]]

\* The n elements of the storage from position pos on.
Load(data, pos, n) == [i \in 1 .. n |-> data[pos + i - 1]]

\* recv of src at the position write_head returns, and advance_head.
Receive(b, src) ==
    [b EXCEPT !.data = Store(@, b.head % b.capacity, src), !.head = @ + Len(src)]

\* Copies as much of src as is free, in two parts when it wraps.
write(b, src) ==
    LET to_write == Smaller(Len(src), free_space(b))
        pos      == b.head % b.capacity
        first    == Smaller(to_write, b.capacity - pos)
    IN  [b EXCEPT !.data = Store(Store(@, pos, SubSeq(src, 1, first)),
                                 0, SubSeq(src, first + 1, to_write)),
                  !.head = @ + to_write]

\* A copy of the first len elements, or of all when there are fewer.
peek(b, len) ==
    LET to_copy == Smaller(len, size(b))
        pos     == b.tail % b.capacity
        first   == Smaller(to_copy, b.capacity - pos)
    IN  Load(b.data, pos, first) \o Load(b.data, 0, to_copy - first)

advance_tail(b, n) == [b EXCEPT !.tail = @ + n]
=============================================================================
