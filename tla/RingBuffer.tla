----------------------------- MODULE RingBuffer -----------------------------
(***************************************************************************)
(* The circular byte buffer of mojo-rs-core (ring_buffer.rs): operators on *)
(* a view, the record of the offset and the size of the data range that a  *)
(* RingBuffer keeps, and on the bytes of the mapping.  A view does not own *)
(* the bytes: two of them look at the same memory in a data pipe.          *)
(***************************************************************************)
EXTENDS Integers

CONSTANT Capacity \* bytes of the mapping

ASSUME CapacityAssumption == Capacity \in Nat \ {0}

Offsets == 0 .. Capacity - 1

Views == [offset: Offsets, size: 0 .. Capacity]

EmptyView == [offset |-> 0, size |-> 0]

Least(m, n) == IF m <= n THEN m ELSE n

(* Range::end: the offset just past the data, wrapped once.                *)
End(v) == IF v.offset + v.size >= Capacity THEN v.offset + v.size - Capacity
          ELSE v.offset + v.size

AvailableCapacity(v) == Capacity - v.size

(* extend_data_range and discard_all; a count that is too large changes    *)
(* nothing (they return false).                                            *)
Extend(v, n) ==
  IF n > AvailableCapacity(v) THEN v ELSE [v EXCEPT !.size = @ + n]

DiscardAll(v, n) ==
  IF n > v.size THEN v
  ELSE [offset |-> (v.offset + n) % Capacity, size |-> v.size - n]

(* The first contiguous span of the free region and of the data; a span is *)
(* the pair of its start and its length.                                   *)
AvailableCapacityView(v) ==
  [start |-> End(v), len |-> Least(AvailableCapacity(v), Capacity - End(v))]

ReadableDataView(v) ==
  [start |-> v.offset, len |-> Least(v.size, Capacity - v.offset)]

(* Mutant: what does not fit before the physical end is dropped.           *)
WrittenOneChunk(bytes, v, n, first) ==
  LET free == End(v)
      chunk == Least(n, Capacity - free) IN
  [p \in Offsets |-> IF p \in free .. free + chunk - 1 THEN first + (p - free)
                     ELSE bytes[p]]

(* The bytes after a write of n bytes, at most the free room: free_chunks  *)
(* splits it in two copies, up to the physical end of the buffer and from  *)
(* its start.  The source bytes are first, first + 1, ...                  *)
Written(bytes, v, n, first) ==
  LET free == End(v)
      chunk1 == Least(n, Least(AvailableCapacity(v), Capacity - free))
      chunk2 == Least(n - chunk1, AvailableCapacity(v) - chunk1) IN
  [p \in Offsets |->
     IF p \in free .. free + chunk1 - 1 THEN first + (p - free)
     ELSE IF p < chunk2 THEN first + chunk1 + p
     ELSE bytes[p]]
=============================================================================
