------------------------------ MODULE LocalRing ------------------------------
(***************************************************************************)
(* local_ring_t of c_queue.cpp (namespace mpsc): the ring in which the     *)
(* consumer of a multi-producer queue collects what the producers posted.  *)
(* Only the consumer touches it, so its operations are functions from the  *)
(* ring before to the ring after.  A batch is the range of slots between   *)
(* the two indices inspect() reports; it stays in the ring until release.  *)
(***************************************************************************)
EXTENDS Integers, Sequences

\* setup(slots, capacity).
NewRing(capacity, empty) ==
  [slots    |-> [i \in 0..(capacity - 1) |-> empty],
   capacity |-> capacity,
   writer   |-> 0,
   reader   |-> 0]

\* Mutant: the index is not wrapped at the end of the ring.
RingNextNoWrap(r, i) == i + 1

RingNext(r, i) == IF i + 1 = r.capacity THEN 0 ELSE i + 1

IsEmpty(r) == r.reader = r.writer

\* The index k calls of next reach from i, and how many of them lead from i
\* to j; the ring holds the slots from the reader up to the writer.
Advance(r, i, k) == IF i + k < r.capacity THEN i + k ELSE i + k - r.capacity
Ahead(r, i, j) == IF i <= j THEN j - i ELSE j - i + r.capacity

\* The slots from index i up to the writer, in the order they were added.
RingFrom(r, i) ==
  [k \in 1..Ahead(r, i, r.writer) |-> r.slots[Advance(r, i, k - 1)]]

\* How many items may be added before the ring is full.
Room(r) == r.capacity - 1 - Ahead(r, r.reader, r.writer)

\* add_multiple adds what fits, in order; it succeeds if all of it did.
AddMultiple(r, items) ==
  LET n == IF Len(items) <= Room(r) THEN Len(items) ELSE Room(r)
  IN  [r EXCEPT !.slots = [i \in DOMAIN @ |->
                             IF Ahead(r, r.writer, i) < n
                               THEN items[Ahead(r, r.writer, i) + 1]
                               ELSE @[i]],
                !.writer = Advance(r, r.writer, n)]

AddMultipleFits(r, items) == Len(items) <= Room(r)

\* Mutant: the batch stays in the ring.
ReleaseKeeps(r, i) == r

Release(r, i) == [r EXCEPT !.reader = i]
==============================================================================
