--------------------------- MODULE MpscQueueProofs ---------------------------
(***************************************************************************)
(* Proofs about MpscQueue: for any number of producers, any size of their  *)
(* queues and of the array of inspect, and any number of posts.            *)
(*                                                                         *)
(* Three facts carry everything else.  The numbers of a producer's items   *)
(* go up along the ring from the consumer's position on, none above what   *)
(* the producer's queue begins with (RingOrdered, BoxesOrdered); unless    *)
(* the assertion of inspect failed, no number in between is missing        *)
(* (RingComplete); and a queue with something in it is flagged, about to   *)
(* be, or still ahead in the drain that took the flag (FlagCoversBox).     *)
(***************************************************************************)
EXTENDS MpscQueue, SequenceTheorems, TLAPS

USE NumProducersAssumption, NumItemsAssumption, BatchItemsAssumption, MaxPostsAssumption

Capacity == NumProducers * NumItems + 1
Positions == 0..(Capacity - 1)
Rings == [slots    : [Positions -> Items \cup {NoItem}],
          capacity : {Capacity},
          writer   : Positions,
          reader   : Positions]

\* The number of producer p's last item that has left its queue.
Taken(p) == posted[p] - Len(boxes[p])

BoxesOrdered ==
  \A p \in Producers : \A k \in 1..Len(boxes[p]) :
    boxes[p][k] = [from |-> p, seq |-> Taken(p) + k]

RingOrdered ==
  /\ \A k \in 1..Len(InRing) :
       InRing[k] \in Items /\ InRing[k].seq \in (got[InRing[k].from] + 1)..Taken(InRing[k].from)
  /\ \A j, k \in 1..Len(InRing) :
       j < k /\ InRing[j].from = InRing[k].from => InRing[j].seq < InRing[k].seq

RingComplete ==
  asserted \/ \A p \in Producers : \A n \in (got[p] + 1)..Taken(p) :
    \E k \in 1..Len(InRing) : InRing[k] = [from |-> p, seq |-> n]

ReadLags == \A p \in Producers : got[p] <= Taken(p)

BatchEnds == cpc = "read" => end = ring.writer

IInv ==
  /\ TypeOK
  /\ EveryBlockFreedOnce
  /\ FlagCoversBox
  /\ BatchEnds
  /\ ReadLags
  /\ BoxesOrdered
  /\ RingOrdered
  /\ RingComplete
------------------------------------------------------------------------------
(* The capacity of the ring is a number, at least two.                     *)
LEMMA CapacityIsNat == Capacity \in Nat /\ Capacity > 1
<1>1. \A a, b \in Nat : a * b \in Nat
  OBVIOUS
<1>2. \A a, b \in Nat \ {0} : a * b \in Nat \ {0}
  BY Z3
<1> QED
  BY <1>1, <1>2 DEF Capacity

(* Moving along the ring: Advance and Ahead stay within it and undo each  *)
(* other.                                                                  *)
LEMMA Moves ==
  ASSUME NEW r \in Rings, NEW i \in Positions
  PROVE  /\ \A j \in Positions : Ahead(r, i, j) \in Positions
         /\ \A k \in Positions : Advance(r, i, k) \in Positions
         /\ \A j \in Positions : Advance(r, i, Ahead(r, i, j)) = j
         /\ \A k \in Positions : Ahead(r, i, Advance(r, i, k)) = k
         /\ RingNext(r, i) = Advance(r, i, 1)
<1>1. r.capacity = Capacity
  BY DEF Rings
<1>2. Capacity \in Nat /\ Capacity > 1
  BY CapacityIsNat
<1>3. PICK c \in Nat : c = Capacity
  BY <1>2
<1> QED
  BY <1>1, <1>2, <1>3 DEF Positions, Ahead, Advance, RingNext

(* The parts of the type of a ring.                                        *)
LEMMA RingParts ==
  ASSUME NEW r \in Rings
  PROVE  /\ r = [slots |-> r.slots, capacity |-> Capacity, writer |-> r.writer, reader |-> r.reader]
         /\ r.slots \in [Positions -> Items \cup {NoItem}]
         /\ r.capacity = Capacity
         /\ r.writer \in Positions /\ r.reader \in Positions
BY DEF Rings

(* What the ring holds from an index on is a sequence of its slots.        *)
LEMMA RingFromIsSeq ==
  ASSUME NEW r \in Rings, NEW i \in Positions
  PROVE  /\ RingFrom(r, i) \in Seq(Items \cup {NoItem})
         /\ Len(RingFrom(r, i)) = Ahead(r, i, r.writer)
         /\ \A k \in 1..Len(RingFrom(r, i)) :
              RingFrom(r, i)[k] = r.slots[Advance(r, i, k - 1)]
<1>1. Ahead(r, i, r.writer) \in Positions
  BY Moves, RingParts
<1>2. Ahead(r, i, r.writer) \in Nat
  BY <1>1, CapacityIsNat DEF Positions
<1>3. ASSUME NEW k \in 1..Ahead(r, i, r.writer)
      PROVE  r.slots[Advance(r, i, k - 1)] \in Items \cup {NoItem}
  <2>1. k - 1 \in Positions
    BY <1>1, <1>3, CapacityIsNat DEF Positions
  <2> QED
    BY <2>1, Moves, RingParts
<1> QED
  BY <1>2, <1>3 DEF RingFrom

(* Reading takes the first item of what is left.                           *)
LEMMA RingFromNext ==
  ASSUME NEW r \in Rings, NEW i \in Positions, i # r.writer
  PROVE  /\ RingNext(r, i) \in Positions
         /\ Len(RingFrom(r, i)) > 0
         /\ RingFrom(r, i)[1] = r.slots[i]
         /\ Len(RingFrom(r, RingNext(r, i))) = Len(RingFrom(r, i)) - 1
         /\ \A k \in 1..(Len(RingFrom(r, i)) - 1) :
              RingFrom(r, RingNext(r, i))[k] = RingFrom(r, i)[k + 1]
<1>1. PICK c \in Nat : c = Capacity /\ c > 1 /\ r.capacity = c /\ Positions = 0..(c - 1)
  BY CapacityIsNat, RingParts DEF Positions
<1>2. r.writer \in 0..(c - 1) /\ i \in 0..(c - 1)
  BY <1>1, RingParts
<1>3. RingNext(r, i) \in Positions
  BY <1>1, <1>2 DEF RingNext
<1>4. Ahead(r, RingNext(r, i), r.writer) = Ahead(r, i, r.writer) - 1
      /\ Ahead(r, i, r.writer) \in 1..(c - 1)
  BY <1>1, <1>2 DEF RingNext, Ahead
<1>5. Advance(r, i, 0) = i
  BY <1>1, <1>2 DEF Advance
<1>6. \A k \in 1..(Ahead(r, i, r.writer) - 1) :
        Advance(r, RingNext(r, i), k - 1) = Advance(r, i, (k + 1) - 1)
  BY <1>1, <1>2, <1>4 DEF RingNext, Advance
<1>7. RingFrom(r, i)[1] = r.slots[i]
  BY <1>4, <1>5 DEF RingFrom
<1>8. Len(RingFrom(r, i)) = Ahead(r, i, r.writer)
      /\ Len(RingFrom(r, RingNext(r, i))) = Ahead(r, i, r.writer) - 1
  BY <1>3, <1>4, RingFromIsSeq
<1>9. ASSUME NEW k \in 1..(Ahead(r, i, r.writer) - 1)
      PROVE  RingFrom(r, RingNext(r, i))[k] = RingFrom(r, i)[k + 1]
  <2>1. k + 1 \in 1..Ahead(r, i, r.writer) /\ k \in 1..Len(RingFrom(r, RingNext(r, i)))
    BY <1>4, <1>8
  <2>2. RingFrom(r, RingNext(r, i))[k] = r.slots[Advance(r, RingNext(r, i), k - 1)]
    BY <2>1, <1>3, RingFromIsSeq
  <2>3. RingFrom(r, i)[k + 1] = r.slots[Advance(r, i, (k + 1) - 1)]
    BY <2>1, <1>8, RingFromIsSeq
  <2> QED
    BY <2>2, <2>3, <1>6
<1> QED
  BY <1>3, <1>4, <1>7, <1>8, <1>9

\* How many of the items add_multiple adds.
Added(r, items) == IF Len(items) <= Room(r) THEN Len(items) ELSE Room(r)

(* add_multiple puts the items it adds behind what the ring holds, leaves  *)
(* that as it was, and adds all of them if they fit.                       *)
LEMMA AddMultipleAppends ==
  ASSUME NEW r \in Rings, NEW items \in Seq(Items)
  PROVE  LET n    == Added(r, items)
             new  == AddMultiple(r, items)
             held == Len(RingFrom(r, r.reader))
         IN  /\ new \in Rings /\ new.reader = r.reader
             /\ n \in 0..Len(items)
             /\ AddMultipleFits(r, items) => n = Len(items)
             /\ Len(RingFrom(new, r.reader)) = held + n
             /\ \A k \in 1..held : RingFrom(new, r.reader)[k] = RingFrom(r, r.reader)[k]
             /\ \A k \in 1..n : RingFrom(new, r.reader)[held + k] = items[k]
<1> DEFINE n == Added(r, items)
           new == AddMultiple(r, items)
           held == Ahead(r, r.reader, r.writer)
<1>1. PICK c \in Nat : c = Capacity /\ c > 1 /\ r.capacity = c /\ Positions = 0..(c - 1)
  BY CapacityIsNat, RingParts DEF Positions
<1>2. r.writer \in 0..(c - 1) /\ r.reader \in 0..(c - 1)
  BY <1>1, RingParts
<1>3. held \in 0..(c - 1)
  BY <1>1, <1>2 DEF Ahead
<1>4. n \in 0..Len(items) /\ n + held \in 0..(c - 1)
      /\ (AddMultipleFits(r, items) => n = Len(items))
  <2>1. Room(r) = (c - 1) - held
    BY <1>1 DEF Room
  <2>2. Len(items) \in Nat
    OBVIOUS
  <2> QED
    BY <2>1, <2>2, <1>1, <1>3 DEF Added, AddMultipleFits
<1> DEFINE slots == [i \in DOMAIN r.slots |-> IF Ahead(r, r.writer, i) < n
                                                THEN items[Ahead(r, r.writer, i) + 1]
                                                ELSE r.slots[i]]
<1>5. new = [r EXCEPT !.slots = slots, !.writer = Advance(r, r.writer, n)]
  BY DEF AddMultiple, Added
<1>6. DOMAIN r.slots = Positions
  BY RingParts
<1>7. slots \in [Positions -> Items \cup {NoItem}]
  <2> SUFFICES ASSUME NEW i \in Positions
               PROVE  slots[i] \in Items \cup {NoItem}
    BY <1>6
  <2>1. Ahead(r, r.writer, i) \in Nat
    BY <1>1, <1>2 DEF Ahead
  <2>2. CASE Ahead(r, r.writer, i) < n
    <3>1. Ahead(r, r.writer, i) + 1 \in 1..Len(items)
      BY <2>1, <2>2, <1>4
    <3>2. items[Ahead(r, r.writer, i) + 1] \in Items
      BY <3>1
    <3> QED
      BY <2>2, <3>2, <1>6
  <2>3. CASE ~(Ahead(r, r.writer, i) < n)
    BY <2>3, <1>6, RingParts
  <2> QED
    BY <2>2, <2>3
<1>8. Advance(r, r.writer, n) \in Positions
  BY <1>1, <1>2, <1>3, <1>4 DEF Advance
<1>10. new \in Rings /\ new.reader = r.reader /\ new.slots = slots
       /\ new.writer = Advance(r, r.writer, n)
  <2> HIDE DEF slots, n, new
  <2>1. r \in Rings
    OBVIOUS
  <2> QED
    BY <1>5, <1>7, <1>8, <2>1 DEF Rings
<1>11. new.reader = r.reader /\ new.slots = slots /\ new.capacity = c
       /\ new.writer = Advance(r, r.writer, n)
  <2> HIDE DEF slots, n, new
  <2> QED
    BY <1>10, <1>1, RingParts
<1>12. Ahead(new, r.reader, new.writer) = held + n
  <2> HIDE DEF slots, n, new
  <2>1. PICK d \in 0..(c - 1) : d = r.reader
    BY <1>2
  <2>2. PICK w \in 0..(c - 1) : w = r.writer
    BY <1>2
  <2>3. PICK h \in 0..(c - 1) : h = held
    BY <1>3
  <2>4. PICK m \in 0..(c - 1) : m = n /\ m + h \in 0..(c - 1)
    BY <1>3, <1>4, <2>3
  <2>5. h = IF d <= w THEN w - d ELSE w - d + c
    BY <2>1, <2>2, <2>3, <1>1 DEF Ahead
  <2>6. PICK v \in 0..(c - 1) : v = new.writer /\ v = IF w + m < c THEN w + m ELSE w + m - c
    BY <2>2, <2>4, <1>1, <1>8, <1>11 DEF Advance
  <2>7. Ahead(new, r.reader, new.writer) = IF d <= v THEN v - d ELSE v - d + c
    BY <2>1, <2>6, <1>11 DEF Ahead
  <2> HIDE DEF held
  <2> QED
    BY <2>3, <2>4, <2>5, <2>6, <2>7
<1>13. Len(RingFrom(r, r.reader)) = held /\ Len(RingFrom(new, r.reader)) = held + n
  BY <1>2, <1>1, <1>10, <1>12, RingFromIsSeq
<1>16. \A m \in 0..(c - 1) :
         Ahead(r, r.writer, Advance(r, r.reader, m)) = IF m < held THEN m - held + c ELSE m - held
  <2>1. PICK d \in 0..(c - 1) : d = r.reader
    BY <1>2
  <2>2. PICK w \in 0..(c - 1) : w = r.writer
    BY <1>2
  <2>3. PICK h \in 0..(c - 1) : h = held
    BY <1>3
  <2>4. h = IF d <= w THEN w - d ELSE w - d + c
    BY <2>1, <2>2, <2>3, <1>1 DEF Ahead
  <2>5. SUFFICES ASSUME NEW m \in 0..(c - 1)
                 PROVE  Ahead(r, w, Advance(r, d, m)) = IF m < h THEN m - h + c ELSE m - h
    BY <2>1, <2>2, <2>3
  <2>6. PICK a \in 0..(c - 1) : a = Advance(r, d, m) /\ a = IF d + m < c THEN d + m ELSE d + m - c
    <3>1. (IF d + m < c THEN d + m ELSE d + m - c) \in 0..(c - 1)
      OBVIOUS
    <3>2. Advance(r, d, m) = IF d + m < c THEN d + m ELSE d + m - c
      BY <1>1 DEF Advance
    <3> QED
      BY <3>1, <3>2
  <2>7. Ahead(r, w, a) = IF w <= a THEN a - w ELSE a - w + c
    BY <1>1 DEF Ahead
  <2> QED
    BY <2>4, <2>6, <2>7
<1>14. ASSUME NEW k \in 1..held
       PROVE  RingFrom(new, r.reader)[k] = RingFrom(r, r.reader)[k]
  <2> HIDE DEF slots, n, new
  <2>1. RingFrom(new, r.reader)[k] = slots[Advance(r, r.reader, k - 1)]
    <3>1. k \in 1..Len(RingFrom(new, r.reader))
      BY <1>13, <1>3, <1>4
    <3>2. Advance(new, r.reader, k - 1) = Advance(r, r.reader, k - 1)
      BY <1>11, <1>1 DEF Advance
    <3> QED
      BY <3>1, <3>2, <1>1, <1>2, <1>10, <1>11, RingFromIsSeq
  <2>2. RingFrom(r, r.reader)[k] = r.slots[Advance(r, r.reader, k - 1)]
    BY <1>1, <1>2, <1>13, RingFromIsSeq
  <2>3. Advance(r, r.reader, k - 1) \in Positions
        /\ Ahead(r, r.writer, Advance(r, r.reader, k - 1)) >= n
    <3>1. Advance(r, r.reader, k - 1) \in Positions
      BY <1>1, <1>2, <1>3 DEF Advance
    <3>2. k - 1 \in 0..(c - 1) /\ k - 1 < held
      BY <1>3
    <3>4. Ahead(r, r.writer, Advance(r, r.reader, k - 1)) = (k - 1) - held + c
      BY <3>2, <1>16
    <3> QED
      BY <3>1, <3>4, <1>3, <1>4
  <2>4. slots[Advance(r, r.reader, k - 1)] = r.slots[Advance(r, r.reader, k - 1)]
    <3>1. ~(Ahead(r, r.writer, Advance(r, r.reader, k - 1)) < n)
      <4>1. Ahead(r, r.writer, Advance(r, r.reader, k - 1)) \in Int
        BY <2>3, <1>1, <1>2 DEF Ahead
      <4> QED
        BY <4>1, <2>3, <1>4
    <3> QED
      BY <3>1, <2>3, <1>6 DEF slots
  <2> QED
    BY <2>1, <2>2, <2>4
<1>15. ASSUME NEW k \in 1..n
       PROVE  RingFrom(new, r.reader)[held + k] = items[k]
  <2> HIDE DEF slots, n, new
  <2>1. held + k \in 1..Len(RingFrom(new, r.reader)) /\ (held + k) - 1 \in 0..(c - 1)
    BY <1>13, <1>3, <1>4
  <2>2. RingFrom(new, r.reader)[held + k] = slots[Advance(r, r.reader, (held + k) - 1)]
    <3>1. Advance(new, r.reader, (held + k) - 1) = Advance(r, r.reader, (held + k) - 1)
      BY <1>11, <1>1 DEF Advance
    <3> QED
      BY <3>1, <2>1, <1>1, <1>2, <1>10, <1>11, RingFromIsSeq
  <2>3. Advance(r, r.reader, (held + k) - 1) \in Positions
        /\ Ahead(r, r.writer, Advance(r, r.reader, (held + k) - 1)) = k - 1
    <3>1. Advance(r, r.reader, (held + k) - 1) \in Positions
      BY <1>1, <1>2, <2>1 DEF Advance
    <3>2. ~((held + k) - 1 < held) /\ ((held + k) - 1) - held = k - 1
      BY <1>3, <1>4
    <3> HIDE DEF held
    <3> QED
      BY <3>1, <3>2, <2>1, <1>16
  <2>4. k - 1 < n /\ (k - 1) + 1 = k
    BY <1>4
  <2> QED
    BY <2>2, <2>3, <2>4, <1>6 DEF slots
<1> QED
  BY <1>4, <1>10, <1>11, <1>13, <1>14, <1>15
------------------------------------------------------------------------------
(* The positions of the ring.                                              *)
LEMMA PositionsOf == Positions = 0..(NumProducers * NumItems)
<1>1. \A a \in Int : 0..((a + 1) - 1) = 0..a
  OBVIOUS
<1>2. NumProducers * NumItems \in Int
  BY CapacityIsNat DEF Capacity
<1> QED
  BY <1>1, <1>2 DEF Positions, Capacity

(* The ring of a queue whose variables have their types.                   *)
LEMMA RingOf ==
  ASSUME TypeOK
  PROVE  ring \in Rings /\ idx \in Positions /\ end \in Positions /\ Position \in Positions
<1>1. ring \in Rings
  BY PositionsOf DEF TypeOK, Rings, Capacity
<1>2. idx \in Positions /\ end \in Positions
  BY PositionsOf DEF TypeOK
<1> QED
  BY <1>1, <1>2, RingParts DEF Position

(* What one bulk dequeue returns and leaves of a producer's queue.         *)
LEMMA Split ==
  ASSUME NEW s \in Seq(Items), NEW k \in 1..BatchItems, k <= Len(s)
  PROVE  /\ SubSeq(s, 1, k) \in Seq(Items) /\ Len(SubSeq(s, 1, k)) = k
         /\ \A i \in 1..k : SubSeq(s, 1, k)[i] = s[i]
         /\ SubSeq(s, k + 1, Len(s)) \in Seq(Items)
         /\ Len(SubSeq(s, k + 1, Len(s))) = Len(s) - k
         /\ \A i \in 1..(Len(s) - k) : SubSeq(s, k + 1, Len(s))[i] = s[k + i]
<1>1. Len(s) \in Nat /\ k \in 1..Len(s)
  OBVIOUS
<1>2. \A i \in 1..Len(s) : s[i] \in Items
  OBVIOUS
<1> QED
  BY <1>1, <1>2

(* At first there is no queue.                                             *)
LEMMA InitEstablishes == Init => TypeOK /\ EveryBlockFreedOnce /\ FlagCoversBox
<1> SUFFICES ASSUME Init
             PROVE  TypeOK /\ EveryBlockFreedOnce /\ FlagCoversBox
  OBVIOUS
<1>1. ring = [slots |-> [i \in Positions |-> NoItem], capacity |-> Capacity, writer |-> 0, reader |-> 0]
  BY DEF Init, NewRing, Capacity, Positions
<1>2. 0 \in Positions
  BY CapacityIsNat DEF Positions
<1>3. ring \in [slots    : [0..(NumProducers * NumItems) -> Items \cup {NoItem}],
                capacity : {NumProducers * NumItems + 1},
                writer   : 0..(NumProducers * NumItems),
                reader   : 0..(NumProducers * NumItems)]
  BY <1>1, <1>2, PositionsOf DEF Capacity
<1>4. 0 \in Producers
  BY DEF Producers
<1>5. {more, asserted} \subseteq BOOLEAN
  BY DEF Init
<1>6. TypeOK
  BY <1>2, <1>3, <1>4, <1>5, PositionsOf DEF Init, TypeOK
<1> QED
  BY <1>6 DEF Init, EveryBlockFreedOnce, FlagCoversBox, Exists

(* The variables keep their types.                                         *)
LEMMA TypeStep ==
  ASSUME TypeOK, [Next]_vars
  PROVE  TypeOK'
<1> USE DEF TypeOK
<1>1. ASSUME NEW n \in 0..(NumProducers + 3), Create(n)
      PROVE  TypeOK'
  <2>1. heap' \in [Blocks -> Int]
    BY <1>1 DEF Create, Count
  <2>2. cpc' \in {"null", "idle", "drain", "read", "gone"}
    BY <1>1 DEF Create
  <2>3. UNCHANGED <<boxes, state, ring, cur, asserted, ppc, posted, idx, end, more, got>>
    BY <1>1 DEF Create, queueVars, producerVars, batchVars
  <2> QED
    BY <2>1, <2>2, <2>3
<1>2. ASSUME Destroy
      PROVE  TypeOK'
  <2>1. heap' \in [Blocks -> Int]
    BY <1>2 DEF Destroy, Count
  <2> QED
    BY <1>2, <2>1 DEF Destroy, queueVars, producerVars, batchVars
<1>3. CASE UNCHANGED vars
  BY <1>3 DEF vars
<1>4. ASSUME NEW p \in Producers, Push(p)
      PROVE  TypeOK'
  <2>1. [from |-> p, seq |-> posted[p] + 1] \in Items
    BY <1>4 DEF Push, Items
  <2>2. boxes[p] \in Seq(Items)
    OBVIOUS
  <2>3. boxes' \in [Producers -> Seq(Items)]
    BY <1>4, <2>1, <2>2 DEF Push
  <2>4. \A q \in Producers : Len(boxes'[q]) <= NumItems
    BY <1>4, <2>1, <2>2 DEF Push
  <2>5. posted' \in [Producers -> 0..MaxPosts] /\ ppc' \in [Producers -> {"idle", "flag"}]
    BY <1>4 DEF Push
  <2> QED
    BY <1>4, <2>3, <2>4, <2>5 DEF Push, batchVars
<1>5. ASSUME NEW p \in Producers, PushFlag(p)
      PROVE  TypeOK'
  BY <1>5 DEF PushFlag, batchVars
<1>6. ASSUME cpc' = "read", idx' = ring.reader, end' = ring.writer, more' = FALSE,
             UNCHANGED <<heap, boxes, state, ring, ppc, asserted, posted, got>>, cur' \in Producers
      PROVE  TypeOK'
  <2>1. ring.reader \in 0..(NumProducers * NumItems) /\ ring.writer \in 0..(NumProducers * NumItems)
    OBVIOUS
  <2>2. {more, asserted}' \subseteq BOOLEAN
    BY <1>6
  <2> QED
    BY <1>6, <2>1, <2>2
<1>7. CASE InspectRing
  BY <1>6, <1>7 DEF InspectRing, StartBatch, producerVars
<1>8. CASE InspectExchange
  <2>1. {more, asserted}' \subseteq BOOLEAN
    BY <1>8 DEF InspectExchange
  <2>2. cur' \in Producers
    BY <1>8 DEF InspectExchange, Producers
  <2> QED
    BY <1>8, <2>1, <2>2 DEF InspectExchange, producerVars
<1>9. ASSUME NEW k \in 1..BatchItems, Drain(k)
      PROVE  TypeOK'
  <2> DEFINE taken == SubSeq(boxes[cur], 1, k)
  <2>1. boxes[cur] \in Seq(Items) /\ Len(boxes[cur]) <= NumItems /\ k <= Len(boxes[cur])
    BY <1>9 DEF Drain
  <2>2. taken \in Seq(Items) /\ SubSeq(boxes[cur], k + 1, Len(boxes[cur])) \in Seq(Items)
        /\ Len(SubSeq(boxes[cur], k + 1, Len(boxes[cur]))) <= NumItems
    BY <2>1, Split
  <2>3. boxes' = [boxes EXCEPT ![cur] = SubSeq(@, k + 1, Len(@))] /\ ring' = AddMultiple(ring, taken)
    BY <1>9 DEF Drain
  <2>4. ring' \in Rings
    BY <2>2, <2>3, RingOf, AddMultipleAppends
  <2>5. ring' \in [slots    : [0..(NumProducers * NumItems) -> Items \cup {NoItem}],
                   capacity : {NumProducers * NumItems + 1},
                   writer   : 0..(NumProducers * NumItems),
                   reader   : 0..(NumProducers * NumItems)]
    BY <2>4, PositionsOf DEF Rings, Capacity
  <2>6. boxes' \in [Producers -> Seq(Items)] /\ \A q \in Producers : Len(boxes'[q]) <= NumItems
    BY <2>2, <2>3
  <2>7. cpc' \in {"null", "idle", "drain", "read", "gone"} /\ cur' \in Producers
    <3>1. 0 \in Producers
      BY DEF Producers
    <3>2. cpc' \in {cpc, "idle"} /\ cur' \in {cur, 0}
      BY <1>9 DEF Drain
    <3> QED
      BY <3>1, <3>2
  <2>8. {more, asserted}' \subseteq BOOLEAN
    BY <1>9 DEF Drain, batchVars
  <2>9. UNCHANGED <<heap, state, ppc, posted, idx, end, got>>
    BY <1>9 DEF Drain, batchVars, producerVars
  <2> QED
    BY <2>5, <2>6, <2>7, <2>8, <2>9
<1>10. CASE DrainNext
  <2>1. cur' \in Producers
    <3>1. 0 \in Producers /\ (cur + 1 < NumProducers => cur + 1 \in Producers)
      BY DEF Producers
    <3>2. cur' = 0 \/ (cur + 1 < NumProducers /\ cur' = cur + 1)
      BY <1>10 DEF DrainNext
    <3> QED
      BY <3>1, <3>2
  <2>2. UNCHANGED <<heap, boxes, state, ring, asserted, ppc, posted>>
    BY <1>10 DEF DrainNext, producerVars
  <2>3. CASE StartBatch(ring)
    BY <1>6, <2>1, <2>2, <2>3 DEF StartBatch
  <2>4. CASE cpc' \in {cpc, "idle"} /\ UNCHANGED batchVars
    BY <2>1, <2>2, <2>4 DEF batchVars
  <2> QED
    BY <1>10, <2>3, <2>4 DEF DrainNext
<1>11. CASE Read
  <2>1. ring.slots[idx] \in Items \cup {NoItem}
    BY RingOf, RingParts
  <2>2. ring.slots[idx].seq \in 0..MaxPosts
    BY <2>1 DEF Items, NoItem
  <2>3. got' \in [Producers -> 0..MaxPosts]
    BY <1>11, <2>2 DEF Read
  <2>4. idx' \in 0..(NumProducers * NumItems)
    <3>1. 1 \in Positions
      BY CapacityIsNat DEF Positions
    <3> QED
      BY <1>11, <3>1, Moves, RingOf, PositionsOf DEF Read
  <2> QED
    BY <1>11, <2>3, <2>4 DEF Read, producerVars
<1>12. CASE ReleaseBatch
  <2>1. ring' \in [slots    : [0..(NumProducers * NumItems) -> Items \cup {NoItem}],
                   capacity : {NumProducers * NumItems + 1},
                   writer   : 0..(NumProducers * NumItems),
                   reader   : 0..(NumProducers * NumItems)]
    BY <1>12 DEF ReleaseBatch, Release
  <2>2. {more, asserted}' \subseteq BOOLEAN
    BY <1>12 DEF ReleaseBatch
  <2>3. 0 \in 0..(NumProducers * NumItems)
    BY PositionsOf, CapacityIsNat DEF Positions
  <2> QED
    BY <1>12, <2>1, <2>2, <2>3 DEF ReleaseBatch, producerVars
<1> HIDE DEF TypeOK
<1> QED
  BY <1>1, <1>2, <1>3, <1>4, <1>5, <1>7, <1>8, <1>9, <1>10, <1>11, <1>12
     DEF Next, Consumer, CallOnNull, PushFull, InspectNothing
------------------------------------------------------------------------------
(* create_queue allocates every block or none, and destroy_queue frees     *)
(* every one of them.                                                      *)
LEMMA HeapStep ==
  ASSUME TypeOK, EveryBlockFreedOnce, [Next]_vars
  PROVE  EveryBlockFreedOnce'
<1>1. ASSUME NEW n \in 0..(NumProducers + 3), Create(n)
      PROVE  EveryBlockFreedOnce'
  <2>1. CASE n < 3
    <3>1. Undone(n) = 1..n
      BY <2>1 DEF Undone
    <3> QED
      BY <1>1, <2>1, <3>1 DEF Create, EveryBlockFreedOnce, Exists, Count
  <2>2. CASE 3 <= n /\ n < NumProducers + 3
    <3>1. Undone(n) = Destroyed(1..n)
      BY <2>2 DEF Undone
    <3>2. Destroyed(1..n) = 1..n
      BY <2>2 DEF Destroyed
    <3> QED
      BY <1>1, <2>2, <3>1, <3>2 DEF Create, EveryBlockFreedOnce, Exists, Count
  <2>3. CASE n = NumProducers + 3
    <3>1. Undone(n) = {}
      BY <2>3 DEF Undone
    <3>2. \A b \in Blocks : b \in 1..n
      BY <2>3 DEF Blocks
    <3> QED
      BY <1>1, <2>3, <3>1, <3>2 DEF Create, EveryBlockFreedOnce, Exists, Count
  <2> QED
    BY <2>1, <2>2, <2>3
<1>2. CASE Destroy
  <2>1. Destroyed(Blocks) = Blocks
    BY DEF Destroyed, Blocks
  <2>2. \A b \in Blocks : Count(b, Destroyed(Blocks)) = 1 /\ heap[b] = 1
    BY <1>2, <2>1 DEF Destroy, EveryBlockFreedOnce, Exists, Count
  <2>3. \A b \in Blocks : heap'[b] = 0
    BY <1>2, <2>2 DEF Destroy
  <2> QED
    BY <1>2, <2>3 DEF Destroy, EveryBlockFreedOnce, Exists
<1>3. CASE heap' = heap /\ (cpc' = cpc \/ {cpc, cpc'} \subseteq {"idle", "drain", "read"})
  BY <1>3 DEF EveryBlockFreedOnce, Exists
<1>4. CASE UNCHANGED vars
  BY <1>3, <1>4 DEF vars
<1>5. CASE \E p \in Producers : Push(p) \/ PushFlag(p)
  BY <1>3, <1>5 DEF Push, PushFlag
<1>6. CASE InspectRing \/ InspectExchange \/ DrainNext \/ Read \/ ReleaseBatch
  BY <1>3, <1>6 DEF InspectRing, InspectExchange, DrainNext, Read, ReleaseBatch, StartBatch, batchVars
<1>7. CASE \E k \in 1..BatchItems : Drain(k)
  BY <1>3, <1>7 DEF Drain
<1> QED
  BY <1>1, <1>2, <1>4, <1>5, <1>6, <1>7 DEF Next, Consumer, CallOnNull, PushFull, InspectNothing

(* A queue with something in it is not overlooked: the drain that takes    *)
(* the bits comes to every queue, and leaves none before it came up empty. *)
LEMMA FlagStep ==
  ASSUME TypeOK, FlagCoversBox, [Next]_vars
  PROVE  FlagCoversBox'
<1> SUFFICES ASSUME ~asserted', NEW q \in Producers, boxes'[q] # <<>>
             PROVE  q \in state' \/ ppc'[q] = "flag" \/ (cpc' = "drain" /\ cur' <= q)
  BY DEF FlagCoversBox
<1> DEFINE Covered == q \in state \/ ppc[q] = "flag" \/ (cpc = "drain" /\ cur <= q)
<1>1. ~asserted /\ boxes[q] # <<>> => Covered
  BY DEF FlagCoversBox
<1>2. CASE UNCHANGED <<boxes, state, ppc, asserted>> /\ cpc # "drain"
  BY <1>1, <1>2
<1>3. CASE UNCHANGED vars
  BY <1>1, <1>3 DEF vars
<1>4. ASSUME NEW p \in Producers, Push(p)
      PROVE  q \in state' \/ ppc'[q] = "flag" \/ (cpc' = "drain" /\ cur' <= q)
  BY <1>1, <1>4 DEF Push, TypeOK
<1>5. ASSUME NEW p \in Producers, PushFlag(p)
      PROVE  q \in state' \/ ppc'[q] = "flag" \/ (cpc' = "drain" /\ cur' <= q)
  BY <1>1, <1>5 DEF PushFlag, TypeOK
<1>6. CASE InspectExchange
  BY <1>6 DEF InspectExchange, Producers
<1>7. ASSUME NEW k \in 1..BatchItems, Drain(k)
      PROVE  q \in state' \/ ppc'[q] = "flag" \/ (cpc' = "drain" /\ cur' <= q)
  <2>1. UNCHANGED <<asserted, cpc, cur, state, ppc>>
    BY <1>7 DEF Drain, producerVars
  <2>2. CASE q = cur
    BY <1>7, <2>1, <2>2 DEF Drain, Producers
  <2>3. CASE q # cur
    <3>1. boxes'[q] = boxes[q]
      BY <1>7, <2>3 DEF Drain, TypeOK
    <3> QED
      BY <1>1, <2>1, <3>1
  <2> QED
    BY <2>2, <2>3
<1>8. CASE DrainNext
  <2>1. UNCHANGED <<boxes, state, ppc, asserted>> /\ q # cur /\ cpc = "drain"
    BY <1>8 DEF DrainNext, producerVars
  <2>2. q \in Int /\ cur \in Int /\ q < NumProducers
    BY DEF TypeOK, Producers
  <2>3. CASE q \in state \/ ppc[q] = "flag"
    BY <2>1, <2>3
  <2>4. CASE cur <= q
    <3>1. cur + 1 <= q
      BY <2>1, <2>2, <2>4
    <3>2. cur + 1 < NumProducers
      BY <3>1, <2>2
    <3>3. cur' = cur + 1 /\ cpc' = cpc
      BY <1>8, <3>2 DEF DrainNext
    <3> QED
      BY <2>1, <3>1, <3>3
  <2> QED
    BY <1>1, <2>1, <2>3, <2>4
<1>9. CASE Read \/ ReleaseBatch \/ InspectRing
  BY <1>2, <1>9 DEF Read, ReleaseBatch, InspectRing, producerVars
<1>10. CASE Destroy \/ \E n \in 0..(NumProducers + 3) : Create(n)
  BY <1>2, <1>10 DEF Destroy, Create, producerVars, queueVars
<1> QED
  BY <1>3, <1>4, <1>5, <1>6, <1>7, <1>8, <1>9, <1>10
     DEF Next, Consumer, CallOnNull, PushFull, InspectNothing
------------------------------------------------------------------------------
ItemsAccounted == ReadLags /\ BoxesOrdered /\ RingOrdered /\ RingComplete

(* What waits in the ring is a sequence of items.                          *)
LEMMA InRingIsSeq ==
  ASSUME TypeOK, RingOrdered
  PROVE  /\ InRing \in Seq(Items)
         /\ Len(InRing) = Ahead(ring, Position, ring.writer)
<1>1. InRing \in Seq(Items \cup {NoItem}) /\ Len(InRing) = Ahead(ring, Position, ring.writer)
  BY RingOf, RingFromIsSeq DEF InRing
<1>2. \A k \in 1..Len(InRing) : InRing[k] \in Items
  BY DEF RingOrdered
<1> QED
  BY <1>1, <1>2

(* Append, said of items.                                                  *)
LEMMA Appended ==
  ASSUME NEW s \in Seq(Items), NEW e \in Items
  PROVE  /\ Append(s, e) \in Seq(Items)
         /\ Len(s) \in Nat /\ Len(Append(s, e)) = Len(s) + 1
         /\ \A k \in 1..Len(s) : Append(s, e)[k] = s[k]
         /\ Append(s, e)[Len(s) + 1] = e
OBVIOUS

(* The numbers of a producer, and the parts of an item.                    *)
LEMMA Numbers ==
  ASSUME TypeOK
  PROVE  /\ \A p \in Producers : /\ boxes[p] \in Seq(Items) /\ Len(boxes[p]) \in Nat
                                /\ posted[p] \in Nat /\ got[p] \in Nat
                                /\ Taken(p) \in Int
         /\ \A e \in Items : e.from \in Producers /\ e.seq \in Nat
<1>1. \A p \in Producers : /\ boxes[p] \in Seq(Items)
                           /\ posted[p] \in Nat /\ got[p] \in Nat
  BY DEF TypeOK
<1>2. \A p \in Producers : Len(boxes[p]) \in Nat
  BY <1>1
<1>3. \A e \in Items : e.from \in Producers /\ e.seq \in Nat
  BY DEF Items
<1> QED
  BY <1>1, <1>2, <1>3 DEF Taken

(* A step that leaves the queues, the waiting items and the histories.     *)
LEMMA SameItems ==
  ASSUME ItemsAccounted, UNCHANGED <<boxes, posted, got, asserted>>, InRing' = InRing
  PROVE  ItemsAccounted'
BY DEF ItemsAccounted, ReadLags, BoxesOrdered, RingOrdered, RingComplete, Taken

(* An enqueue puts the next number behind the others of its queue.         *)
LEMMA PushItems ==
  ASSUME TypeOK, ItemsAccounted, NEW p \in Producers, Push(p)
  PROVE  ItemsAccounted'
<1> DEFINE item == [from |-> p, seq |-> posted[p] + 1]
<1>1. item \in Items
  BY DEF Push, Items, TypeOK
<1>2. boxes[p] \in Seq(Items)
  BY DEF TypeOK
<1>3. \A q \in Producers : boxes'[q] = IF q = p THEN Append(boxes[p], item) ELSE boxes[q]
  BY DEF Push, TypeOK
<1>4. \A q \in Producers : posted'[q] = IF q = p THEN posted[p] + 1 ELSE posted[q]
  BY DEF Push, TypeOK
<1>5. \A q \in Producers : Taken(q)' = Taken(q)
  <2> SUFFICES ASSUME NEW q \in Producers
               PROVE  posted'[q] - Len(boxes'[q]) = posted[q] - Len(boxes[q])
    BY DEF Taken
  <2>1. posted[p] \in Int /\ Len(boxes[p]) \in Int /\ Len(Append(boxes[p], item)) = Len(boxes[p]) + 1
    BY <1>1, <1>2 DEF TypeOK
  <2> QED
    <3>1. CASE q = p
      <4>1. boxes'[q] = Append(boxes[p], item) /\ posted'[q] = posted[p] + 1
        BY <1>3, <1>4, <3>1
      <4>2. Len(boxes'[q]) = Len(boxes[p]) + 1
        BY <2>1, <4>1
      <4>3. (posted[p] + 1) - (Len(boxes[p]) + 1) = posted[p] - Len(boxes[p])
        BY <2>1
      <4> QED
        BY <3>1, <4>1, <4>2, <4>3
    <3>2. CASE q # p
      BY <1>3, <1>4, <3>2
    <3> QED
      BY <3>1, <3>2
<1>6. InRing' = InRing
  BY DEF Push, InRing, Position, batchVars
<1>7. UNCHANGED <<got, asserted>>
  BY DEF Push, batchVars
<1>8. ReadLags' /\ RingOrdered' /\ RingComplete'
  <2>1. \A k \in 1..Len(InRing) : InRing[k].from \in Producers
    BY DEF ItemsAccounted, RingOrdered, Items
  <2> QED
    BY <1>5, <1>6, <1>7, <2>1 DEF ItemsAccounted, ReadLags, RingOrdered, RingComplete
<1>9. BoxesOrdered'
  <2> SUFFICES ASSUME NEW q \in Producers, NEW k \in 1..Len(boxes'[q])
               PROVE  boxes'[q][k] = [from |-> q, seq |-> Taken(q) + k]
    BY <1>5 DEF BoxesOrdered
  <2>1. CASE q # p
    BY <1>3, <2>1 DEF ItemsAccounted, BoxesOrdered
  <2>2. CASE q = p
    <3> HIDE DEF item
    <3>1. boxes'[q] = Append(boxes[p], item)
      BY <1>3, <2>2
    <3>2. Len(boxes'[q]) = Len(boxes[p]) + 1 /\ Len(boxes[p]) \in Nat
      BY <1>1, <1>2, <3>1, Appended
    <3>3. CASE k \in 1..Len(boxes[p])
      <4>1. boxes'[q][k] = boxes[p][k]
        BY <1>1, <1>2, <3>1, <3>3, Appended
      <4> QED
        BY <2>2, <3>3, <4>1 DEF ItemsAccounted, BoxesOrdered
    <3>4. CASE k = Len(boxes[p]) + 1
      <4>1. boxes'[q][k] = item
        BY <1>1, <1>2, <3>1, <3>4, Appended
      <4>2. posted[p] + 1 = (posted[p] - Len(boxes[p])) + (Len(boxes[p]) + 1)
        BY Numbers
      <4> QED
        BY <2>2, <3>4, <4>1, <4>2 DEF Taken, item
    <3> QED
      BY <3>2, <3>3, <3>4
  <2> QED
    BY <2>1, <2>2
<1> QED
  BY <1>8, <1>9 DEF ItemsAccounted

(* A read takes the first item of the ring; the numbers behind it that     *)
(* belong to its producer are larger.                                      *)
LEMMA ReadItems ==
  ASSUME TypeOK, BatchEnds, ItemsAccounted, Read
  PROVE  /\ ItemsAccounted'
         /\ \A p \in Producers : got'[p] >= got[p]
         /\ got' # got
<1> DEFINE item == ring.slots[idx]
<1>1. idx \in Positions /\ idx # ring.writer /\ ring \in Rings /\ Position = idx
  BY RingOf DEF Read, BatchEnds, Position
<1>2. ring' = ring /\ Position' = RingNext(ring, idx)
  BY DEF Read, Position
<1>3. InRing = RingFrom(ring, idx) /\ InRing' = RingFrom(ring, RingNext(ring, idx))
  BY <1>1, <1>2 DEF InRing
<1>4. PICK R \in Seq(Items) : R = InRing
  BY InRingIsSeq DEF ItemsAccounted
<1>5. /\ Len(R) \in Nat /\ Len(R) > 0
      /\ R[1] = item
      /\ Len(InRing') = Len(R) - 1
      /\ \A k \in 1..(Len(R) - 1) : InRing'[k] = R[k + 1]
  BY <1>1, <1>3, <1>4, RingFromNext
<1>6. item \in Items /\ item.from \in Producers
      /\ got[item.from] < item.seq /\ item.seq <= Taken(item.from)
  <2>1. 1 \in 1..Len(R)
    BY <1>5
  <2>2. R[1] \in Items /\ R[1].seq \in (got[R[1].from] + 1)..Taken(R[1].from)
    BY <2>1, <1>4 DEF ItemsAccounted, RingOrdered
  <2>3. item.from \in Producers
    BY <2>2, <1>5 DEF Items
  <2>4. got[item.from] \in Int /\ Taken(item.from) \in Int
    BY <2>3 DEF TypeOK, Taken
  <2> QED
    BY <1>5, <2>2, <2>3, <2>4
<1>7. \A p \in Producers : got'[p] = IF p = item.from THEN item.seq ELSE got[p]
  BY DEF Read, TypeOK
<1>8. UNCHANGED <<boxes, posted, asserted>>
  BY DEF Read, producerVars
<1>9. \A p \in Producers : Taken(p)' = Taken(p)
  BY <1>8 DEF Taken
<1>10. ReadLags' /\ BoxesOrdered'
  BY <1>6, <1>7, <1>8, <1>9 DEF ItemsAccounted, ReadLags, BoxesOrdered
<1>11. ASSUME NEW k \in 1..(Len(R) - 1)
       PROVE  /\ R[k + 1] \in Items /\ R[k + 1].from \in Producers
              /\ R[k + 1].seq \in (got[R[k + 1].from] + 1)..Taken(R[k + 1].from)
              /\ R[k + 1].from = item.from => item.seq < R[k + 1].seq
  <2>1. 1 \in 1..Len(R) /\ k + 1 \in 1..Len(R) /\ 1 < k + 1
    BY <1>5
  <2> QED
    BY <2>1, <1>4, <1>5 DEF ItemsAccounted, RingOrdered, Items
<1>12. RingOrdered'
  <2>1. ASSUME NEW k \in 1..(Len(R) - 1)
        PROVE  R[k + 1].seq \in (got'[R[k + 1].from] + 1)..Taken(R[k + 1].from)
    <3>1. PICK q \in Producers : q = R[k + 1].from
      BY <1>11
    <3>2. R[k + 1].seq \in Int /\ got[q] \in Int /\ Taken(q) \in Int /\ item.seq \in Int
      BY <1>6, <1>11, <3>1, Numbers
    <3>3. R[k + 1].seq \in (got[q] + 1)..Taken(q) /\ (q = item.from => item.seq < R[k + 1].seq)
      BY <1>11, <3>1
    <3>4. got'[q] \in {got[q], item.seq} /\ (q # item.from => got'[q] = got[q])
      BY <1>7
    <3>5. CASE q = item.from
      <4>1. got'[q] = item.seq
        BY <1>7, <3>5
      <4> QED
        BY <3>1, <3>2, <3>3, <3>5, <4>1
    <3>6. CASE q # item.from
      BY <3>1, <3>2, <3>3, <3>4, <3>6
    <3> QED
      BY <3>5, <3>6
  <2>2. ASSUME NEW j \in 1..(Len(R) - 1), NEW k \in 1..(Len(R) - 1),
               j < k, R[j + 1].from = R[k + 1].from
        PROVE  R[j + 1].seq < R[k + 1].seq
    <3>1. j + 1 \in 1..Len(R) /\ k + 1 \in 1..Len(R) /\ j + 1 < k + 1
      BY <1>5, <2>2
    <3> QED
      BY <3>1, <2>2, <1>4 DEF ItemsAccounted, RingOrdered
  <2>3. \A k \in 1..(Len(R) - 1) : (Taken(R[k + 1].from))' = Taken(R[k + 1].from)
    BY <1>4, <1>8, <1>9 DEF Taken
  <2>4. /\ \A k \in 1..(Len(R) - 1) :
              InRing'[k] \in Items /\ InRing'[k].seq \in (got'[InRing'[k].from] + 1)..Taken(InRing'[k].from)
        /\ \A j, k \in 1..(Len(R) - 1) :
              j < k /\ InRing'[j].from = InRing'[k].from => InRing'[j].seq < InRing'[k].seq
    BY <1>5, <1>11, <2>1, <2>2
  <2>5. \A x : Taken(x)' = Taken(x)
    BY <1>8 DEF Taken
  <2> QED
    BY <1>5, <2>4, <2>5 DEF RingOrdered
<1>13. RingComplete'
  <2> SUFFICES ASSUME ~asserted, NEW p \in Producers, NEW n \in (got'[p] + 1)..Taken(p)
               PROVE  \E k \in 1..(Len(R) - 1) : R[k + 1] = [from |-> p, seq |-> n]
    <3>1. \A x : Taken(x)' = Taken(x)
      BY <1>8 DEF Taken
    <3>2. (\A p \in Producers : \A n \in (got'[p] + 1)..Taken(p) :
             \E k \in 1..(Len(R) - 1) : InRing'[k] = [from |-> p, seq |-> n]) \/ asserted
            => RingComplete'
      BY <1>5, <1>8, <3>1 DEF RingComplete
    <3> QED
      BY <1>5, <3>2
  <2>1. got[p] \in Int /\ Taken(p) \in Int /\ item.seq \in Int
    BY <1>6, Numbers
  <2>2. n \in (got[p] + 1)..Taken(p) /\ n \in Int
    <3>1. CASE p = item.from
      BY <1>6, <1>7, <2>1, <3>1
    <3>2. CASE p # item.from
      BY <1>7, <2>1, <3>2
    <3> QED
      BY <3>1, <3>2
  <2>3. PICK m \in 1..Len(R) : R[m] = [from |-> p, seq |-> n]
    BY <1>4, <2>2 DEF ItemsAccounted, RingComplete
  <2>4. m # 1
    <3> SUFFICES ASSUME m = 1
                 PROVE  FALSE
      OBVIOUS
    <3>1. item.from = p /\ item.seq = n
      BY <1>5, <2>3
    <3>2. got'[p] = n
      BY <1>7, <3>1
    <3> QED
      BY <2>1, <2>2, <3>2
  <2>5. m - 1 \in 1..(Len(R) - 1) /\ (m - 1) + 1 = m
    BY <1>5, <2>4
  <2> QED
    BY <2>3, <2>5
<1>14. \A p \in Producers : got'[p] >= got[p]
  <2> SUFFICES ASSUME NEW p \in Producers
               PROVE  got'[p] >= got[p]
    OBVIOUS
  <2>1. got[p] \in Int /\ item.seq \in Int
    BY <1>6 DEF TypeOK, Items
  <2> QED
    BY <1>6, <1>7, <2>1
<1>15. got' # got
  <2>1. got[item.from] \in Int /\ item.seq \in Int
    BY <1>6 DEF TypeOK, Items
  <2>2. got'[item.from] = item.seq
    BY <1>6, <1>7
  <2> QED
    BY <1>6, <2>1, <2>2
<1> QED
  BY <1>10, <1>12, <1>13, <1>14, <1>15 DEF ItemsAccounted

(* A bulk dequeue moves items from the front of a producer's queue to the  *)
(* end of the ring; if they do not all fit the assertion fails.            *)
LEMMA DrainItems ==
  ASSUME TypeOK, ItemsAccounted, NEW k \in 1..BatchItems, Drain(k)
  PROVE  ItemsAccounted'
<1> DEFINE s == boxes[cur]
           taken == SubSeq(s, 1, k)
<1>1. cur \in Producers /\ s \in Seq(Items) /\ k <= Len(s) /\ ring \in Rings /\ Position = ring.reader
  BY RingOf, Numbers DEF TypeOK, Drain, Position
<1>2. PICK R \in Seq(Items) : R = InRing
  BY InRingIsSeq DEF ItemsAccounted
<1>22. taken \in Seq(Items) /\ Len(taken) = k
  BY <1>1, Split
<1>3. PICK n \in Nat : n = Added(ring, taken) /\ n <= k /\ (AddMultipleFits(ring, taken) => n = k)
  <2> HIDE DEF taken
  <2>1. Added(ring, taken) \in 0..k /\ (AddMultipleFits(ring, taken) => Added(ring, taken) = k)
    BY <1>1, <1>22, AddMultipleAppends
  <2> QED
    BY <2>1
<1>4. /\ ring' = AddMultiple(ring, taken)
      /\ boxes' = [boxes EXCEPT ![cur] = SubSeq(@, k + 1, Len(@))]
      /\ ~asserted' => ~asserted /\ AddMultipleFits(ring, taken)
      /\ cpc' \in {"drain", "idle"}
      /\ UNCHANGED <<posted, got>>
  BY DEF Drain, producerVars, batchVars
<1>5. ring' \in Rings /\ ring'.reader = ring.reader
  BY <1>1, <1>4, Split, AddMultipleAppends
<1>6. InRing = RingFrom(ring, ring.reader) /\ InRing' = RingFrom(ring', ring.reader)
  BY <1>1, <1>4, <1>5 DEF InRing, Position
<1>23. PICK S \in Seq(Items \cup {NoItem}) : S = InRing'
  BY <1>1, <1>5, <1>6, RingParts, RingFromIsSeq
<1>7. /\ Len(R) \in Nat /\ Len(S) = Len(R) + n
      /\ \A i \in 1..Len(R) : S[i] = R[i]
      /\ \A i \in 1..n : S[Len(R) + i] = taken[i]
  <2> HIDE DEF taken
  <2>1. S = RingFrom(AddMultiple(ring, taken), ring.reader)
    BY <1>4, <1>6, <1>23
  <2>2. R = RingFrom(ring, ring.reader)
    BY <1>2, <1>6
  <2>3. n = Added(ring, taken)
    BY <1>3
  <2>4. LET held == Len(RingFrom(ring, ring.reader))
            new  == RingFrom(AddMultiple(ring, taken), ring.reader)
        IN  /\ Len(new) = held + Added(ring, taken)
            /\ \A i \in 1..held : new[i] = RingFrom(ring, ring.reader)[i]
            /\ \A i \in 1..Added(ring, taken) : new[held + i] = taken[i]
    BY <1>1, <1>22, AddMultipleAppends
  <2> QED
    BY <2>1, <2>2, <2>3, <2>4
<1>8. PICK t \in Int : t = Taken(cur) /\ got[cur] <= t /\ got[cur] \in Int
  BY <1>1, Numbers DEF ItemsAccounted, ReadLags
<1>9. \A i \in 1..Len(s) : s[i] = [from |-> cur, seq |-> t + i]
  BY <1>1, <1>8 DEF ItemsAccounted, BoxesOrdered
<1>10. \A i \in 1..n : S[Len(R) + i] = [from |-> cur, seq |-> t + i]
  <2> SUFFICES ASSUME NEW i \in 1..n
               PROVE  taken[i] = [from |-> cur, seq |-> t + i]
    BY <1>7
  <2>1. i \in 1..k /\ i \in 1..Len(s)
    BY <1>1, <1>3
  <2> QED
    BY <2>1, <1>1, <1>9, Split
<1>11. /\ Len(boxes'[cur]) = Len(s) - k /\ Len(s) \in Nat
       /\ \A i \in 1..(Len(s) - k) : boxes'[cur][i] = s[k + i]
       /\ \A q \in Producers \ {cur} : boxes'[q] = boxes[q]
  <2>1. boxes'[cur] = SubSeq(s, k + 1, Len(s)) /\ \A q \in Producers \ {cur} : boxes'[q] = boxes[q]
    BY <1>1, <1>4 DEF TypeOK
  <2> HIDE DEF s
  <2> QED
    BY <1>1, <2>1, Split
<1>13. \A x : (Taken(x))' = posted[x] - Len(boxes'[x])
  BY <1>4 DEF Taken
<1> DEFINE first(q) == posted[q] - Len(boxes'[q])
<1>14. /\ first(cur) = t + k
       /\ \A q \in Producers \ {cur} : first(q) = Taken(q)
       /\ \A q \in Producers : first(q) \in Int
  <2>1. posted[cur] - (Len(s) - k) = (posted[cur] - Len(s)) + k
    BY <1>1, <1>11, Numbers
  <2>2. first(cur) = t + k
    BY <2>1, <1>8, <1>11 DEF Taken
  <2>3. \A q \in Producers \ {cur} : first(q) = Taken(q)
    BY <1>11 DEF Taken
  <2> HIDE DEF first
  <2>4. t + k \in Int
    OBVIOUS
  <2>5. \A q \in Producers : Taken(q) \in Int
    BY Numbers
  <2> QED
    BY <2>2, <2>3, <2>4, <2>5
<1> HIDE DEF first, s, taken
<1>15. ReadLags'
  <2> SUFFICES ASSUME NEW q \in Producers
               PROVE  got[q] <= first(q)
    BY <1>4, <1>13 DEF ReadLags, first
  <2>1. CASE q = cur
    BY <1>8, <1>14, <2>1
  <2>2. CASE q # cur
    BY <1>14, <2>2 DEF ItemsAccounted, ReadLags
  <2> QED
    BY <2>1, <2>2
<1>16. BoxesOrdered'
  <2> SUFFICES ASSUME NEW q \in Producers, NEW i \in 1..Len(boxes'[q])
               PROVE  boxes'[q][i] = [from |-> q, seq |-> first(q) + i]
    BY <1>13 DEF BoxesOrdered, first
  <2>1. CASE q = cur
    <3>1. i \in 1..(Len(s) - k) /\ k + i \in 1..Len(s)
      BY <2>1, <1>11
    <3>2. t + (k + i) = (t + k) + i
      BY <3>1
    <3> QED
      BY <2>1, <3>1, <3>2, <1>9, <1>11, <1>14
  <2>2. CASE q # cur
    BY <2>2, <1>11, <1>14 DEF ItemsAccounted, BoxesOrdered
  <2> QED
    BY <2>1, <2>2
<1>17. ASSUME NEW i \in 1..Len(R)
       PROVE  /\ R[i] \in Items /\ R[i].from \in Producers /\ R[i].seq \in Int
              /\ R[i].seq \in (got[R[i].from] + 1)..first(R[i].from)
              /\ R[i].from = cur => R[i].seq <= t
  <2>1. R[i] \in Items /\ R[i].seq \in (got[R[i].from] + 1)..Taken(R[i].from)
    BY <1>2 DEF ItemsAccounted, RingOrdered
  <2>2. PICK q \in Producers : q = R[i].from
    BY <2>1, Numbers
  <2>3. R[i].seq \in Int /\ got[q] \in Int /\ Taken(q) \in Int
    BY <2>1, Numbers
  <2>4. CASE q = cur
    <3>1. R[i].seq \in (got[q] + 1)..t
      BY <2>1, <2>2, <2>4, <1>8
    <3>2. R[i].seq \in (got[q] + 1)..(t + k) /\ R[i].seq <= t
      BY <3>1, <2>3
    <3> QED
      BY <3>2, <2>1, <2>2, <2>3, <2>4, <1>14
  <2>5. CASE q # cur
    BY <2>1, <2>2, <2>3, <2>5, <1>14
  <2> QED
    BY <2>4, <2>5
<1>18. ASSUME NEW i \in 1..n
       PROVE  /\ S[Len(R) + i] \in Items
              /\ S[Len(R) + i].from = cur
              /\ S[Len(R) + i].seq = t + i
              /\ t + i \in (got[cur] + 1)..first(cur)
  <2>1. i \in 1..Len(s)
    BY <1>3, <1>1, <1>11
  <2>2. s[i] \in Items
    BY <2>1, <1>1
  <2>3. t + i \in (got[cur] + 1)..(t + k)
    BY <1>3, <1>8
  <2>4. S[Len(R) + i] = s[i] /\ s[i] = [from |-> cur, seq |-> t + i]
    BY <2>1, <1>9, <1>10
  <2> QED
    BY <2>2, <2>3, <2>4, <1>14
<1>19. \A i \in 1..(Len(R) + n) : i \in 1..Len(R) \/ \E j \in 1..n : i = Len(R) + j
  <2> SUFFICES ASSUME NEW i \in 1..(Len(R) + n), i \notin 1..Len(R)
               PROVE  i - Len(R) \in 1..n /\ i = Len(R) + (i - Len(R))
    OBVIOUS
  <2> QED
    BY <1>7
<1>20. RingOrdered'
  <2>1. ASSUME NEW i \in 1..(Len(R) + n)
        PROVE  S[i] \in Items /\ S[i].seq \in (got[S[i].from] + 1)..first(S[i].from)
    <3>1. CASE i \in 1..Len(R)
      BY <3>1, <1>7, <1>17
    <3>2. CASE \E j \in 1..n : i = Len(R) + j
      BY <3>2, <1>18
    <3> QED
      BY <3>1, <3>2, <1>19
  <2>2. ASSUME NEW h \in 1..(Len(R) + n), NEW i \in 1..(Len(R) + n),
               h < i, S[h].from = S[i].from
        PROVE  S[h].seq < S[i].seq
    <3>1. CASE h \in 1..Len(R) /\ i \in 1..Len(R)
      BY <3>1, <2>2, <1>2, <1>7 DEF ItemsAccounted, RingOrdered
    <3>2. CASE h \in 1..Len(R) /\ \E j \in 1..n : i = Len(R) + j
      <4>1. PICK j \in 1..n : i = Len(R) + j
        BY <3>2
      <4>2. S[i].seq = t + j /\ R[h].seq \in Int /\ R[h].seq <= t /\ S[h] = R[h]
        BY <4>1, <3>2, <2>2, <1>7, <1>17, <1>18
      <4> QED
        BY <4>2
    <3>3. CASE (\E j \in 1..n : h = Len(R) + j) /\ \E j \in 1..n : i = Len(R) + j
      <4>1. PICK g \in 1..n : h = Len(R) + g
        BY <3>3
      <4>2. PICK j \in 1..n : i = Len(R) + j
        BY <3>3
      <4>3. S[h].seq = t + g /\ S[i].seq = t + j
        BY <4>1, <4>2, <1>18
      <4>4. g < j
        BY <4>1, <4>2, <2>2, <1>7
      <4> QED
        BY <4>3, <4>4
    <3>4. ~(i \in 1..Len(R) /\ \E j \in 1..n : h = Len(R) + j)
      BY <2>2, <1>7
    <3> QED
      BY <3>1, <3>2, <3>3, <3>4, <1>19
  <2> QED
    BY <2>1, <2>2, <1>4, <1>7, <1>13, <1>23 DEF RingOrdered, first
<1>21. RingComplete'
  <2> SUFFICES ASSUME ~asserted', NEW q \in Producers, NEW m \in (got[q] + 1)..first(q)
               PROVE  \E i \in 1..(Len(R) + n) : S[i] = [from |-> q, seq |-> m]
    BY <1>4, <1>7, <1>13, <1>23 DEF RingComplete, first
  <2>1. ~asserted /\ n = k
    BY <1>3, <1>4
  <2>2. CASE m \in (got[q] + 1)..Taken(q)
    <3>1. PICK i \in 1..Len(R) : R[i] = [from |-> q, seq |-> m]
      BY <1>2, <2>1, <2>2 DEF ItemsAccounted, RingComplete
    <3>2. i \in 1..(Len(R) + n)
      BY <1>7
    <3> QED
      BY <3>1, <3>2, <1>7
  <2>3. CASE m \notin (got[q] + 1)..Taken(q)
    <3>1. q = cur
      BY <2>3, <1>14
    <3>2. m \in (t + 1)..(t + k)
      BY <2>3, <3>1, <1>8, <1>14
    <3>3. m - t \in 1..n /\ t + (m - t) = m
      BY <2>1, <3>2
    <3>4. Len(R) + (m - t) \in 1..(Len(R) + n)
      BY <3>3, <1>7
    <3> QED
      BY <3>1, <3>3, <3>4, <1>10
  <2> QED
    BY <2>2, <2>3
<1> QED
  BY <1>15, <1>16, <1>20, <1>21 DEF ItemsAccounted

(* The other steps move the consumer's position only by setting the reader *)
(* to where it has read, which is the end of its batch.                    *)
LEMMA OtherItems ==
  ASSUME TypeOK, BatchEnds, ItemsAccounted, [Next]_vars,
         ~Read, \A p \in Producers : ~Push(p), \A k \in 1..BatchItems : ~Drain(k)
  PROVE  ItemsAccounted' /\ UNCHANGED <<boxes, posted, got, asserted>>
<1> SUFFICES InRing' = InRing /\ UNCHANGED <<boxes, posted, got, asserted>>
  BY SameItems
<1>1. CASE UNCHANGED vars
  BY <1>1 DEF vars, InRing, Position
<1>2. CASE Destroy \/ \E n \in 0..(NumProducers + 3) : Create(n)
  BY <1>2 DEF Destroy, Create, InRing, Position, queueVars, producerVars, batchVars
<1>3. CASE \E p \in Producers : PushFlag(p)
  BY <1>3 DEF PushFlag, InRing, Position, batchVars
<1>4. CASE InspectRing
  BY <1>4 DEF InspectRing, StartBatch, InRing, Position, producerVars
<1>5. CASE InspectExchange
  BY <1>5 DEF InspectExchange, InRing, Position, producerVars
<1>6. CASE DrainNext
  BY <1>6 DEF DrainNext, StartBatch, InRing, Position, producerVars, batchVars
<1>7. CASE ReleaseBatch
  <2>1. Position = idx /\ Position' = idx /\ ring' = Release(ring, idx) /\ ring \in Rings
    BY <1>7, RingOf DEF ReleaseBatch, Release, Position, Rings
  <2>2. RingFrom(Release(ring, idx), idx) = RingFrom(ring, idx)
    BY <2>1 DEF RingFrom, Release, Ahead, Advance, Rings
  <2> QED
    BY <1>7, <2>1, <2>2 DEF InRing, ReleaseBatch, producerVars
<1> QED
  BY <1>1, <1>2, <1>3, <1>4, <1>5, <1>6, <1>7 DEF Next, Consumer, CallOnNull, PushFull, InspectNothing

(* The batch the consumer reads ends where the ring does: nothing is added *)
(* while it reads.                                                         *)
LEMMA BatchEndsStep ==
  ASSUME TypeOK, BatchEnds, [Next]_vars
  PROVE  BatchEnds'
<1>1. CASE UNCHANGED vars
  BY <1>1 DEF vars, BatchEnds
<1>2. CASE Destroy \/ \E n \in 0..(NumProducers + 3) : Create(n)
  BY <1>2 DEF Destroy, Create, BatchEnds
<1>3. CASE \E p \in Producers : Push(p) \/ PushFlag(p)
  BY <1>3 DEF Push, PushFlag, BatchEnds, batchVars
<1>4. CASE InspectRing \/ InspectExchange \/ ReleaseBatch
  BY <1>4 DEF InspectRing, InspectExchange, ReleaseBatch, StartBatch, BatchEnds
<1>5. CASE DrainNext
  BY <1>5 DEF DrainNext, StartBatch, BatchEnds, batchVars
<1>6. CASE \E k \in 1..BatchItems : Drain(k)
  BY <1>6 DEF Drain, BatchEnds
<1>7. CASE Read
  BY <1>7 DEF Read, BatchEnds
<1> QED
  BY <1>1, <1>2, <1>3, <1>4, <1>5, <1>6, <1>7 DEF Next, Consumer, CallOnNull, PushFull, InspectNothing

(* At first there are no items to account for.                             *)
LEMMA InitItems == Init => BatchEnds /\ ItemsAccounted
<1> SUFFICES ASSUME Init
             PROVE  BatchEnds /\ ItemsAccounted
  OBVIOUS
<1>1. TypeOK
  BY InitEstablishes
<1>2. InRing = <<>>
  <2>1. ring.writer = 0 /\ Position = 0
    BY DEF Init, NewRing, Position
  <2>2. Len(InRing) = 0 /\ InRing \in Seq(Items \cup {NoItem})
    BY <1>1, <2>1, RingOf, RingFromIsSeq DEF InRing, Ahead
  <2> QED
    BY <2>2
<1>3. \A p \in Producers : Taken(p) = 0 /\ got[p] = 0 /\ Len(boxes[p]) = 0
  BY DEF Init, Taken
<1>4. BoxesOrdered /\ ReadLags
  BY <1>3 DEF BoxesOrdered, ReadLags
<1>5. RingOrdered
  BY <1>2 DEF RingOrdered
<1>6. RingComplete
  BY <1>3 DEF RingComplete
<1> QED
  BY <1>4, <1>5, <1>6 DEF Init, BatchEnds, ItemsAccounted

(* Every step keeps the invariant.                                         *)
LEMMA StepPreserves == IInv /\ [Next]_vars => IInv'
<1> SUFFICES ASSUME IInv, [Next]_vars
             PROVE  IInv'
  OBVIOUS
<1>1. TypeOK /\ EveryBlockFreedOnce /\ FlagCoversBox /\ BatchEnds /\ ItemsAccounted
  BY DEF IInv, ItemsAccounted
<1>2. TypeOK' /\ EveryBlockFreedOnce' /\ FlagCoversBox' /\ BatchEnds'
  BY <1>1, TypeStep, HeapStep, FlagStep, BatchEndsStep
<1>3. ItemsAccounted'
  BY <1>1, PushItems, ReadItems, DrainItems, OtherItems
<1> QED
  BY <1>2, <1>3 DEF IInv, ItemsAccounted

(* The inductive invariant holds in every reachable state.                 *)
THEOREM Inductive == Spec => []IInv
<1>1. Init => IInv
  BY InitEstablishes, InitItems DEF IInv, ItemsAccounted
<1> QED
  BY <1>1, StepPreserves, PTL DEF Spec

(* Every variable of the queue stays within its type; in particular the    *)
(* indices stay within the ring, and no producer's queue is overfilled.    *)
THEOREM TypeCorrect == Spec => []TypeOK
<1>1. IInv => TypeOK
  BY DEF IInv
<1> QED
  BY <1>1, Inductive, PTL

(* create_queue and destroy_queue: wherever an allocation fails, every     *)
(* block allocated before is freed, once.                                  *)
THEOREM BlocksFreedOnce == Spec => []EveryBlockFreedOnce
<1>1. IInv => EveryBlockFreedOnce
  BY DEF IInv
<1> QED
  BY <1>1, Inductive, PTL

(* push and the drain of inspect: no producer's queue with an item in it   *)
(* is overlooked, unless the assertion of inspect failed.                  *)
THEOREM NothingOverlooked == Spec => []FlagCoversBox
<1>1. IInv => FlagCoversBox
  BY DEF IInv
<1> QED
  BY <1>1, Inductive, PTL
------------------------------------------------------------------------------
(* What waits in the ring and in producer p's queue, as one sequence.      *)
LEMMA UnreadIs ==
  ASSUME IInv, NEW p \in Producers
  PROVE  /\ InRing \in Seq(Items) /\ boxes[p] \in Seq(Items)
         /\ DOMAIN Unread(p) = 1..(Len(InRing) + Len(boxes[p]))
         /\ \A k \in 1..Len(InRing) : Unread(p)[k] = InRing[k]
         /\ \A k \in 1..Len(boxes[p]) :
              Unread(p)[Len(InRing) + k] = [from |-> p, seq |-> Taken(p) + k]
<1>1. InRing \in Seq(Items) /\ boxes[p] \in Seq(Items)
  BY InRingIsSeq, Numbers DEF IInv
<1>2. PICK R \in Seq(Items) : R = InRing
  BY <1>1
<1>3. PICK B \in Seq(Items) : B = boxes[p]
  BY <1>1
<1>4. /\ DOMAIN (R \o B) = 1..(Len(R) + Len(B))
      /\ \A k \in 1..Len(R) : (R \o B)[k] = R[k]
      /\ \A k \in 1..Len(B) : (R \o B)[Len(R) + k] = B[k]
  OBVIOUS
<1> QED
  BY <1>1, <1>2, <1>3, <1>4 DEF Unread, IInv, BoxesOrdered

(* What the invariant says of the ring and the producers' queues is that   *)
(* nothing is lost.                                                        *)
LEMMA InvGivesNothingLost == IInv => NothingLost
<1> SUFFICES ASSUME IInv, ~asserted, NEW p \in Producers
    PROVE
      /\ \A n \in (got[p] + 1)..posted[p] :
           \E k \in DOMAIN Unread(p) : Unread(p)[k] = [from |-> p, seq |-> n]
      /\ \A k \in DOMAIN Unread(p) :
           Unread(p)[k].from = p => Unread(p)[k].seq \in (got[p] + 1)..posted[p]
      /\ \A j, k \in DOMAIN Unread(p) :
           j < k /\ Unread(p)[j].from = p /\ Unread(p)[k].from = p
             => Unread(p)[j].seq < Unread(p)[k].seq
  BY DEF NothingLost
<1>1. PICK R \in Seq(Items) : R = InRing
  BY UnreadIs
<1>2. PICK b \in Nat : b = Len(boxes[p])
  BY Numbers DEF IInv
<1>3. PICK t \in Int : t = Taken(p) /\ posted[p] = t + b /\ got[p] <= t /\ got[p] \in Nat
  <2>1. PICK t \in Int : t = Taken(p)
    BY Numbers DEF IInv
  <2>2. PICK n \in Nat : n = posted[p]
    BY Numbers DEF IInv
  <2>3. t = n - b
    BY <1>2, <2>1, <2>2 DEF Taken
  <2>4. n = t + b
    BY <2>3
  <2>5. got[p] <= t /\ got[p] \in Nat
    BY <2>1, Numbers DEF IInv, ReadLags
  <2> QED
    BY <2>1, <2>2, <2>4, <2>5
<1>4. PICK U : U = Unread(p)
  OBVIOUS
<1>5. /\ Len(R) \in Nat
      /\ DOMAIN U = 1..(Len(R) + b)
      /\ \A k \in 1..Len(R) : U[k] = R[k]
      /\ \A k \in 1..b : U[Len(R) + k] = [from |-> p, seq |-> t + k]
  <2>1. Len(R) \in Nat
    OBVIOUS
  <2>2. DOMAIN U = 1..(Len(R) + b) /\ \A k \in 1..Len(R) : U[k] = R[k]
    BY <1>1, <1>2, <1>4, UnreadIs
  <2>3. \A k \in 1..Len(boxes[p]) :
          Unread(p)[Len(InRing) + k] = [from |-> p, seq |-> Taken(p) + k]
    BY UnreadIs
  <2>4. \A k \in 1..b : U[Len(R) + k] = [from |-> p, seq |-> t + k]
    BY <1>1, <1>2, <1>3, <1>4, <2>3
  <2> QED
    BY <2>1, <2>2, <2>4
<1>6. ASSUME NEW k \in 1..Len(R), R[k].from = p
      PROVE  R[k].seq \in (got[p] + 1)..t
  BY <1>1, <1>3, <1>6 DEF IInv, RingOrdered
<1>7. ASSUME NEW k \in DOMAIN U, k \notin 1..Len(R)
      PROVE  /\ k - Len(R) \in 1..b
             /\ U[k] = [from |-> p, seq |-> t + (k - Len(R))]
  <2>1. k - Len(R) \in 1..b /\ Len(R) + (k - Len(R)) = k
    BY <1>5, <1>7
  <2> QED
    BY <2>1, <1>5
<1>8. ASSUME NEW n \in (got[p] + 1)..posted[p]
      PROVE  \E k \in DOMAIN U : U[k] = [from |-> p, seq |-> n]
  <2>1. CASE n <= t
    <3>1. n \in (got[p] + 1)..t
      BY <1>3, <2>1
    <3>2. PICK k \in 1..Len(R) : R[k] = [from |-> p, seq |-> n]
      BY <1>1, <1>3, <3>1 DEF IInv, RingComplete
    <3>3. k \in DOMAIN U
      BY <1>5
    <3> QED
      BY <1>5, <3>2, <3>3
  <2>2. CASE n > t
    <3>1. n - t \in 1..b /\ t + (n - t) = n /\ Len(R) + (n - t) \in 1..(Len(R) + b)
      BY <1>3, <1>5, <2>2
    <3> QED
      BY <1>5, <3>1
  <2> QED
    BY <1>3, <2>1, <2>2
<1>9. ASSUME NEW k \in DOMAIN U, U[k].from = p
      PROVE  U[k].seq \in (got[p] + 1)..posted[p]
  <2>1. CASE k \in 1..Len(R)
    BY <1>3, <1>5, <1>6, <1>9, <2>1
  <2>2. CASE k \notin 1..Len(R)
    <3>1. U[k].seq = t + (k - Len(R)) /\ k - Len(R) \in 1..b
      BY <1>7, <2>2
    <3> QED
      BY <1>3, <3>1
  <2> QED
    BY <2>1, <2>2
<1>10. ASSUME NEW j \in DOMAIN U, NEW k \in DOMAIN U, j < k, U[j].from = p, U[k].from = p
       PROVE  U[j].seq < U[k].seq
  <2>1. CASE j \in 1..Len(R) /\ k \in 1..Len(R)
    BY <1>1, <1>5, <1>10, <2>1 DEF IInv, RingOrdered
  <2>2. CASE j \in 1..Len(R) /\ k \notin 1..Len(R)
    <3>1. U[j].seq \in (got[p] + 1)..t
      BY <1>5, <1>6, <1>10, <2>2
    <3>2. U[k].seq = t + (k - Len(R)) /\ k - Len(R) \in 1..b
      BY <1>7, <2>2
    <3> QED
      BY <1>3, <3>1, <3>2
  <2>3. CASE j \notin 1..Len(R) /\ k \notin 1..Len(R)
    <3>1. U[j].seq = t + (j - Len(R)) /\ U[k].seq = t + (k - Len(R))
      BY <1>7, <2>3
    <3>2. j \in Int /\ k \in Int
      BY <1>5
    <3> QED
      BY <1>5, <1>10, <3>1, <3>2
  <2>4. ~(j \notin 1..Len(R) /\ k \in 1..Len(R))
    BY <1>5, <1>10
  <2> QED
    BY <2>1, <2>2, <2>3, <2>4
<1> QED
  BY <1>4, <1>8, <1>9, <1>10

(* push, inspect and read: until the assertion of inspect fails, every item *)
(* whose enqueue succeeded has been read or waits to be, once and in order. *)
THEOREM NothingIsLost == Spec => []NothingLost
BY InvGivesNothingLost, Inductive, PTL

(* read: even after the assertion failed and items were dropped, no item   *)
(* is read twice and no producer's items are read out of order.            *)
THEOREM InOrder == Spec => ReadInOrder
<1>1. ASSUME IInv, [Next]_vars
      PROVE  [/\ \A p \in Producers : got'[p] >= got[p]
              /\ Read => got' # got]_vars
  <2>1. TypeOK /\ BatchEnds /\ ItemsAccounted
    BY <1>1 DEF IInv, ItemsAccounted
  <2>2. CASE Read
    BY <2>1, <2>2, ReadItems
  <2>3. CASE ~Read
    <3>1. got' = got
      <4>1. CASE \E p \in Producers : Push(p)
        BY <4>1 DEF Push, batchVars
      <4>2. CASE \E k \in 1..BatchItems : Drain(k)
        BY <4>2 DEF Drain, batchVars
      <4> QED
        BY <1>1, <2>1, <2>3, <4>1, <4>2, OtherItems
    <3>2. \A p \in Producers : got[p] \in Nat
      BY <2>1, Numbers
    <3> QED
      BY <2>3, <3>1, <3>2
  <2> QED
    BY <2>2, <2>3
<1> QED
  BY <1>1, Inductive, PTL DEF Spec, ReadInOrder

(* release: when it reports that nothing is left and the assertion has not *)
(* failed, every enqueue that has returned true has been read.             *)
THEOREM NoMore == Spec => NoMoreIsTrue
<1>1. ASSUME IInv, ReleaseBatch, ~more', ~asserted, NEW p \in Producers, ppc[p] = "idle"
      PROVE  got[p] = posted[p]
  <2>1. ring.writer = idx /\ Position = idx /\ state = {}
    <3>1. ring' = Release(ring, end) /\ more' = (~IsEmpty(ring') \/ state # {}) /\ idx = end /\ cpc = "read"
      BY <1>1 DEF ReleaseBatch
    <3>2. end = ring.writer
      BY <1>1, <3>1 DEF IInv, BatchEnds
    <3> QED
      BY <1>1, <3>1, <3>2 DEF Position
  <2>2. InRing = <<>>
    <3>1. InRing \in Seq(Items) /\ Len(InRing) = Ahead(ring, idx, idx)
      BY <1>1, <2>1, InRingIsSeq DEF IInv
    <3>2. idx \in Nat
      BY <1>1, CapacityIsNat, RingOf DEF IInv, Positions
    <3>3. Ahead(ring, idx, idx) = 0
      BY <3>2 DEF Ahead
    <3> QED
      BY <3>1, <3>3
  <2>3. boxes[p] = <<>>
    BY <1>1, <2>1 DEF IInv, FlagCoversBox, ReleaseBatch
  <2>4. Taken(p) = posted[p]
    BY <1>1, <2>3, Numbers DEF IInv, Taken
  <2>5. got[p] \in Nat /\ posted[p] \in Nat /\ got[p] <= posted[p]
    BY <1>1, <2>4, Numbers DEF IInv, ReadLags
  <2>6. \A n \in (got[p] + 1)..posted[p] : FALSE
    BY <1>1, <2>2, <2>4 DEF IInv, RingComplete
  <2>7. CASE got[p] < posted[p]
    <3>1. posted[p] \in (got[p] + 1)..posted[p]
      BY <2>5, <2>7
    <3> QED
      BY <2>6, <3>1
  <2> QED
    BY <2>5, <2>7
<1>2. ASSUME IInv, [Next]_vars
      PROVE  [ReleaseBatch /\ ~more' /\ ~asserted =>
                \A p \in Producers : ppc[p] = "idle" => got[p] = posted[p]]_vars
  BY <1>1, <1>2
<1> QED
  BY <1>2, Inductive, PTL DEF Spec, NoMoreIsTrue
==============================================================================
