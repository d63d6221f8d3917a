------------------------------ MODULE MpscQueue ------------------------------
(***************************************************************************)
(* namespace mpsc of c_queue.cpp: every producer has a single-producer     *)
(* queue of its own; a producer that has enqueued sets its bit in          *)
(* m_queues_state, and the consumer, when its private ring is empty, takes *)
(* the bits with one exchange and then drains EVERY producer's queue into  *)
(* the ring.  It reads the batch and releases it.                          *)
(*                                                                         *)
(* A producer's queue is a sequence whose enqueue and bulk dequeue take    *)
(* effect in one step: that is what SpscQueueProofs!Refinement proves of   *)
(* it.  How many items one bulk dequeue sees depends on the consumer's     *)
(* cached index, so it is any number from one up.                          *)
(***************************************************************************)
EXTENDS LocalRing

CONSTANTS
  NumProducers, \* m_num_queues
  NumItems,     \* producer_items: how many items each producer's queue holds
  BatchItems,   \* the size of the array items[] of inspect
  MaxPosts      \* bound: how many items each producer enqueues

ASSUME NumProducersAssumption == NumProducers \in Nat \ {0}
ASSUME NumItemsAssumption == NumItems \in Nat \ {0}
ASSUME BatchItemsAssumption == BatchItems \in Nat \ {0}
ASSUME MaxPostsAssumption == MaxPosts \in Nat

Producers == 0..(NumProducers - 1)

\* The items are told apart by who enqueued them and in which position.
Items == [from : Producers, seq : 1..MaxPosts]
NoItem == [from |-> -1, seq |-> 0]

VARIABLES
  heap,     \* per block of memory: its allocations less its deallocations
  boxes,    \* m_producer_queues
  state,    \* m_queues_state, as the set of producers whose bit is set
  ring,     \* m_consumer_ring
  ppc,      \* per producer: where it is in push
  cpc,      \* where the consumer is
  cur,      \* the loop variable of inspect, 0 outside its loop
  idx,      \* the consumer's position in its batch, 0 outside a batch
  end,      \* the end of its batch, 0 outside a batch
  more,     \* the result of its release, until it calls inspect again
  asserted, \* the ASSERT(false) of inspect was reached
  posted,   \* history: how many enqueues of each producer returned true
  got       \* history: the last item of each producer the consumer has read

vars == <<heap, boxes, state, ring, ppc, cpc, cur, idx, end, more, asserted, posted, got>>

producerVars == <<ppc, posted>>
queueVars == <<boxes, state, ring, cur, asserted>>
batchVars == <<idx, end, more, got>>

\* In the order create_queue allocates them: the queue_t (1), its array of
\* queues (2), the ring (3), and the queue of each producer p (4 + p).
Blocks == 1..(NumProducers + 3)

Exists == cpc \notin {"null", "gone"}

Init ==
  /\ heap = [b \in Blocks |-> 0]
  /\ boxes = [p \in Producers |-> <<>>]
  /\ state = {}
  /\ ring = NewRing(NumProducers * NumItems + 1, NoItem)
  /\ ppc = [p \in Producers |-> "idle"]
  /\ cpc = "null"
  /\ cur = 0
  /\ idx = 0
  /\ end = 0
  /\ more = FALSE
  /\ asserted = FALSE
  /\ posted = [p \in Producers |-> 0]
  /\ got = [p \in Producers |-> 0]
------------------------------------------------------------------------------
\* Mutant: the ring is not deallocated.
DestroyedLeaksRing(blocks) == blocks \ {3}

\* destroy_queue: of the queues of the producers only those that were allocated.
Destroyed(blocks) == 1..3 \cup {b \in blocks : b > 3}

\* What create_queue deallocates when its first n allocations succeed and the
\* next one, if there is one, does not.
Undone(n) ==
  CASE n < 3 -> 1..n
    [] 3 <= n /\ n < NumProducers + 3 -> Destroyed(1..n)
    [] OTHER -> {}

Count(b, blocks) == IF b \in blocks THEN 1 ELSE 0

\* create_queue, whose caller may try again when it gets nullptr.
Create(n) ==
  /\ cpc = "null"
  /\ heap' = [b \in Blocks |-> heap[b] + Count(b, 1..n) - Count(b, Undone(n))]
  /\ cpc' = IF n = NumProducers + 3 THEN "idle" ELSE "null"
  /\ UNCHANGED <<queueVars, producerVars, batchVars>>

\* destroy_queue, called when no other call is under way.
Destroy ==
  /\ cpc = "idle"
  /\ \A p \in Producers : ppc[p] = "idle"
  /\ heap' = [b \in Blocks |-> heap[b] - Count(b, Destroyed(Blocks))]
  /\ cpc' = "gone"
  /\ UNCHANGED <<queueVars, producerVars, batchVars>>

\* Every call on a null queue returns at once.
CallOnNull == ~Exists /\ UNCHANGED vars
------------------------------------------------------------------------------
\* Mutant: the result of queue_enqueue is not looked at.
PushUnchecked(p) ==
  /\ Exists /\ ppc[p] = "idle"
  /\ posted[p] < MaxPosts
  /\ boxes' = IF Len(boxes[p]) < NumItems
                THEN [boxes EXCEPT ![p] = Append(@, [from |-> p, seq |-> posted[p] + 1])]
                ELSE boxes
  /\ posted' = [posted EXCEPT ![p] = @ + 1]
  /\ ppc' = [ppc EXCEPT ![p] = "flag"]
  /\ UNCHANGED <<heap, state, ring, cpc, cur, asserted, batchVars>>

\* push: enqueue into the producer's own queue ...
Push(p) ==
  /\ Exists /\ ppc[p] = "idle"
  /\ posted[p] < MaxPosts
  /\ Len(boxes[p]) < NumItems
  /\ boxes' = [boxes EXCEPT ![p] = Append(@, [from |-> p, seq |-> posted[p] + 1])]
  /\ posted' = [posted EXCEPT ![p] = @ + 1]
  /\ ppc' = [ppc EXCEPT ![p] = "flag"]
  /\ UNCHANGED <<heap, state, ring, cpc, cur, asserted, batchVars>>

\* ... which fails, and leaves everything as it was, if that queue is full ...
PushFull(p) ==
  /\ Exists /\ ppc[p] = "idle"
  /\ posted[p] < MaxPosts
  /\ Len(boxes[p]) = NumItems
  /\ UNCHANGED vars

\* Mutant: a store of the bit where fetch_or is meant.
PushFlagStores(p) ==
  /\ ppc[p] = "flag"
  /\ state' = {p}
  /\ ppc' = [ppc EXCEPT ![p] = "idle"]
  /\ UNCHANGED <<heap, boxes, ring, cpc, cur, asserted, posted, batchVars>>

\* ... and then set the producer's bit.
PushFlag(p) ==
  /\ ppc[p] = "flag"
  /\ state' = state \cup {p}
  /\ ppc' = [ppc EXCEPT ![p] = "idle"]
  /\ UNCHANGED <<heap, boxes, ring, cpc, cur, asserted, posted, batchVars>>
------------------------------------------------------------------------------
\* m_consumer_ring->inspect(begin, end), and the read position of the caller.
StartBatch(r) ==
  /\ cpc' = "read"
  /\ idx' = r.reader
  /\ end' = r.writer
  /\ more' = FALSE
  /\ UNCHANGED got

\* inspect: what is left in the ring is the next batch.
InspectRing ==
  /\ cpc = "idle"
  /\ ~IsEmpty(ring)
  /\ StartBatch(ring)
  /\ UNCHANGED <<heap, boxes, state, ring, cur, asserted, producerVars>>

\* inspect: the ring is empty and no bit is set.
InspectNothing ==
  /\ cpc = "idle"
  /\ IsEmpty(ring)
  /\ state = {}
  /\ UNCHANGED vars

\* inspect: take all the bits, and start over at the first producer.
InspectExchange ==
  /\ cpc = "idle"
  /\ IsEmpty(ring)
  /\ state # {}
  /\ state' = {}
  /\ cpc' = "drain"
  /\ cur' = 0
  /\ more' = FALSE
  /\ UNCHANGED <<heap, boxes, ring, idx, end, got, asserted, producerVars>>

\* inspect: one queue_dequeue_multiple that returned k items.
Drain(k) ==
  /\ cpc = "drain"
  /\ k <= Len(boxes[cur])
  /\ LET taken == SubSeq(boxes[cur], 1, k)
     IN  /\ boxes' = [boxes EXCEPT ![cur] = SubSeq(@, k + 1, Len(@))]
         /\ ring' = AddMultiple(ring, taken)
         /\ IF AddMultipleFits(ring, taken)
              THEN UNCHANGED <<asserted, cpc, cur>>
              ELSE asserted' = TRUE /\ cpc' = "idle" /\ cur' = 0
  /\ UNCHANGED <<heap, state, producerVars, batchVars>>

\* Mutant: the break at an empty queue leaves the loop over the producers.
DrainFirstOnly ==
  /\ cpc = "drain"
  /\ boxes[cur] = <<>>
  /\ cur' = 0
  /\ IF IsEmpty(ring)
       THEN cpc' = "idle" /\ UNCHANGED batchVars
       ELSE StartBatch(ring)
  /\ UNCHANGED <<heap, boxes, state, ring, asserted, producerVars>>

\* inspect: the queue came up empty; go on to the next, or report the batch.
DrainNext ==
  /\ cpc = "drain"
  /\ boxes[cur] = <<>>
  /\ IF cur + 1 < NumProducers
       THEN cur' = cur + 1 /\ UNCHANGED <<cpc, batchVars>>
       ELSE /\ cur' = 0
            /\ IF IsEmpty(ring)
                 THEN cpc' = "idle" /\ UNCHANGED batchVars
                 ELSE StartBatch(ring)
  /\ UNCHANGED <<heap, boxes, state, ring, asserted, producerVars>>

Read ==
  /\ cpc = "read"
  /\ idx # end
  /\ LET item == ring.slots[idx]
     IN  got' = [got EXCEPT ![item.from] = item.seq]
  /\ idx' = RingNext(ring, idx)
  /\ UNCHANGED <<heap, boxes, state, ring, cpc, cur, end, more, asserted, producerVars>>

\* Mutant: release looks at the ring only, not at m_queues_state.
ReleaseBatchRingOnly ==
  /\ cpc = "read"
  /\ idx = end
  /\ ring' = Release(ring, end)
  /\ more' = ~IsEmpty(ring')
  /\ cpc' = "idle"
  /\ idx' = 0
  /\ end' = 0
  /\ UNCHANGED <<heap, boxes, state, cur, asserted, got, producerVars>>

\* release(idx, end), whose result says whether there is more to inspect.
ReleaseBatch ==
  /\ cpc = "read"
  /\ idx = end
  /\ ring' = Release(ring, end)
  /\ more' = (~IsEmpty(ring') \/ state # {})
  /\ cpc' = "idle"
  /\ idx' = 0
  /\ end' = 0
  /\ UNCHANGED <<heap, boxes, state, cur, asserted, got, producerVars>>
------------------------------------------------------------------------------
Consumer ==
  \/ InspectRing
  \/ InspectNothing
  \/ InspectExchange
  \/ \E k \in 1..BatchItems : Drain(k)
  \/ DrainNext
  \/ Read
  \/ ReleaseBatch

Next ==
  \/ \E n \in 0..(NumProducers + 3) : Create(n)
  \/ Destroy
  \/ CallOnNull
  \/ \E p \in Producers : Push(p) \/ PushFull(p) \/ PushFlag(p)
  \/ Consumer

Spec == Init /\ [][Next]_vars

\* A producer that has enqueued runs on to set its bit; the consumer keeps
\* calling inspect, and reads and releases what it is given.
Fairness ==
  /\ \A p \in Producers : WF_vars(PushFlag(p))
  /\ WF_vars(Consumer)

FairSpec == Spec /\ Fairness
------------------------------------------------------------------------------
(* Type invariant. *)
TypeOK ==
  /\ heap \in [Blocks -> Int]
  /\ boxes \in [Producers -> Seq(Items)]
  /\ \A p \in Producers : Len(boxes[p]) <= NumItems
  /\ state \subseteq Producers
  /\ ring \in [slots    : [0..(NumProducers * NumItems) -> Items \cup {NoItem}],
               capacity : {NumProducers * NumItems + 1},
               writer   : 0..(NumProducers * NumItems),
               reader   : 0..(NumProducers * NumItems)]
  /\ ppc \in [Producers -> {"idle", "flag"}]
  /\ cpc \in {"null", "idle", "drain", "read", "gone"}
  /\ cur \in Producers
  /\ {idx, end} \subseteq 0..(NumProducers * NumItems)
  /\ {more, asserted} \subseteq BOOLEAN
  /\ posted \in [Producers -> 0..MaxPosts]
  /\ got \in [Producers -> 0..MaxPosts]

(* A queue that exists holds each of its blocks, and one that could not be  *)
(* created or is destroyed holds none: nothing leaks and nothing is freed  *)
(* twice, however far create_queue came before it failed.                  *)
EveryBlockFreedOnce == \A b \in Blocks : heap[b] = (IF Exists THEN 1 ELSE 0)

(* No enqueued item is overlooked, unless the assertion of inspect failed,  *)
(* which leaves the drain half-way: an item waits in a producer's queue     *)
(* only while the producer's bit is set or about to be, or the consumer    *)
(* has still to come to that queue in the drain that took the bit.         *)
FlagCoversBox ==
  asserted \/ \A p \in Producers :
    boxes[p] # <<>> =>
      p \in state \/ ppc[p] = "flag" \/ (cpc = "drain" /\ cur <= p)

\* Where the consumer goes on reading, and what waits in the ring from there.
Position == IF cpc = "read" THEN idx ELSE ring.reader
InRing == RingFrom(ring, Position)

\* What the consumer would read next if no producer but p had items to come.
Unread(p) == InRing \o boxes[p]

(* Unless the assertion of inspect failed, every item whose enqueue        *)
(* succeeded has been read or is waiting to be, once and in the order its  *)
(* producer enqueued it.                                                   *)
NothingLost ==
  asserted \/ \A p \in Producers :
    /\ \A n \in (got[p] + 1)..posted[p] :
         \E k \in DOMAIN Unread(p) : Unread(p)[k] = [from |-> p, seq |-> n]
    /\ \A k \in DOMAIN Unread(p) :
         Unread(p)[k].from = p => Unread(p)[k].seq \in (got[p] + 1)..posted[p]
    /\ \A j, k \in DOMAIN Unread(p) :
         j < k /\ Unread(p)[j].from = p /\ Unread(p)[k].from = p
           => Unread(p)[j].seq < Unread(p)[k].seq

(* Even after the assertion failed, no item is read twice and no producer's *)
(* items are read out of order.                                             *)
ReadInOrder ==
  [][/\ \A p \in Producers : got'[p] >= got[p]
     /\ Read => got' # got]_vars

(* When release reports that nothing is left, nothing is: unless the       *)
(* assertion of inspect failed, every enqueue that has returned true has   *)
(* been read.                                                              *)
NoMoreIsTrue ==
  [][ReleaseBatch /\ ~more' /\ ~asserted =>
       \A p \in Producers : ppc[p] = "idle" => got[p] = posted[p]]_vars

(* The ring has room for everything a drain takes (the assertion at        *)
(* c_queue.cpp:618).                                                       *)
NeverAsserts == ~asserted

(* Every enqueue that succeeded is eventually read, unless an assertion    *)
(* failed on the way or the queue is destroyed, although the bit may be    *)
(* set before, during or after the drain that collects the item.           *)
EveryItemIsRead ==
  \A p \in Producers : \A n \in 1..MaxPosts :
    posted[p] >= n ~> got[p] >= n \/ asserted \/ cpc = "gone"
==============================================================================
