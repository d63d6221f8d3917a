------------------------------ MODULE SpscQueue ------------------------------
(***************************************************************************)
(* namespace spsc of c_queue.cpp: a ring of slot_count slots shared by one *)
(* producer thread (try_push) and one consumer thread (try_pop and         *)
(* try_pop_multiple).  Each thread owns one of the two indices, publishes  *)
(* it with a release store and keeps a private copy of the other's, which  *)
(* it refreshes only when the copy says that the ring is full, or empty.   *)
(*                                                                         *)
(* A step is one access to memory the other thread also accesses: a load   *)
(* or a store of an index, a read or a write of a slot.  What a thread     *)
(* does on its own data in between belongs to the step before.             *)
(***************************************************************************)
EXTENDS Integers, Sequences

CONSTANTS
  Values,    \* the u64 items
  NoValue,   \* the content of a slot nothing has been written to
  SlotCount, \* slot_count: the number of items asked for, and one more
  MaxBatch   \* the largest count try_pop_multiple is called with

ASSUME SlotCountAssumption == SlotCount \in Nat /\ SlotCount >= 2
ASSUME MaxBatchAssumption == MaxBatch \in Nat \ {0}
ASSUME NoValueAssumption == NoValue \notin Values

VARIABLES
  slots,         \* m_slots
  writeIdx,      \* m_writeIdx
  readIdxCache,  \* m_readIdxCache, the producer's copy of readIdx
  readIdx,       \* m_readIdx
  writeIdxCache, \* m_writeIdxCache, the consumer's copy of writeIdx
  ppc,           \* where the producer is in try_push
  item,          \* the argument of try_push
  pushRet,       \* what the last try_push returned
  cpc,           \* where the consumer is in try_pop_multiple
  want,          \* the argument count of try_pop_multiple
  rd,            \* the local readIdx of try_pop_multiple
  items,         \* the items it has copied out so far
  popRet         \* the items the last call handed to its caller

producerVars == <<readIdxCache, ppc, item, pushRet>>
consumerVars == <<writeIdxCache, cpc, want, rd, items, popRet>>
vars == <<slots, writeIdx, readIdx, producerVars, consumerVars>>

Slots == 0..(SlotCount - 1)

Init ==
  /\ slots = [i \in Slots |-> NoValue]
  /\ writeIdx = 0
  /\ readIdxCache = 0
  /\ readIdx = 0
  /\ writeIdxCache = 0
  /\ ppc = "idle"
  /\ item = NoValue
  /\ pushRet = "none"
  /\ cpc = "idle"
  /\ want = 0
  /\ rd = 0
  /\ items = <<>>
  /\ popRet = <<>>

\* Mutant: the index is not wrapped at the capacity.
SuccNoWrap(i) == i + 1

\* The index after i, which wraps to 0 at the capacity.
Succ(i) == IF i + 1 = SlotCount THEN 0 ELSE i + 1
------------------------------------------------------------------------------
\* Mutant: try_push writes without looking at the read index.
PushCallUnchecked(v) ==
  /\ ppc = "idle"
  /\ item' = v
  /\ ppc' = "write"
  /\ UNCHANGED <<slots, writeIdx, readIdx, readIdxCache, pushRet, consumerVars>>

\* try_push starts: the cached read index tells whether it may write at once.
PushCall(v) ==
  /\ ppc = "idle"
  /\ item' = v
  /\ ppc' = IF Succ(writeIdx) = readIdxCache THEN "refresh" ELSE "write"
  /\ UNCHANGED <<slots, writeIdx, readIdx, readIdxCache, pushRet, consumerVars>>

\* It looked full: load the true read index, and give up if it still is.
PushRefresh ==
  /\ ppc = "refresh"
  /\ readIdxCache' = readIdx
  /\ IF Succ(writeIdx) = readIdx
       THEN ppc' = "idle" /\ pushRet' = "full"
       ELSE ppc' = "write" /\ UNCHANGED pushRet
  /\ UNCHANGED <<slots, writeIdx, readIdx, item, consumerVars>>

PushWrite ==
  /\ ppc = "write"
  /\ slots' = [slots EXCEPT ![writeIdx] = item]
  /\ ppc' = "publish"
  /\ UNCHANGED <<writeIdx, readIdx, readIdxCache, item, pushRet, consumerVars>>

PushPublish ==
  /\ ppc = "publish"
  /\ writeIdx' = Succ(writeIdx)
  /\ ppc' = "idle"
  /\ pushRet' = "ok"
  /\ UNCHANGED <<slots, readIdx, readIdxCache, item, consumerVars>>
------------------------------------------------------------------------------
\* try_pop_multiple(items, n) starts; try_pop is the case n = 1.
PopCall(n) ==
  /\ cpc = "idle"
  /\ want' = n
  /\ items' = <<>>
  /\ rd' = readIdx
  /\ cpc' = IF readIdx = writeIdxCache THEN "refresh" ELSE "read"
  /\ UNCHANGED <<slots, writeIdx, readIdx, writeIdxCache, popRet, producerVars>>

\* It looked empty: load the true write index, and give up if it still is.
PopRefresh ==
  /\ cpc = "refresh"
  /\ writeIdxCache' = writeIdx
  /\ IF writeIdx = readIdx
       THEN cpc' = "idle" /\ popRet' = <<>>
       ELSE cpc' = "read" /\ UNCHANGED popRet
  /\ UNCHANGED <<slots, writeIdx, readIdx, want, rd, items, producerVars>>

\* Mutant: the copying loop does not stop at the published items.
MoreToReadPastCache == Len(items) < want

\* The condition of the copying loop.
MoreToRead == Len(items) < want /\ rd # writeIdxCache

PopRead ==
  /\ cpc = "read"
  /\ MoreToRead
  /\ items' = Append(items, slots[rd])
  /\ rd' = Succ(rd)
  /\ UNCHANGED <<slots, writeIdx, readIdx, writeIdxCache, cpc, want, popRet,
                 producerVars>>

PopPublish ==
  /\ cpc = "read"
  /\ ~MoreToRead
  /\ readIdx' = rd
  /\ cpc' = "idle"
  /\ popRet' = items
  /\ UNCHANGED <<slots, writeIdx, writeIdxCache, want, rd, items, producerVars>>
------------------------------------------------------------------------------
Next ==
  \/ \E v \in Values : PushCall(v)
  \/ PushRefresh
  \/ PushWrite
  \/ PushPublish
  \/ \E n \in 1..MaxBatch : PopCall(n)
  \/ PopRefresh
  \/ PopRead
  \/ PopPublish

Spec == Init /\ [][Next]_vars
------------------------------------------------------------------------------
\* The distance from index a forward to index b.
Dist(a, b) == IF a <= b THEN b - a ELSE b - a + SlotCount

\* The index k places after a, for k below the capacity.
At(a, k) == IF a + k < SlotCount THEN a + k ELSE a + k - SlotCount

\* The published and unread items, oldest first.
Contents == [k \in 1..Dist(readIdx, writeIdx) |-> slots[At(readIdx, k - 1)]]

(* Type invariant of the queue and of the two threads inside it. *)
TypeOK ==
  /\ slots \in [Slots -> Values \cup {NoValue}]
  /\ writeIdx \in Slots
  /\ readIdx \in Slots
  /\ readIdxCache \in Slots
  /\ writeIdxCache \in Slots
  /\ ppc \in {"idle", "refresh", "write", "publish"}
  /\ item \in Values \cup {NoValue}
  /\ pushRet \in {"none", "ok", "full"}
  /\ cpc \in {"idle", "refresh", "read"}
  /\ want \in 0..MaxBatch
  /\ rd \in Slots
  /\ items \in Seq(Values \cup {NoValue})
  /\ popRet \in Seq(Values \cup {NoValue})

(* The plain accesses to m_slots never race: while try_push is about to    *)
(* write a slot, try_pop_multiple is not about to read that slot, although *)
(* each thread decided from a possibly stale copy of the other's index.    *)
NoSlotRace == ~(ppc = "write" /\ cpc = "read" /\ MoreToRead /\ rd = writeIdx)

(* A cached index is one the other thread really had, and lags behind it:  *)
(* going round the ring, the producer's copy of the read index comes at or *)
(* before the read index, and the consumer's copy of the write index lies  *)
(* between the read index and the write index.                             *)
CachesLag ==
  /\ Dist(readIdxCache, readIdx) <= Dist(readIdxCache, writeIdx)
  /\ Dist(readIdx, writeIdxCache) <= Dist(readIdx, writeIdx)

\* A producer past its full check has a free slot, and then its item in it.
ProducerReady ==
  /\ ppc # "idle" => item \in Values
  /\ ppc \in {"write", "publish"} => Succ(writeIdx) # readIdxCache
  /\ ppc = "publish" => slots[writeIdx] = item

\* A consumer past its empty check has copied the first published items.
ConsumerCopied ==
  /\ cpc # "idle" => want > 0
  /\ cpc = "refresh" => rd = readIdx /\ items = <<>>
  /\ cpc = "read" =>
       /\ readIdx # writeIdxCache
       /\ Len(items) <= want
       /\ Len(items) = Dist(readIdx, rd)
       /\ Dist(readIdx, rd) <= Dist(readIdx, writeIdxCache)
       /\ \A k \in 1..Len(items) : items[k] = slots[At(readIdx, k - 1)]

(* The inductive invariant: the two threads agree on which slots hold the  *)
(* published items, which one is being filled and which have been copied.  *)
IInv ==
  /\ TypeOK
  /\ CachesLag
  /\ ProducerReady
  /\ ConsumerCopied

(* A dequeue returns the items that were enqueued, in their order, none    *)
(* lost, repeated or invented, whatever the interleaving; an enqueue fails *)
(* only when the queue holds SlotCount - 1 items and a dequeue returns     *)
(* nothing only when it is empty.                                          *)
Fifo == INSTANCE BoundedFifo WITH
  Bound <- SlotCount - 1,
  queue <- Contents,
  pushItem <- item,
  pushRet <- IF ppc = "idle" THEN pushRet ELSE "busy",
  popWant <- IF cpc = "idle" THEN 0 ELSE want

ImplementsFifo == Fifo!Spec
==============================================================================
