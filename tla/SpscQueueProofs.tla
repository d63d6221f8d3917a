--------------------------- MODULE SpscQueueProofs ---------------------------
(***************************************************************************)
(* Proofs about SpscQueue for every capacity, batch size and set of items: *)
(* the inductive invariant, the absence of races on the slots, and that    *)
(* the queue implements BoundedFifo.                                       *)
(***************************************************************************)
EXTENDS SpscQueue, SequenceTheorems, TLAPS

USE SlotCountAssumption, MaxBatchAssumption, NoValueAssumption

(* Succ stays in the ring and lengthens a distance by one, unless it comes *)
(* all the way round.                                                      *)
LEMMA SuccDist ==
  ASSUME NEW a \in Slots, NEW b \in Slots
  PROVE  /\ Succ(b) \in Slots
         /\ Dist(a, b) \in 0..(SlotCount - 1)
         /\ Succ(b) # a => Dist(a, Succ(b)) = Dist(a, b) + 1
         /\ Succ(b) = a => Dist(a, b) = SlotCount - 1
         /\ Dist(a, b) = 0 <=> a = b
         /\ At(a, Dist(a, b)) = b
  BY DEF Slots, Succ, Dist, At

(* At walks the ring without meeting a slot twice.                         *)
LEMMA AtDist ==
  ASSUME NEW a \in Slots, NEW k \in 0..(SlotCount - 1)
  PROVE  /\ At(a, k) \in Slots
         /\ Dist(a, At(a, k)) = k
         /\ \A b \in Slots : k < Dist(a, b) => At(a, k) # b
  BY DEF Slots, Dist, At

(* Moving the start of a walk forward by n.                                *)
LEMMA AtShift ==
  ASSUME NEW a \in Slots, NEW b \in Slots, NEW c \in Slots,
         Dist(a, b) <= Dist(a, c)
  PROVE  /\ Dist(b, c) = Dist(a, c) - Dist(a, b)
         /\ \A k \in 0..(SlotCount - 1) :
              k < Dist(b, c) => At(b, k) = At(a, k + Dist(a, b))
  BY DEF Slots, Dist, At

(* A producer past its full check has a slot between itself and the true   *)
(* read index, however old its copy of that index is.                      *)
LEMMA RoomToWrite ==
  ASSUME IInv, ppc \in {"write", "publish"}
  PROVE  Succ(writeIdx) # readIdx
  BY DEF IInv, TypeOK, CachesLag, ProducerReady, Slots, Succ, Dist

(* At first the queue is empty.                                            *)
LEMMA InitIInv == Init => IInv
<1> SUFFICES ASSUME Init PROVE IInv
  OBVIOUS
<1>1. TypeOK
  BY DEF Init, TypeOK, Slots
<1>2. CachesLag
  BY DEF Init, CachesLag, Dist
<1>3. ProducerReady /\ ConsumerCopied
  BY DEF Init, ProducerReady, ConsumerCopied
<1> QED
  BY <1>1, <1>2, <1>3 DEF IInv

(* Every step of either thread keeps the invariant.                        *)
LEMMA NextIInv == IInv /\ [Next]_vars => IInv'
<1> SUFFICES ASSUME IInv, [Next]_vars PROVE IInv'
  OBVIOUS
<1> USE DEF IInv
<1>1. ASSUME NEW v \in Values, PushCall(v) PROVE IInv'
  <2>1. TypeOK'
    BY <1>1 DEF PushCall, TypeOK, consumerVars
  <2>2. CachesLag' /\ ConsumerCopied'
    BY <1>1 DEF PushCall, CachesLag, ConsumerCopied, consumerVars, Dist, At
  <2>3. ProducerReady'
    BY <1>1 DEF PushCall, ProducerReady, Succ
  <2> QED
    BY <2>1, <2>2, <2>3
<1>2. ASSUME PushRefresh PROVE IInv'
  <2>1. TypeOK'
    BY <1>2 DEF PushRefresh, TypeOK, consumerVars
  <2>2. CachesLag' /\ ConsumerCopied'
    BY <1>2 DEF PushRefresh, CachesLag, ConsumerCopied, consumerVars, Dist, At,
                TypeOK, Slots
  <2>3. ProducerReady'
    BY <1>2 DEF PushRefresh, ProducerReady, Succ
  <2> QED
    BY <2>1, <2>2, <2>3
<1>3. ASSUME PushWrite PROVE IInv'
  <2>1. TypeOK'
    BY <1>3 DEF PushWrite, TypeOK, consumerVars, ProducerReady
  <2>2. CachesLag' /\ ProducerReady'
    BY <1>3 DEF PushWrite, CachesLag, ProducerReady, consumerVars, Dist, Succ,
                TypeOK
  <2>3. ASSUME NEW k \in 1..Len(items), cpc = "read"
        PROVE  slots'[At(readIdx, k - 1)] = slots[At(readIdx, k - 1)]
    <3> DEFINE d == Dist(readIdx, writeIdx)
               c == Dist(readIdx, writeIdxCache)
    <3>1. Len(items) \in Nat /\ c \in Nat /\ d \in 0..(SlotCount - 1)
      BY SuccDist, LenProperties DEF TypeOK
    <3>2. Len(items) <= c /\ c <= d
      BY <2>3 DEF ConsumerCopied, CachesLag
    <3> HIDE DEF c, d
    <3>3. k - 1 < d /\ k - 1 \in 0..(SlotCount - 1)
      BY <3>1, <3>2
    <3> USE DEF d
    <3>4. At(readIdx, k - 1) # writeIdx
      BY <3>3, AtDist DEF TypeOK
    <3> QED
      BY <1>3, <3>3, <3>4, AtDist DEF PushWrite, TypeOK
  <2>4. ConsumerCopied'
    BY <1>3, <2>3 DEF PushWrite, ConsumerCopied, consumerVars, Dist, At
  <2> QED
    BY <2>1, <2>2, <2>4
<1>4. ASSUME PushPublish PROVE IInv'
  <2>1. TypeOK'
    BY <1>4, SuccDist DEF PushPublish, TypeOK, consumerVars
  <2>2. Succ(writeIdx) # readIdx /\ Succ(writeIdx) # readIdxCache
    BY <1>4, RoomToWrite DEF PushPublish, ProducerReady
  <2>3. CachesLag'
    BY <1>4, <2>2, SuccDist DEF PushPublish, CachesLag, TypeOK, consumerVars, Dist
  <2>4. ProducerReady'
    BY <1>4 DEF PushPublish, ProducerReady
  <2>5. ConsumerCopied'
    BY <1>4 DEF PushPublish, ConsumerCopied, consumerVars, Dist, At
  <2> QED
    BY <2>1, <2>3, <2>4, <2>5
<1>5. ASSUME NEW n \in 1..MaxBatch, PopCall(n) PROVE IInv'
  <2>1. TypeOK'
    BY <1>5 DEF PopCall, TypeOK, producerVars
  <2>2. CachesLag' /\ ProducerReady'
    BY <1>5 DEF PopCall, CachesLag, ProducerReady, producerVars, Dist, Succ
  <2>3. ConsumerCopied'
    BY <1>5 DEF PopCall, ConsumerCopied, TypeOK, Dist, At, Slots
  <2> QED
    BY <2>1, <2>2, <2>3
<1>6. ASSUME PopRefresh PROVE IInv'
  <2>1. TypeOK'
    <3>1. popRet' \in Seq(Values \cup {NoValue})
      BY <1>6, EmptySeq DEF PopRefresh, TypeOK
    <3> QED
      BY <1>6, <3>1 DEF PopRefresh, TypeOK, producerVars
  <2>2. CachesLag' /\ ProducerReady'
    BY <1>6 DEF PopRefresh, CachesLag, ProducerReady, producerVars, Dist, Succ,
                TypeOK, Slots
  <2>3. ConsumerCopied'
    <3>1. CASE writeIdx = readIdx
      BY <1>6, <3>1 DEF PopRefresh, ConsumerCopied
    <3>2. CASE writeIdx # readIdx
      <4>1. rd' = readIdx /\ items' = <<>> /\ Len(items') = 0 /\ want' > 0
        BY <1>6, EmptySeq DEF PopRefresh, ConsumerCopied
      <4> QED
        BY <1>6, <3>2, <4>1 DEF PopRefresh, ConsumerCopied, TypeOK, Dist, Slots
    <3> QED
      BY <3>1, <3>2
  <2> QED
    BY <2>1, <2>2, <2>3
<1>7. ASSUME PopRead PROVE IInv'
  <2>1. TypeOK'
    BY <1>7, SuccDist, AppendProperties DEF PopRead, TypeOK, producerVars
  <2>2. CachesLag' /\ ProducerReady'
    BY <1>7 DEF PopRead, CachesLag, ProducerReady, producerVars, Dist, Succ
  <2>3. ConsumerCopied'
    <3>1. /\ Dist(readIdx, rd) < Dist(readIdx, writeIdxCache)
          /\ Len(items) = Dist(readIdx, rd)
          /\ Len(items) < want
      BY <1>7 DEF PopRead, ConsumerCopied, TypeOK, Dist, Slots, MoreToRead
    <3>2. Succ(rd) # readIdx /\ Dist(readIdx, Succ(rd)) = Dist(readIdx, rd) + 1
      BY <3>1, SuccDist DEF TypeOK
    <3>3. /\ Len(items') = Len(items) + 1
          /\ \A k \in 1..Len(items) : items'[k] = items[k]
          /\ items'[Len(items) + 1] = slots[rd]
      BY <1>7, AppendProperties DEF PopRead, TypeOK
    <3>4. rd = At(readIdx, Len(items))
      BY <3>1, SuccDist DEF TypeOK
    <3>5. ASSUME NEW k \in 1..Len(items')
          PROVE  items'[k] = slots[At(readIdx, k - 1)]
      <4>1. CASE k = Len(items) + 1
        BY <3>3, <3>4, <4>1 DEF TypeOK
      <4>2. CASE k # Len(items) + 1
        BY <1>7, <3>3, <4>2 DEF PopRead, ConsumerCopied, TypeOK
      <4> QED
        BY <4>1, <4>2
    <3> QED
      BY <1>7, <3>1, <3>2, <3>3, <3>5
         DEF PopRead, ConsumerCopied, TypeOK, Dist, At, Slots
  <2> QED
    BY <2>1, <2>2, <2>3
<1>8. ASSUME PopPublish PROVE IInv'
  <2>1. TypeOK'
    BY <1>8 DEF PopPublish, TypeOK, producerVars
  <2>2. CachesLag'
    BY <1>8 DEF PopPublish, CachesLag, ConsumerCopied, TypeOK, producerVars,
                Dist, Slots
  <2>3. ProducerReady' /\ ConsumerCopied'
    BY <1>8 DEF PopPublish, ProducerReady, ConsumerCopied, producerVars, Succ
  <2> QED
    BY <2>1, <2>2, <2>3
<1>9. CASE UNCHANGED vars
  BY <1>9 DEF vars, producerVars, consumerVars, TypeOK, CachesLag,
              ProducerReady, ConsumerCopied, Dist, At, Succ
<1> QED
  BY <1>1, <1>2, <1>3, <1>4, <1>5, <1>6, <1>7, <1>8, <1>9 DEF Next

(* The inductive invariant holds in every reachable state: the two threads *)
(* always agree on which slots hold published items (c_queue.cpp:340-399). *)
THEOREM Inductive == Spec => []IInv
  BY InitIInv, NextIInv, PTL DEF Spec

(* try_push and try_pop_multiple keep their indices inside the ring and    *)
(* never leave a value of the wrong kind in a slot or a result.            *)
THEOREM TypeCorrect == Spec => []TypeOK
<1>1. IInv => TypeOK
  BY DEF IInv
<1> QED
  BY <1>1, Inductive, PTL

(* The producer never writes the slot the consumer is about to read.       *)
THEOREM NoRace == Spec => []NoSlotRace
<1>1. IInv => NoSlotRace
  <2> SUFFICES ASSUME IInv, cpc = "read", MoreToRead
               PROVE  rd # writeIdx
    BY DEF NoSlotRace
  <2> QED
    BY DEF IInv, TypeOK, CachesLag, ConsumerCopied, MoreToRead, Slots, Dist
<1> QED
  BY <1>1, Inductive, PTL

------------------------------------------------------------------------------
(* The queue of BoundedFifo is the published, unread part of the ring.     *)
LEMMA ContentsIsSeq ==
  ASSUME TypeOK
  PROVE  /\ Contents \in Seq(Values \cup {NoValue})
         /\ Len(Contents) = Dist(readIdx, writeIdx)
         /\ \A k \in 1..Dist(readIdx, writeIdx) :
              Contents[k] = slots[At(readIdx, k - 1)]
<1>1. Dist(readIdx, writeIdx) \in 0..(SlotCount - 1)
  BY SuccDist DEF TypeOK
<1>2. ASSUME NEW k \in 1..Dist(readIdx, writeIdx)
      PROVE  slots[At(readIdx, k - 1)] \in Values \cup {NoValue}
  <2>1. At(readIdx, k - 1) \in Slots
    BY <1>1, AtDist DEF TypeOK
  <2> QED
    BY <2>1 DEF TypeOK
<1>3. Contents \in [1..Dist(readIdx, writeIdx) -> Values \cup {NoValue}]
  BY <1>2 DEF Contents
<1> QED
  BY <1>1, <1>3, IsASeq DEF Contents

\* A step that leaves the ring and both indices alone keeps the contents.
LEMMA ContentsUnchanged ==
  ASSUME UNCHANGED <<slots, readIdx, writeIdx>>
  PROVE  Contents' = Contents
  BY DEF Contents, Dist, At

\* Filling the free slot at the write index does not change the contents yet.
LEMMA ContentsAfterWrite ==
  ASSUME IInv, PushWrite
  PROVE  Contents' = Contents
<1>1. ASSUME NEW k \in 1..Dist(readIdx, writeIdx)
      PROVE  slots'[At(readIdx, k - 1)] = slots[At(readIdx, k - 1)]
  <2>1. k - 1 < Dist(readIdx, writeIdx) /\ k - 1 \in 0..(SlotCount - 1)
    BY SuccDist DEF IInv, TypeOK
  <2>2. At(readIdx, k - 1) # writeIdx /\ At(readIdx, k - 1) \in Slots
    BY <2>1, AtDist DEF IInv, TypeOK
  <2> QED
    BY <2>2 DEF PushWrite, IInv, TypeOK
<1>2. Dist(readIdx, writeIdx)' = Dist(readIdx, writeIdx)
  BY DEF PushWrite, Dist
<1>3. \A k : At(readIdx, k - 1)' = At(readIdx, k - 1)
  BY DEF PushWrite, At
<1> QED
  BY <1>1, <1>2, <1>3 DEF Contents

\* Publishing the write index appends the item to the contents.
LEMMA ContentsAfterPublish ==
  ASSUME IInv, PushPublish
  PROVE  /\ Contents' = Append(Contents, item)
         /\ Len(Contents) < SlotCount - 1
<1> USE DEF IInv
<1> DEFINE n == Dist(readIdx, writeIdx)
<1>1. Succ(writeIdx) # readIdx
  BY RoomToWrite DEF PushPublish
<1>2. /\ n \in 0..(SlotCount - 1)
      /\ Dist(readIdx, writeIdx)' = n + 1
      /\ Dist(readIdx', writeIdx') = n + 1
      /\ n < SlotCount - 1
  <2>1. Dist(readIdx, Succ(writeIdx)) = n + 1 /\ n \in 0..(SlotCount - 1)
    BY <1>1, SuccDist DEF TypeOK
  <2>2. Dist(readIdx, Succ(writeIdx)) \in 0..(SlotCount - 1)
    BY SuccDist DEF TypeOK
  <2> QED
    BY <2>1, <2>2 DEF PushPublish, Dist
<1>3. Contents' = [k \in 1..(n + 1) |-> slots[At(readIdx, k - 1)]]
  BY <1>2 DEF Contents, PushPublish, At
<1>4. slots[At(readIdx, n)] = item
  BY SuccDist DEF PushPublish, ProducerReady, TypeOK
<1>5. /\ Contents \in Seq(Values \cup {NoValue})
      /\ Len(Contents) = n
      /\ \A k \in 1..n : Contents[k] = slots[At(readIdx, k - 1)]
  BY ContentsIsSeq
<1>6. /\ Append(Contents, item) \in Seq(Values \cup {NoValue})
      /\ Len(Append(Contents, item)) = n + 1
      /\ \A k \in 1..n : Append(Contents, item)[k] = Contents[k]
      /\ Append(Contents, item)[n + 1] = item
  BY <1>2, <1>5, AppendProperties DEF TypeOK
<1> HIDE DEF n
<1>7. ASSUME NEW k \in 1..(n + 1)
      PROVE  slots[At(readIdx, k - 1)] = Append(Contents, item)[k]
  <2>1. CASE k = n + 1
    BY <1>2, <1>4, <1>6, <2>1
  <2>2. CASE k # n + 1
    BY <1>2, <1>5, <1>6, <2>2
  <2> QED
    BY <2>1, <2>2
<1>8. Append(Contents, item) = [k \in 1..(n + 1) |-> Append(Contents, item)[k]]
  BY <1>2, <1>6, LenProperties
<1> QED
  BY <1>2, <1>3, <1>5, <1>7, <1>8

\* Publishing the read index takes the copied items off the front.
LEMMA ContentsAfterPop ==
  ASSUME IInv, PopPublish
  PROVE  /\ Len(items) \in 1..want
         /\ Len(items) <= Len(Contents)
         /\ popRet' = SubSeq(Contents, 1, Len(items))
         /\ Contents' = SubSeq(Contents, Len(items) + 1, Len(Contents))
<1> USE DEF IInv
<1> DEFINE n == Dist(readIdx, writeIdx)
           m == Len(items)
<1>1. /\ m = Dist(readIdx, rd)
      /\ Dist(readIdx, rd) <= n
      /\ m \in 0..n
      /\ n \in 0..(SlotCount - 1)
  <2>1. /\ m = Dist(readIdx, rd)
        /\ Dist(readIdx, rd) <= Dist(readIdx, writeIdxCache)
        /\ Dist(readIdx, writeIdxCache) <= n
    BY DEF PopPublish, ConsumerCopied, CachesLag
  <2>2. /\ Dist(readIdx, rd) \in Nat
        /\ Dist(readIdx, writeIdxCache) \in Nat
        /\ n \in 0..(SlotCount - 1)
    BY SuccDist DEF TypeOK
  <2> HIDE DEF n, m
  <2> QED
    BY <2>1, <2>2
<1>2. m \in 1..want
  BY <1>1, SuccDist DEF PopPublish, ConsumerCopied, MoreToRead, TypeOK
<1>3. /\ Contents \in Seq(Values \cup {NoValue})
      /\ Len(Contents) = n
      /\ \A k \in 1..n : Contents[k] = slots[At(readIdx, k - 1)]
  BY ContentsIsSeq
<1>4. popRet' = SubSeq(Contents, 1, m)
  <2>1. /\ items \in Seq(Values \cup {NoValue})
        /\ \A k \in 1..m : items[k] = Contents[k]
    BY <1>1, <1>3 DEF PopPublish, ConsumerCopied, TypeOK
  <2>2. /\ SubSeq(Contents, 1, m) \in Seq(Values \cup {NoValue})
        /\ Len(SubSeq(Contents, 1, m)) = m
        /\ \A k \in 1..m : SubSeq(Contents, 1, m)[k] = Contents[k]
    BY <1>1, <1>2, <1>3, SubSeqProperties
  <2>3. items = SubSeq(Contents, 1, m)
    BY <2>1, <2>2, SeqEqual
  <2> QED
    BY <2>3 DEF PopPublish
<1>5. /\ Dist(readIdx', writeIdx') = n - m
      /\ \A k \in 0..(SlotCount - 1) :
           k < n - m => At(readIdx', k) = At(readIdx, k + m)
  BY <1>1, AtShift DEF PopPublish, TypeOK
<1>6. Contents' = [k \in 1..(n - m) |-> slots[At(readIdx', k - 1)]]
  BY <1>5 DEF Contents, PopPublish, Dist, At
<1>7. /\ SubSeq(Contents, m + 1, n) \in Seq(Values \cup {NoValue})
      /\ Len(SubSeq(Contents, m + 1, n)) = n - m
      /\ \A k \in 1..(n - m) : SubSeq(Contents, m + 1, n)[k] = Contents[m + k]
  <2> HIDE DEF n, m
  <2>1. m + 1 \in 1..(n + 1) /\ n \in m..n /\ Len(Contents) = n
    BY <1>1, <1>3
  <2>2. /\ SubSeq(Contents, m + 1, n) \in Seq(Values \cup {NoValue})
        /\ Len(SubSeq(Contents, m + 1, n)) = n - m
    BY <1>1, <1>3, <2>1, SubSeqProperties
  <2>3. ASSUME NEW k \in 1..(n - m)
        PROVE  SubSeq(Contents, m + 1, n)[k] = Contents[m + k]
    <3>0. /\ m + 1 \in Int /\ n \in Int
          /\ k \in 1..(n - (m + 1) + 1)
          /\ \A i \in (m + 1)..n : Contents[i] \in Values \cup {NoValue}
      BY <1>1, <1>3, ElementOfSeq
    <3>1. SubSeq(Contents, m + 1, n)[k] = Contents[m + 1 + k - 1]
      BY <3>0, SubSeqProperties
    <3>2. m + 1 + k - 1 = m + k
      BY <1>1
    <3> QED
      BY <3>1, <3>2
  <2> QED
    BY <2>2, <2>3
<1> HIDE DEF n, m
<1>8. ASSUME NEW k \in 1..(n - m)
      PROVE  slots[At(readIdx', k - 1)] = SubSeq(Contents, m + 1, n)[k]
  <2>1. At(readIdx', k - 1) = At(readIdx, k - 1 + m)
    BY <1>1, <1>5
  <2>2. Contents[m + k] = slots[At(readIdx, m + k - 1)] /\ k - 1 + m = m + k - 1
    BY <1>1, <1>3
  <2> QED
    BY <1>7, <2>1, <2>2
<1>9. SubSeq(Contents, m + 1, n)
        = [k \in 1..(n - m) |-> SubSeq(Contents, m + 1, n)[k]]
  BY <1>1, <1>7, LenProperties
<1>10. Contents' = SubSeq(Contents, m + 1, n)
  BY <1>6, <1>8, <1>9
<1> QED
  BY <1>1, <1>2, <1>3, <1>4, <1>10 DEF m

\* The initial ring is empty and no call is in progress.
LEMMA InitFifo == Init => Fifo!Init
<1> SUFFICES ASSUME Init PROVE Fifo!Init
  OBVIOUS
<1>1. Contents = <<>>
  <2>1. TypeOK
    BY InitIInv DEF IInv
  <2>2. Dist(readIdx, writeIdx) = 0
    BY DEF Init, Dist
  <2> QED
    BY <2>1, <2>2, ContentsIsSeq, EmptySeq
<1> QED
  BY <1>1 DEF Init, Fifo!Init

\* Every step of the two threads is a step of the abstract queue or none.
LEMMA NextFifo ==
  IInv /\ [Next]_vars => [Fifo!Next]_(Fifo!fifoVars)
<1> SUFFICES ASSUME IInv, [Next]_vars
             PROVE  Fifo!Next \/ UNCHANGED Fifo!fifoVars
  OBVIOUS
<1> USE DEF IInv
<1>1. ASSUME NEW v \in Values, PushCall(v) PROVE Fifo!PushCall(v)
  BY <1>1, ContentsUnchanged
     DEF PushCall, consumerVars, TypeOK, Fifo!PushCall
<1>2. ASSUME PushRefresh PROVE Fifo!PushFull \/ UNCHANGED Fifo!fifoVars
  <2>1. Contents' = Contents /\ UNCHANGED <<item, consumerVars>>
    BY <1>2, ContentsUnchanged DEF PushRefresh
  <2>2. CASE Succ(writeIdx) = readIdx
    <3>1. Len(Contents) = SlotCount - 1
      BY <2>2, SuccDist, ContentsIsSeq DEF TypeOK
    <3> QED
      BY <1>2, <2>1, <2>2, <3>1 DEF PushRefresh, consumerVars, Fifo!PushFull
  <2>3. CASE Succ(writeIdx) # readIdx
    BY <1>2, <2>1, <2>3 DEF PushRefresh, consumerVars, Fifo!fifoVars
  <2> QED
    BY <2>2, <2>3
<1>3. ASSUME PushWrite PROVE UNCHANGED Fifo!fifoVars
  BY <1>3, ContentsAfterWrite DEF PushWrite, consumerVars, Fifo!fifoVars
<1>4. ASSUME PushPublish PROVE Fifo!Push
  BY <1>4, ContentsAfterPublish DEF PushPublish, consumerVars, Fifo!Push
<1>5. ASSUME NEW n \in 1..MaxBatch, PopCall(n) PROVE Fifo!PopCall(n)
  BY <1>5, ContentsUnchanged DEF PopCall, producerVars, Fifo!PopCall
<1>6. ASSUME PopRefresh PROVE Fifo!PopEmpty \/ UNCHANGED Fifo!fifoVars
  <2>1. Contents' = Contents /\ UNCHANGED <<want, producerVars>>
    BY <1>6, ContentsUnchanged DEF PopRefresh
  <2>2. CASE writeIdx = readIdx
    <3>1. Contents = <<>>
      BY <2>2, SuccDist, ContentsIsSeq, EmptySeq DEF TypeOK
    <3>2. want # 0
      BY <1>6 DEF PopRefresh, ConsumerCopied
    <3> QED
      BY <1>6, <2>1, <2>2, <3>1, <3>2 DEF PopRefresh, producerVars, Fifo!PopEmpty
  <2>3. CASE writeIdx # readIdx
    BY <1>6, <2>1, <2>3 DEF PopRefresh, producerVars, Fifo!fifoVars
  <2> QED
    BY <2>2, <2>3
<1>7. ASSUME PopRead PROVE UNCHANGED Fifo!fifoVars
  BY <1>7, ContentsUnchanged DEF PopRead, producerVars, Fifo!fifoVars
<1>8. ASSUME PopPublish
      PROVE  Len(items) \in 1..MaxBatch /\ Fifo!Pop(Len(items))
  <2>1. Len(items) \in 1..want /\ want \in 0..MaxBatch
    BY <1>8, ContentsAfterPop DEF TypeOK
  <2> QED
    BY <1>8, <2>1, ContentsAfterPop DEF PopPublish, producerVars, Fifo!Pop
<1>9. CASE UNCHANGED vars
  BY <1>9, ContentsUnchanged DEF vars, producerVars, consumerVars, Fifo!fifoVars
<1> QED
  BY <1>1, <1>2, <1>3, <1>4, <1>5, <1>6, <1>7, <1>8, <1>9 DEF Next, Fifo!Next

(* The ring with its cached indices implements the bounded queue: nothing  *)
(* is lost, repeated or reordered, and an enqueue or a dequeue fails only  *)
(* when the queue really is full or empty (c_queue.cpp:340-399).           *)
THEOREM Refinement == Spec => ImplementsFifo
<1>1. Init => Fifo!Init
  BY InitFifo
<1>2. IInv /\ [Next]_vars => [Fifo!Next]_(Fifo!fifoVars)
  BY NextFifo
<1> QED
  BY <1>1, <1>2, Inductive, PTL DEF Spec, ImplementsFifo, Fifo!Spec

==============================================================================
