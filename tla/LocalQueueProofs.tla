--------------------------- MODULE LocalQueueProofs ---------------------------
(***************************************************************************)
(* Proofs about LocalQueue for every capacity and set of items: whatever   *)
(* the calls, the ring holds what was pushed and not popped, in order.     *)
(***************************************************************************)
EXTENDS LocalQueue, SequenceTheorems, TLAPS

USE ItemCountAssumption, NoValueAssumption

(* The type invariant and the ring's contents are inductive together.      *)
IInv == TypeOK /\ RingHoldsQueue

(* The k-th slot from the read index is in the ring, is the write index    *)
(* exactly when k is the number of slots in use, and keeps its place when  *)
(* the read index moves on by one.                                         *)
LEMMA Walk ==
  ASSUME TypeOK
  PROVE  /\ Used \in 0..(ItemCount - 1)
         /\ At(Used) = writeIdx
         /\ \A k \in 0..(ItemCount - 1) :
              /\ At(k) \in Slots
              /\ k # Used => At(k) # writeIdx
  BY DEF TypeOK, Used, At, Slots

(* A push into a ring that is not full lengthens the used part by one.     *)
LEMMA PushWalk ==
  ASSUME TypeOK, ~IsFull
  PROVE  /\ Succ(writeIdx) \in Slots
         /\ readIdx <= Succ(writeIdx) => Succ(writeIdx) - readIdx = Used + 1
         /\ readIdx > Succ(writeIdx) =>
              Succ(writeIdx) - readIdx + ItemCount = Used + 1
  BY DEF TypeOK, IsFull, Succ, Used, Slots

(* A pop from a ring that is not empty shortens the used part by one, and  *)
(* what was the k-th slot is the one before it from then on.               *)
LEMMA PopWalk ==
  ASSUME TypeOK, readIdx # writeIdx,
         NEW r, r = Succ(readIdx)
  PROVE  /\ r \in Slots
         /\ r <= writeIdx => writeIdx - r = Used - 1
         /\ r > writeIdx => writeIdx - r + ItemCount = Used - 1
         /\ \A k \in 0..(ItemCount - 1) :
              k < Used - 1 =>
                (IF r + k < ItemCount THEN r + k ELSE r + k - ItemCount) = At(k + 1)
  BY DEF TypeOK, Succ, Used, At, Slots

(* A new ring holds nothing.                                               *)
LEMMA InitIInv == Init => IInv
<1> SUFFICES ASSUME Init PROVE IInv
  OBVIOUS
<1>1. TypeOK
  BY DEF Init, TypeOK, Slots
<1>2. RingHoldsQueue
  BY DEF Init, RingHoldsQueue, Used
<1> QED
  BY <1>1, <1>2 DEF IInv

(* Every call keeps the ring and the queue alike.                          *)
LEMMA NextIInv == IInv /\ [Next]_vars => IInv'
<1> SUFFICES ASSUME IInv, [Next]_vars PROVE IInv'
  OBVIOUS
<1> USE DEF IInv
<1>1. ASSUME NEW v \in Values, TryPush(v) PROVE IInv'
  <2>1. Len(held) = Used /\ Used \in 0..(ItemCount - 1)
    BY Walk DEF RingHoldsQueue
  <2>2. /\ held' \in Seq(Values)
        /\ Len(held') = Len(held) + 1
        /\ \A k \in 1..Len(held) : held'[k] = held[k]
        /\ held'[Len(held) + 1] = v
    BY <1>1, AppendProperties DEF TryPush, TypeOK
  <2>3. TypeOK'
    BY <1>1, <2>2, PushWalk DEF TryPush, TypeOK
  <2>4. Used' = Used + 1
    BY <1>1, PushWalk DEF TryPush, Used, TypeOK, Slots
  <2>5. slots'[writeIdx] = v /\ \A i \in Slots : i # writeIdx => slots'[i] = slots[i]
    BY <1>1 DEF TryPush, TypeOK
  <2>6. ASSUME NEW k \in 1..Len(held')
        PROVE  slots'[At(k - 1)'] = held'[k]
    <3>1. At(k - 1)' = At(k - 1)
      BY <1>1 DEF TryPush, At
    <3>2. CASE k = Len(held) + 1
      <4>1. k - 1 = Used
        BY <3>2, <2>1
      <4>2. At(k - 1) = writeIdx
        BY <4>1, Walk
      <4> QED
        BY <3>1, <3>2, <4>2, <2>2, <2>5
    <3>3. CASE k # Len(held) + 1
      <4>1. k \in 1..Len(held) /\ k - 1 \in 0..(ItemCount - 1) /\ k - 1 # Used
        BY <3>3, <2>1, <2>2
      <4>2. At(k - 1) \in Slots /\ At(k - 1) # writeIdx
        BY <4>1, Walk
      <4> QED
        BY <3>1, <4>1, <4>2, <2>2, <2>5 DEF RingHoldsQueue
    <3> QED
      BY <3>2, <3>3
  <2>7. RingHoldsQueue'
    BY <1>1, <2>1, <2>2, <2>4, <2>6 DEF TryPush, RingHoldsQueue
  <2> QED
    BY <2>3, <2>7
<1>2. ASSUME TryPop PROVE IInv'
  <2>1. Len(held) = Used /\ Used \in 1..(ItemCount - 1)
    <3>1. Len(held) = Used /\ Used \in 0..(ItemCount - 1)
      BY Walk DEF RingHoldsQueue
    <3>2. Used # 0
      BY <1>2 DEF TryPop, Used, TypeOK, Slots
    <3> QED
      BY <3>1, <3>2
  <2>2. held # <<>>
    BY <2>1, EmptySeq DEF TypeOK
  <2>3. /\ held' \in Seq(Values)
        /\ oldest' = held[1]
        /\ oldest' \in Values
        /\ Len(held') = Len(held) - 1
        /\ \A k \in 1..Len(held') : held'[k] = held[k + 1]
    BY <1>2, <2>2, <2>1, HeadTailProperties DEF TryPop, TypeOK
  <2>4. TypeOK'
    BY <1>2, <2>3, PopWalk DEF TryPop, TypeOK
  <2>5. Used' = Used - 1
    BY <1>2, PopWalk DEF TryPop, Used, TypeOK, Slots
  <2>6. popped' = oldest'
    <3>1. At(0) = readIdx
      BY DEF At, TypeOK, Slots
    <3> QED
      BY <1>2, <2>1, <2>3, <3>1 DEF RingHoldsQueue, TryPop
  <2>7. ASSUME NEW k \in 1..Len(held')
        PROVE  slots'[At(k - 1)'] = held'[k]
    <3>1. k - 1 \in 0..(ItemCount - 1) /\ k - 1 < Used - 1 /\ k + 1 \in 1..Len(held)
      BY <2>1, <2>3
    <3>2. At(k - 1)' = At(k)
      BY <1>2, <3>1, PopWalk DEF TryPop, At
    <3>3. slots[At(k)] = held[k + 1]
      BY <3>1 DEF RingHoldsQueue
    <3> QED
      BY <1>2, <2>3, <3>2, <3>3 DEF TryPop
  <2>8. RingHoldsQueue'
    BY <2>1, <2>3, <2>5, <2>6, <2>7 DEF RingHoldsQueue
  <2> QED
    BY <2>4, <2>8
<1>3. CASE UNCHANGED vars
  BY <1>3 DEF vars, TypeOK, RingHoldsQueue, Used, At
<1> QED
  BY <1>1, <1>2, <1>3 DEF Next, TryPushFull, TryPopEmpty

(* The inductive invariant holds in every reachable state.                 *)
THEOREM Inductive == Spec => []IInv
  BY InitIInv, NextIInv, PTL DEF Spec

(* Type correctness: the indices stay in the ring.                         *)
THEOREM TypeCorrect == Spec => []TypeOK
  BY Inductive, PTL DEF IInv

(* For every capacity the ring holds exactly what was pushed and not       *)
(* popped, oldest first, and try_pop returns the oldest item.              *)
THEOREM HoldsQueue == Spec => []RingHoldsQueue
  BY Inductive, PTL DEF IInv
==============================================================================
