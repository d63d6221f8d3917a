--------------------------- MODULE TurnQueueProofs ---------------------------
(***************************************************************************)
(* Proofs about the queues of TurnQueue for every number of threads and    *)
(* slots, as long as their indices do not reach their limit: the lemmas    *)
(* about what MpmcQueue and SpmcQueue share, and the theorems about        *)
(* MpmcQueue.  Those about SpmcQueue are in SpmcQueueProofs.               *)
(*                                                                         *)
(* The accesses to a slot are numbered: the push of round r is access 2r,  *)
(* the pop of round r is access 2r + 1, and a slot's turn is how many      *)
(* accesses it has seen.  The invariant says, of every position, that its  *)
(* access is done, or claimed and in the hands of one thread, or not yet   *)
(* claimed.                                                                *)
(***************************************************************************)
EXTENDS MpmcQueue, SequenceTheorems, FiniteSetTheorems, TLAPS

USE ItemCountAssumption, IndexLimitAssumption, MaxPushesAssumption

\* The indices do not come to their limit: every push that may be started is
\* one of MaxPushes positions, or was called when they were not used up.  Past
\* 2^32 pushes the turn of a position says nothing about its slot any more.
NoWrap ==
  /\ IsFiniteSet(Threads)
  /\ MaxPushes + Cardinality(Threads) + 1 < IndexLimit

\* Operation o on position i is this access to its slot, counted from 0.
NthAccess(o, i) == (i \div SlotCount) * 2 + IF o = "pop" THEN 1 ELSE 0

\* How many positions operation o has claimed.
Claimed(o) == IF o = "push" THEN Len(put) ELSE index["pop"]

\* A thread that has claimed a position is the next to access its slot.
OwnersTurn ==
  \A t \in Threads : Owns(t) =>
    /\ pos[t] < Claimed(op[t])
    /\ turn[Slot(pos[t])] = NthAccess(op[t], pos[t])

\* A position is claimed by one thread.
OwnersDiffer ==
  \A t, u \in Threads :
    Owns(t) /\ Owns(u) /\ op[t] = op[u] /\ pos[t] = pos[u] => t = u

\* A thread about to claim a position has seen the slot's turn come; it may
\* since have been overtaken.
CasSawTurn ==
  \A t \in Threads :
    pc[t] = "cas" => turn[Slot(pos[t])] >= NthAccess(op[t], pos[t])

\* An access that is done was claimed ...
DoneWasClaimed ==
  \A o \in Ops, i \in Indices :
    NthAccess(o, i) < turn[Slot(i)] => i < Claimed(o)

\* ... and one that was claimed is done or in a thread's hands.
ClaimedIsHeldOrDone ==
  \A o \in Ops, i \in Indices : i < Claimed(o) =>
    \/ turn[Slot(i)] > NthAccess(o, i)
    \/ \E u \in Threads : Owns(u) /\ op[u] = o /\ pos[u] = i

\* Pops claim what pushes have claimed, and pushes at most a round ahead.
Order == index["pop"] <= Len(put) /\ Len(put) <= index["pop"] + SlotCount

\* A slot whose next access is a pop has the item of that position, and the
\* threads that hold a position have its item in their hands.
Contents ==
  /\ \A i \in Indices :
       turn[Slot(i)] = NthAccess("pop", i) => item[Slot(i)] = put[i + 1]
  /\ \A t \in Threads :
       op[t] = "push" /\ Owns(t) => arg[t] = put[pos[t] + 1]
  /\ \A t \in Threads :
       pc[t] = "publish" =>
         arg[t] = put[pos[t] + 1] /\ (op[t] = "push" => item[Slot(pos[t])] = arg[t])

Safe ==
  /\ OwnersTurn
  /\ OwnersDiffer
  /\ CasSawTurn
  /\ DoneWasClaimed
  /\ ClaimedIsHeldOrDone
  /\ Order
  /\ Contents

\* The threads that have called push and not claimed a position yet.
Pending == {t \in Threads : op[t] = "push" /\ pc[t] \in {"turn", "cas", "recheck"}}

Counted == Len(put) + Cardinality(Pending) <= MaxPushes + Cardinality(Threads)

\* No thread is ahead of the index it loaded, which is not ahead of the pushes.
PositionsLag ==
  /\ index["push"] <= Len(put)
  /\ \A t \in Threads : pos[t] <= Len(put)
------------------------------------------------------------------------------
(* There are at least two slots.                                           *)
LEMMA SlotCountType == SlotCount \in Nat /\ SlotCount >= 2
  BY DEF SlotCount

(* Division with remainder: a position is its round and its slot.          *)
LEMMA DivMod ==
  ASSUME NEW n \in Nat, n >= 2, NEW i \in Nat
  PROVE  /\ i \div n \in Nat
         /\ i % n \in 0..(n - 1)
         /\ i = n * (i \div n) + (i % n)
         /\ 2 * (i \div n) <= i
<1>1. i \div n \in Nat /\ i % n \in 0..(n - 1) /\ i = n * (i \div n) + (i % n)
  OBVIOUS
<1>2. 2 * (i \div n) <= i
  BY <1>1
<1> QED
  BY <1>1, <1>2

(* A round earlier: the same slot.                                         *)
LEMMA DivModShift ==
  ASSUME NEW n \in Nat, n >= 2, NEW i \in Nat, i >= n
  PROVE  /\ i - n \in Nat
         /\ (i - n) % n = i % n
         /\ (i - n) \div n = (i \div n) - 1
  OBVIOUS

(* The access of a position is one of its slot's, a pop right after the    *)
(* push, and has a number no greater than the position and one.            *)
LEMMA NthType ==
  ASSUME NEW i \in Nat
  PROVE  /\ Slot(i) \in Slots
         /\ NthAccess("push", i) \in Nat
         /\ NthAccess("push", i) <= i
         /\ NthAccess("pop", i) = NthAccess("push", i) + 1
         /\ \A o \in Ops : NthAccess(o, i) \in Nat /\ NthAccess(o, i) <= i + 1
<1>1. i \div SlotCount \in Nat /\ 2 * (i \div SlotCount) <= i
  BY SlotCountType, DivMod
<1>2. Slot(i) \in Slots
  BY SlotCountType, DivMod DEF Slot, Slots
<1>3. /\ NthAccess("push", i) = (i \div SlotCount) * 2
      /\ NthAccess("pop", i) = (i \div SlotCount) * 2 + 1
  BY <1>1 DEF NthAccess
<1>4. /\ NthAccess("push", i) \in Nat /\ NthAccess("push", i) <= i
      /\ NthAccess("pop", i) \in Nat /\ NthAccess("pop", i) <= i + 1
      /\ NthAccess("pop", i) = NthAccess("push", i) + 1
  BY <1>1, <1>3
<1> QED
  BY <1>2, <1>4 DEF Ops

(* A slot and the number of an access determine the operation and the      *)
(* position.                                                               *)
LEMMA NthDiffers ==
  ASSUME NEW i \in Nat, NEW j \in Nat, NEW o \in Ops, NEW p \in Ops,
         Slot(i) = Slot(j), NthAccess(o, i) = NthAccess(p, j)
  PROVE  o = p /\ i = j
<1> DEFINE q == i \div SlotCount
           r == j \div SlotCount
<1>1. q \in Nat /\ r \in Nat
  BY SlotCountType, DivMod
<1>2. i = SlotCount * q + (i % SlotCount) /\ j = SlotCount * r + (j % SlotCount)
  BY SlotCountType, DivMod
<1>3. q * 2 + (IF o = "pop" THEN 1 ELSE 0) = r * 2 + (IF p = "pop" THEN 1 ELSE 0)
  BY DEF NthAccess
<1> HIDE DEF q, r
<1>4. q = r /\ o = p
  BY <1>1, <1>3 DEF Ops
<1> QED
  BY <1>2, <1>4 DEF Slot

(* Two pops of one slot are not next to each other.                        *)
LEMMA NthParity ==
  ASSUME NEW i \in Nat, NEW j \in Nat
  PROVE  NthAccess("pop", i) # NthAccess("pop", j) + 1
<1> DEFINE q == i \div SlotCount
           r == j \div SlotCount
<1>1. q \in Nat /\ r \in Nat
  BY SlotCountType, DivMod
<1> SUFFICES q * 2 + 1 # r * 2 + 1 + 1
  BY DEF NthAccess
<1> HIDE DEF q, r
<1> QED
  BY <1>1

(* The same slot a round earlier; in the first round a push comes first.   *)
LEMMA NthBefore ==
  ASSUME NEW i \in Nat
  PROVE  /\ i >= SlotCount =>
              /\ i - SlotCount \in Nat
              /\ Slot(i - SlotCount) = Slot(i)
              /\ \A o \in Ops : NthAccess(o, i - SlotCount) = NthAccess(o, i) - 2
         /\ i < SlotCount => NthAccess("push", i) = 0
<1>1. CASE i >= SlotCount
  <2>1. /\ i - SlotCount \in Nat
        /\ (i - SlotCount) % SlotCount = i % SlotCount
        /\ (i - SlotCount) \div SlotCount = (i \div SlotCount) - 1
    BY <1>1, SlotCountType, DivModShift
  <2>2. i \div SlotCount \in Nat
    BY SlotCountType, DivMod
  <2> QED
    BY <1>1, <2>1, <2>2, SlotCountType DEF Slot, NthAccess
<1>2. CASE i < SlotCount
  BY <1>2, SlotCountType DEF NthAccess
<1> QED
  BY <1>1, <1>2, SlotCountType
------------------------------------------------------------------------------
(* The limit is never met: every position and turn that occurs is an index *)
(* and is computed without wrapping around.                                *)
LEMMA BelowLimit ==
  ASSUME NoWrap, TypeOK, Counted
  PROVE  Len(put) \in Nat /\ Len(put) + 1 < IndexLimit
<1>1. Cardinality(Pending) \in Nat /\ Cardinality(Threads) \in Nat
  BY FS_Subset, FS_CardinalityType DEF NoWrap, Pending
<1>2. Len(put) \in Nat
  BY LenProperties DEF TypeOK
<1> QED
  BY <1>1, <1>2 DEF NoWrap, Counted

(* Below the limit nothing wraps: the turn a thread waits for is the       *)
(* number of its access.                                                   *)
LEMMA TurnExpected ==
  ASSUME NoWrap, TypeOK, Counted,
         NEW o \in Ops, NEW i \in Nat, i <= Len(put)
  PROVE  /\ i \in Indices
         /\ i + 1 \in Indices
         /\ (i + 1) % IndexLimit = i + 1
         /\ ExpectedTurn(o, i) = NthAccess(o, i)
         /\ i < Len(put) =>
              /\ NthAccess(o, i) + 1 \in Indices
              /\ (ExpectedTurn(o, i) + 1) % IndexLimit = NthAccess(o, i) + 1
<1>1. Len(put) \in Nat /\ Len(put) + 1 < IndexLimit
  BY BelowLimit
<1>2. NthAccess(o, i) \in Nat /\ NthAccess(o, i) <= i + 1
  BY NthType
<1>3. ExpectedTurn(o, i) = NthAccess(o, i) % IndexLimit
  BY DEF ExpectedTurn, NthAccess
<1>4. \A m \in Nat : m < IndexLimit => m % IndexLimit = m
  OBVIOUS
<1>5. i + 1 < IndexLimit /\ NthAccess(o, i) < IndexLimit
  BY <1>1, <1>2
<1>6. ExpectedTurn(o, i) = NthAccess(o, i) /\ (i + 1) % IndexLimit = i + 1
  <2>1. NthAccess(o, i) % IndexLimit = NthAccess(o, i)
    BY <1>2, <1>4, <1>5
  <2>2. (i + 1) % IndexLimit = i + 1
    BY <1>5
  <2> QED
    BY <2>1, <2>2, <1>3
<1>7. i \in Indices /\ i + 1 \in Indices
  BY <1>5 DEF Indices
<1>8. ASSUME i < Len(put)
      PROVE  /\ NthAccess(o, i) + 1 \in Indices
             /\ (ExpectedTurn(o, i) + 1) % IndexLimit = NthAccess(o, i) + 1
  <2>1. NthAccess(o, i) + 1 < IndexLimit /\ NthAccess(o, i) + 1 \in Nat
    BY <1>1, <1>2, <1>8
  <2>2. (NthAccess(o, i) + 1) % IndexLimit = NthAccess(o, i) + 1
    BY <2>1, <1>4
  <2> QED
    BY <2>1, <2>2, <1>6 DEF Indices
<1> QED
  BY <1>6, <1>7, <1>8

(* What a pop that has claimed its position holds was pushed there.        *)
LEMMA TurnType ==
  ASSUME TypeOK, NEW t \in Threads
  PROVE  /\ op[t] \in Ops
         /\ pos[t] \in Indices
         /\ pos[t] \in Nat
         /\ Slot(pos[t]) \in Slots
         /\ turn[Slot(pos[t])] \in Nat
         /\ NthAccess(op[t], pos[t]) \in Nat
<1>1. op[t] \in Ops /\ pos[t] \in Indices /\ pos[t] \in Nat
  BY DEF TypeOK, Indices
<1>2. Slot(pos[t]) \in Slots /\ NthAccess(op[t], pos[t]) \in Nat
  BY <1>1, NthType
<1> QED
  BY <1>1, <1>2 DEF TypeOK, Indices

(* Two threads that hold positions hold different slots.                   *)
LEMMA OwnersApart ==
  ASSUME TypeOK, OwnersTurn, OwnersDiffer
  PROVE  SlotHasOneOwner
<1> SUFFICES ASSUME NEW t \in Threads, NEW u \in Threads,
                    Owns(t), Owns(u), Slot(pos[t]) = Slot(pos[u])
             PROVE  t = u
  BY DEF SlotHasOneOwner
<1>1. NthAccess(op[t], pos[t]) = NthAccess(op[u], pos[u])
  BY DEF OwnersTurn
<1>2. op[t] = op[u] /\ pos[t] = pos[u]
  BY <1>1, NthDiffers, TurnType
<1> QED
  BY <1>2 DEF OwnersDiffer

(* A thread that does not claim, access or publish disturbs nobody: here   *)
(* it moves between states in which it holds no position.                  *)
LEMMA PrivateStep ==
  ASSUME TypeOK, Safe, NEW t \in Threads,
         ~Owns(t), ~Owns(t)',
         pc'[t] = "cas" => turn[Slot(pos'[t])] >= NthAccess(op'[t], pos'[t]),
         \A u \in Threads \ {t} :
           pc'[u] = pc[u] /\ op'[u] = op[u] /\ pos'[u] = pos[u] /\ arg'[u] = arg[u],
         turn' = turn, item' = item, put' = put, index'["pop"] = index["pop"]
  PROVE  Safe'
<1> USE DEF Safe
<1>1. \A u \in Threads :
        Owns(u)' => /\ u # t /\ Owns(u) /\ pc'[u] = pc[u]
                    /\ op'[u] = op[u] /\ pos'[u] = pos[u] /\ arg'[u] = arg[u]
  BY DEF Owns
<1>2. \A u \in Threads :
        Owns(u) => Owns(u)' /\ op'[u] = op[u] /\ pos'[u] = pos[u]
  BY DEF Owns
<1>3. \A o \in Ops : Claimed(o)' = Claimed(o)
  BY DEF Claimed
<1>4. OwnersTurn'
  BY <1>1, <1>3, TurnType DEF OwnersTurn
<1>5. OwnersDiffer'
  BY <1>1 DEF OwnersDiffer
<1>6. CasSawTurn'
  BY DEF CasSawTurn
<1>7. DoneWasClaimed'
  BY <1>3 DEF DoneWasClaimed
<1>8. ClaimedIsHeldOrDone'
  BY <1>2, <1>3 DEF ClaimedIsHeldOrDone
<1>9. Order'
  BY DEF Order
<1>10. Contents'
  <2>1. \A u \in Threads : pc'[u] = "publish" => pc[u] = "publish" /\ Owns(u)'
    BY <1>1 DEF Owns
  <2> QED
    BY <1>1, <2>1 DEF Contents
<1> QED
  BY <1>4, <1>5, <1>6, <1>7, <1>8, <1>9, <1>10

(* The next position of an operation is claimed by a thread that sees the  *)
(* turn of its slot.                                                       *)
LEMMA ClaimStep ==
  ASSUME TypeOK, Safe, NEW t \in Threads,
         ~Owns(t), pos[t] = Claimed(op[t]),
         turn[Slot(pos[t])] = NthAccess(op[t], pos[t]),
         op[t] = "push" => arg[t] \in Items,
         pc' = [pc EXCEPT ![t] = "access"],
         put' = IF op[t] = "push" THEN Append(put, arg[t]) ELSE put,
         index'["pop"] = IF op[t] = "pop" THEN pos[t] + 1 ELSE index["pop"],
         turn' = turn, item' = item, op' = op, pos' = pos, arg' = arg
  PROVE  Safe'
<1> USE DEF Safe
<1>1. /\ Len(put) \in Nat
      /\ Len(put') = Len(put) + (IF op[t] = "push" THEN 1 ELSE 0)
      /\ \A k \in 1..Len(put) : put'[k] = put[k]
      /\ op[t] = "push" => put'[Len(put) + 1] = arg[t]
  <2>1. CASE op[t] = "push"
    BY <2>1, AppendProperties, LenProperties DEF TypeOK
  <2>2. CASE op[t] # "push"
    BY <2>2, LenProperties DEF TypeOK
  <2> QED
    BY <2>1, <2>2
<1>2. index["pop"] \in Nat /\ op[t] \in Ops /\ pos[t] \in Nat /\ pos[t] \in Indices
  BY TurnType DEF TypeOK, Ops, Indices
<1>3. /\ Claimed(op[t])' = pos[t] + 1
      /\ \A o \in Ops : o # op[t] => Claimed(o)' = Claimed(o)
      /\ \A o \in Ops : Claimed(o) \in Nat
  BY <1>1, <1>2 DEF Claimed, Ops
<1>4. \A u \in Threads : Owns(u)' <=> (Owns(u) \/ u = t)
  BY DEF Owns, TypeOK
<1>5. OwnersTurn'
  <2> SUFFICES ASSUME NEW u \in Threads, Owns(u)'
               PROVE  /\ pos[u] < Claimed(op[u])'
                      /\ turn[Slot(pos[u])] = NthAccess(op[u], pos[u])
    BY DEF OwnersTurn
  <2>1. CASE u = t
    BY <2>1, <1>2, <1>3
  <2>2. CASE u # t
    <3>1. /\ pos[u] < Claimed(op[u])
          /\ turn[Slot(pos[u])] = NthAccess(op[u], pos[u])
      BY <2>2, <1>4 DEF OwnersTurn
    <3>2. op[u] \in Ops /\ pos[u] \in Nat
      BY TurnType
    <3> QED
      BY <3>1, <3>2, <1>2, <1>3
  <2> QED
    BY <2>1, <2>2
<1>6. OwnersDiffer'
  <2>1. ASSUME NEW u \in Threads, u # t, Owns(u), op[u] = op[t], pos[u] = pos[t]
        PROVE  FALSE
    BY <2>1, <1>2 DEF OwnersTurn
  <2> QED
    BY <2>1, <1>4 DEF OwnersDiffer
<1>7. CasSawTurn'
  BY DEF CasSawTurn, TypeOK
<1>8. DoneWasClaimed'
  <2> SUFFICES ASSUME NEW o \in Ops, NEW i \in Indices,
                      NthAccess(o, i) < turn[Slot(i)]
               PROVE  i < Claimed(o)'
    BY DEF DoneWasClaimed
  <2>1. i < Claimed(o) /\ i \in Nat
    BY DEF DoneWasClaimed, Indices
  <2> QED
    BY <2>1, <1>2, <1>3
<1>9. ClaimedIsHeldOrDone'
  <2> SUFFICES ASSUME NEW o \in Ops, NEW i \in Indices, i < Claimed(o)'
               PROVE  \/ turn[Slot(i)] > NthAccess(o, i)
                      \/ \E u \in Threads : Owns(u)' /\ op[u] = o /\ pos[u] = i
    BY DEF ClaimedIsHeldOrDone
  <2>1. CASE i < Claimed(o)
    BY <2>1, <1>4 DEF ClaimedIsHeldOrDone
  <2>2. CASE ~(i < Claimed(o))
    <3>1. i \in Nat
      BY DEF Indices
    <3>2. o = op[t] /\ i = pos[t]
      BY <2>2, <3>1, <1>2, <1>3
    <3> QED
      BY <3>2, <1>4
  <2> QED
    BY <2>1, <2>2
<1>10. Order'
  <2>1. CASE op[t] = "push"
    <3>1. pos[t] = Len(put)
      BY <2>1 DEF Claimed
    <3>2. CASE pos[t] < SlotCount
      BY <2>1, <3>1, <3>2, <1>1, <1>2, SlotCountType DEF Order
    <3>3. CASE pos[t] >= SlotCount
      <4> DEFINE j == pos[t] - SlotCount
      <4>1. /\ j \in Nat
            /\ Slot(j) = Slot(pos[t])
            /\ NthAccess("push", j) = NthAccess("push", pos[t]) - 2
        BY <3>3, <1>2, NthBefore DEF Ops
      <4>2. NthAccess("pop", j) = NthAccess("push", j) + 1
            /\ NthAccess("push", pos[t]) \in Nat
        BY <4>1, <1>2, NthType
      <4>3. j \in Indices
        BY <4>1, <1>2, SlotCountType DEF Indices
      <4>4. NthAccess("pop", j) < turn[Slot(j)]
        BY <4>1, <4>2, <2>1
      <4>5. j < index["pop"]
        BY <4>3, <4>4 DEF DoneWasClaimed, Ops, Claimed
      <4>6. index'["pop"] = index["pop"] /\ Len(put') = Len(put) + 1
        BY <2>1, <1>1
      <4>7. Len(put) - SlotCount < index["pop"]
        BY <4>5, <3>1
      <4> QED
        BY <4>6, <4>7, <1>1, <1>2, SlotCountType DEF Order
    <3> QED
      BY <3>2, <3>3, <1>2, SlotCountType
  <2>2. CASE op[t] = "pop"
    <3>1. pos[t] = index["pop"]
      BY <2>2 DEF Claimed
    <3>2. NthAccess("push", pos[t]) < turn[Slot(pos[t])]
      BY <2>2, <1>2, NthType
    <3>3. pos[t] < Len(put)
      BY <3>2, <1>2 DEF DoneWasClaimed, Claimed, Ops
    <3> QED
      BY <2>2, <3>1, <3>3, <1>1, <1>2, SlotCountType DEF Order
  <2> QED
    BY <2>1, <2>2, <1>2 DEF Ops
<1>11. Contents'
  <2>1. ASSUME NEW i \in Nat, i < Len(put)
        PROVE  put'[i + 1] = put[i + 1]
    BY <2>1, <1>1
  <2>2. ASSUME NEW u \in Threads, Owns(u)
        PROVE  put'[pos[u] + 1] = put[pos[u] + 1]
    <3>1. pos[u] < Claimed(op[u]) /\ pos[u] \in Nat /\ op[u] \in Ops
      BY <2>2, TurnType DEF OwnersTurn
    <3>2. pos[u] < Len(put)
      BY <3>1, <1>1, <1>2 DEF Claimed, Order
    <3> QED
      BY <3>1, <3>2, <2>1
  <2>3. ASSUME NEW i \in Indices, turn[Slot(i)] = NthAccess("pop", i)
        PROVE  item[Slot(i)] = put'[i + 1]
    <3>1. i \in Nat
      BY DEF Indices
    <3>2. NthAccess("push", i) < turn[Slot(i)]
      BY <2>3, <3>1, NthType
    <3>3. i < Len(put)
      BY <3>2 DEF DoneWasClaimed, Claimed, Ops
    <3> QED
      BY <2>3, <2>1, <3>1, <3>3 DEF Contents
  <2>4. ASSUME NEW u \in Threads, op[u] = "push", Owns(u)'
        PROVE  arg[u] = put'[pos[u] + 1]
    <3>1. CASE u = t
      BY <2>4, <3>1, <1>1 DEF Claimed
    <3>2. CASE u # t
      BY <2>4, <3>2, <2>2, <1>4 DEF Contents
    <3> QED
      BY <3>1, <3>2
  <2>5. ASSUME NEW u \in Threads, pc'[u] = "publish"
        PROVE  arg[u] = put'[pos[u] + 1] /\ (op[u] = "push" => item[Slot(pos[u])] = arg[u])
    <3>1. pc[u] = "publish" /\ Owns(u)
      BY <2>5 DEF Owns, TypeOK
    <3> QED
      BY <3>1, <2>2 DEF Contents
  <2> QED
    BY <2>3, <2>4, <2>5 DEF Contents
<1> QED
  BY <1>5, <1>6, <1>7, <1>8, <1>9, <1>10, <1>11

(* The item is written to the slot, or read from it: the slot's next       *)
(* access is that of its owner, so nobody else counts on its content.      *)
LEMMA AccessStep ==
  ASSUME TypeOK, Safe, NEW t \in Threads, Access(t)
  PROVE  Safe'
<1> USE DEF Safe
<1>1. /\ pc[t] = "access" /\ Owns(t)
      /\ pc' = [pc EXCEPT ![t] = "publish"]
      /\ index' = index /\ turn' = turn /\ op' = op /\ pos' = pos /\ put' = put
  BY DEF Access, Goto, Owns
<1>2. \A u \in Threads : Owns(u)' <=> Owns(u)
  BY <1>1 DEF Owns, TypeOK
<1>3. \A o \in Ops : Claimed(o)' = Claimed(o)
  BY <1>1 DEF Claimed
<1>4. OwnersTurn' /\ OwnersDiffer'
  BY <1>1, <1>2, <1>3, TurnType DEF OwnersTurn, OwnersDiffer
<1>5. CasSawTurn' /\ DoneWasClaimed' /\ ClaimedIsHeldOrDone' /\ Order'
  BY <1>1, <1>2, <1>3
     DEF CasSawTurn, DoneWasClaimed, ClaimedIsHeldOrDone, Order, TypeOK
<1>6. turn[Slot(pos[t])] = NthAccess(op[t], pos[t])
  BY <1>1 DEF OwnersTurn
<1>7. op[t] \in Ops /\ pos[t] \in Nat /\ pos[t] \in Indices /\ Slot(pos[t]) \in Slots
  BY TurnType
<1>8. \A u \in Threads : u # t /\ Owns(u) => Slot(pos[u]) # Slot(pos[t])
  BY <1>1, OwnersApart DEF SlotHasOneOwner
<1>9. Contents'
  <2>1. CASE op[t] = "push"
    <3>1. /\ item' = [item EXCEPT ![Slot(pos[t])] = arg[t]]
          /\ arg' = arg
      BY <2>1 DEF Access
    <3>2. ASSUME NEW i \in Indices, turn[Slot(i)] = NthAccess("pop", i)
          PROVE  item'[Slot(i)] = put[i + 1]
      <4>1. i \in Nat /\ Slot(i) \in Slots
        BY NthType DEF Indices
      <4>2. Slot(i) # Slot(pos[t])
        BY <3>2, <4>1, <2>1, <1>6, <1>7, NthDiffers DEF Ops
      <4> QED
        BY <3>1, <3>2, <4>1, <4>2 DEF Contents, TypeOK
    <3>3. ASSUME NEW u \in Threads, pc'[u] = "publish"
          PROVE  /\ arg'[u] = put[pos[u] + 1]
                 /\ op[u] = "push" => item'[Slot(pos[u])] = arg'[u]
      <4>1. CASE u = t
        BY <2>1, <3>1, <4>1, <1>1, <1>7 DEF Contents, TypeOK
      <4>2. CASE u # t
        <5>1. pc[u] = "publish" /\ Owns(u) /\ Slot(pos[u]) # Slot(pos[t])
          BY <3>3, <4>2, <1>1, <1>8 DEF Owns, TypeOK
        <5>2. Slot(pos[u]) \in Slots
          BY TurnType
        <5> QED
          BY <3>1, <5>1, <5>2 DEF Contents, TypeOK
      <4> QED
        BY <4>1, <4>2
    <3>4. \A u \in Threads : op[u] = "push" /\ Owns(u) => arg'[u] = put[pos[u] + 1]
      BY <3>1 DEF Contents
    <3> QED
      BY <1>1, <1>2, <3>2, <3>3, <3>4 DEF Contents
  <2>2. CASE op[t] = "pop"
    <3>1. /\ arg' = [arg EXCEPT ![t] = item[Slot(pos[t])]]
          /\ item' = item
      BY <2>2 DEF Access
    <3>2. item[Slot(pos[t])] = put[pos[t] + 1]
      BY <2>2, <1>6, <1>7 DEF Contents
    <3>3. \A u \in Threads : u # t => arg'[u] = arg[u]
      BY <3>1 DEF TypeOK
    <3>4. arg'[t] = put[pos[t] + 1]
      BY <3>1, <3>2 DEF TypeOK
    <3>5. \A u \in Threads : u # t /\ pc'[u] = "publish" => pc[u] = "publish"
      BY <1>1 DEF TypeOK
    <3>6. \A u \in Threads : pc'[u] = "publish" =>
            /\ arg'[u] = put[pos[u] + 1]
            /\ op[u] = "push" => item[Slot(pos[u])] = arg'[u]
      BY <2>2, <3>3, <3>4, <3>5 DEF Contents
    <3>7. \A u \in Threads : op[u] = "push" /\ Owns(u) => arg'[u] = put[pos[u] + 1]
      BY <2>2, <3>3 DEF Contents
    <3>8. \A j \in Indices :
            turn'[Slot(j)] = NthAccess("pop", j) => item'[Slot(j)] = put'[j + 1]
      BY <1>1, <3>1 DEF Contents
    <3> QED
      BY <1>1, <1>2, <3>1, <3>6, <3>7, <3>8 DEF Contents
  <2> QED
    BY <2>1, <2>2, <1>7 DEF Ops
<1> QED
  BY <1>4, <1>5, <1>9

(* The slot is handed on to the next access.  That is a push of the next   *)
(* round or the pop of the item that has just been written.                *)
LEMMA PublishStep ==
  ASSUME TypeOK, Safe, NEW t \in Threads, NEW to \in {"idle", "store"},
         pc[t] = "publish",
         pc' = [pc EXCEPT ![t] = to],
         turn' = [turn EXCEPT ![Slot(pos[t])] = NthAccess(op[t], pos[t]) + 1],
         \A u \in Threads \ {t} : pos'[u] = pos[u] /\ arg'[u] = arg[u],
         op' = op, index' = index, item' = item, put' = put
  PROVE  Safe'
<1> USE DEF Safe
<1> DEFINE s == Slot(pos[t])
           n == NthAccess(op[t], pos[t])
<1>1. Owns(t) /\ ~Owns(t)'
  BY DEF Owns, TypeOK
<1>2. \A u \in Threads :
        Owns(u)' => u # t /\ Owns(u) /\ pc'[u] = pc[u] /\ pos'[u] = pos[u] /\ arg'[u] = arg[u]
  BY <1>1 DEF Owns, TypeOK
<1>3. \A u \in Threads : u # t /\ Owns(u) => Owns(u)' /\ pos'[u] = pos[u]
  BY DEF Owns, TypeOK
<1>4. \A o \in Ops : Claimed(o)' = Claimed(o)
  BY DEF Claimed
<1>5. /\ op[t] \in Ops /\ pos[t] \in Nat /\ pos[t] \in Indices
      /\ s \in Slots /\ n \in Nat /\ turn[s] = n /\ pos[t] < Claimed(op[t])
  BY <1>1, TurnType DEF OwnersTurn
<1>6. \A r \in Slots : turn'[r] = IF r = s THEN n + 1 ELSE turn[r]
  BY DEF TypeOK
<1>7. \A u \in Threads : u # t /\ Owns(u) => Slot(pos[u]) # s
  BY <1>1, OwnersApart DEF SlotHasOneOwner
<1>8. \A i \in Indices : i \in Nat /\ Slot(i) \in Slots
  BY NthType DEF Indices
<1> HIDE DEF s, n
<1>9. OwnersTurn'
  BY <1>2, <1>4, <1>6, <1>7, TurnType DEF OwnersTurn
<1>10. OwnersDiffer'
  BY <1>2 DEF OwnersDiffer
<1>11. CasSawTurn'
  <2> SUFFICES ASSUME NEW u \in Threads, pc'[u] = "cas"
               PROVE  turn'[Slot(pos'[u])] >= NthAccess(op[u], pos'[u])
    BY DEF CasSawTurn
  <2>1. u # t /\ pc[u] = "cas" /\ pos'[u] = pos[u]
    BY DEF TypeOK
  <2>2. /\ turn[Slot(pos[u])] >= NthAccess(op[u], pos[u])
        /\ turn[Slot(pos[u])] \in Nat /\ Slot(pos[u]) \in Slots
        /\ NthAccess(op[u], pos[u]) \in Nat
    BY <2>1, TurnType DEF CasSawTurn
  <2> QED
    BY <2>1, <2>2, <1>5, <1>6
<1>12. DoneWasClaimed'
  <2> SUFFICES ASSUME NEW o \in Ops, NEW i \in Indices,
                      NthAccess(o, i) < turn'[Slot(i)]
               PROVE  i < Claimed(o)
    BY <1>4 DEF DoneWasClaimed
  <2>1. CASE Slot(i) # s \/ NthAccess(o, i) < turn[Slot(i)]
    BY <2>1, <1>6, <1>8 DEF DoneWasClaimed
  <2>2. CASE Slot(i) = s /\ ~(NthAccess(o, i) < turn[Slot(i)])
    <3>1. NthAccess(o, i) = n
      BY <2>2, <1>5, <1>6, <1>8, NthType
    <3>2. o = op[t] /\ i = pos[t]
      BY <2>2, <3>1, <1>5, <1>8, NthDiffers DEF s, n
    <3> QED
      BY <3>2, <1>5
  <2> QED
    BY <2>1, <2>2
<1>13. ClaimedIsHeldOrDone'
  <2> SUFFICES ASSUME NEW o \in Ops, NEW i \in Indices, i < Claimed(o)
               PROVE  \/ turn'[Slot(i)] > NthAccess(o, i)
                      \/ \E u \in Threads : Owns(u)' /\ op[u] = o /\ pos'[u] = i
    BY <1>4 DEF ClaimedIsHeldOrDone
  <2>1. CASE turn[Slot(i)] > NthAccess(o, i)
    BY <2>1, <1>5, <1>6, <1>8, NthType
  <2>2. ASSUME NEW u \in Threads, Owns(u), op[u] = o, pos[u] = i
        PROVE  \/ turn'[Slot(i)] > NthAccess(o, i)
               \/ \E v \in Threads : Owns(v)' /\ op[v] = o /\ pos'[v] = i
    <3>1. CASE u = t
      BY <2>2, <3>1, <1>5, <1>6 DEF s, n
    <3>2. CASE u # t
      BY <2>2, <3>2, <1>3
    <3> QED
      BY <3>1, <3>2
  <2> QED
    BY <2>1, <2>2 DEF ClaimedIsHeldOrDone
<1>14. Order'
  BY DEF Order
<1>15. Contents'
  <2>1. ASSUME NEW i \in Indices, turn'[Slot(i)] = NthAccess("pop", i)
        PROVE  item[Slot(i)] = put[i + 1]
    <3>1. CASE Slot(i) # s
      BY <2>1, <3>1, <1>6, <1>8 DEF Contents
    <3>2. CASE Slot(i) = s
      <4>1. NthAccess("pop", i) = n + 1
        BY <2>1, <3>2, <1>6, <1>8
      <4>2. op[t] # "pop"
        BY <4>1, <1>5, <1>8, NthParity DEF n
      <4>3. op[t] = "push"
        BY <4>2, <1>5 DEF Ops
      <4>4. NthAccess("push", i) = n
        <5>1. /\ NthAccess("push", i) \in Nat
              /\ NthAccess("pop", i) = NthAccess("push", i) + 1
          BY <1>8, NthType
        <5> QED
          BY <4>1, <5>1, <1>5
      <4>5. i = pos[t]
        BY <3>2, <4>3, <4>4, <1>5, <1>8, NthDiffers DEF s, n, Ops
      <4> QED
        BY <4>3, <4>5 DEF Contents
    <3> QED
      BY <3>1, <3>2
  <2>2. \A u \in Threads : pc'[u] = "publish" => pc[u] = "publish" /\ Owns(u)'
    BY <1>2 DEF Owns, TypeOK
  <2> QED
    BY <2>1, <2>2, <1>2 DEF Contents
<1> QED
  BY <1>9, <1>10, <1>11, <1>12, <1>13, <1>14, <1>15
------------------------------------------------------------------------------
(* An empty slot is told from a full one.                                  *)
LEMMA NoItemIsNone == NoItem \notin Items
  BY DEF NoItem, Items

(* A thread has pushed no more items than all of them together.            *)
LEMMA ClaimsType ==
  ASSUME TypeOK, NEW t \in Threads
  PROVE  Claims(t) \in Nat /\ Claims(t) <= Len(put)
<1>1. Len(put) \in Nat
  BY LenProperties DEF TypeOK
<1>2. IsFiniteSet(1..Len(put)) /\ Cardinality(1..Len(put)) = Len(put)
  BY <1>1, FS_Interval
<1>3. {n \in 1..Len(put) : put[n].from = t} \subseteq 1..Len(put)
  OBVIOUS
<1> QED
  BY <1>1, <1>2, <1>3, FS_Subset, FS_CardinalityType DEF Claims

(* The bound on the positions that pushes claim.                           *)
LEMMA CountedStep ==
  ASSUME NoWrap, TypeOK, Counted, put' = put,
         Pending' \subseteq Pending \/ Len(put) < MaxPushes
  PROVE  Counted'
<1> DEFINE n == Cardinality(Threads)
           c == Cardinality(Pending)
           d == Cardinality(Pending')
<1>1. IsFiniteSet(Threads) /\ Pending \subseteq Threads /\ Pending' \subseteq Threads
  BY DEF NoWrap, Pending
<1>2. IsFiniteSet(Pending) /\ n \in Nat /\ c \in Nat
  BY <1>1, FS_Subset, FS_CardinalityType
<1>3. Len(put) \in Nat /\ Len(put') = Len(put)
  BY LenProperties DEF TypeOK
<1>4. CASE Pending' \subseteq Pending
  <2>1. d \in Nat /\ d <= c
    BY <1>2, <1>4, FS_Subset, FS_CardinalityType
  <2>2. Len(put) + c <= MaxPushes + n
    BY DEF Counted
  <2> HIDE DEF n, c, d
  <2>3. Len(put) + d <= MaxPushes + n
    BY <2>1, <2>2, <1>2, <1>3
  <2> QED
    BY <2>3, <1>3 DEF Counted, n, d
<1>5. CASE Len(put) < MaxPushes
  <2>1. d \in Nat /\ d <= n
    BY <1>1, FS_Subset, FS_CardinalityType
  <2> HIDE DEF n, c, d
  <2>2. Len(put) + d <= MaxPushes + n
    BY <2>1, <1>2, <1>3, <1>5
  <2> QED
    BY <2>2, <1>3 DEF Counted, n, d
<1> QED
  BY <1>4, <1>5

(* A push that claims its position is no longer one of those that may.     *)
LEMMA CountedClaim ==
  ASSUME NoWrap, TypeOK, Counted, NEW t \in Pending,
         Pending' = Pending \ {t}, put' = Append(put, arg[t])
  PROVE  Counted'
<1> DEFINE n == Cardinality(Threads)
           c == Cardinality(Pending)
           d == Cardinality(Pending')
<1>1. t \in Threads /\ op[t] = "push" /\ pc[t] # "idle"
  BY DEF Pending
<1>2. IsFiniteSet(Pending) /\ n \in Nat /\ c \in Nat
  BY FS_Subset, FS_CardinalityType DEF NoWrap, Pending
<1>3. d = c - 1 /\ d \in Nat
  BY <1>2, FS_RemoveElement, FS_CardinalityType
<1>4. Len(put) \in Nat /\ Len(put') = Len(put) + 1
  BY <1>1, LenProperties, AppendProperties DEF TypeOK
<1>5. Len(put) + c <= MaxPushes + n
  BY DEF Counted
<1> HIDE DEF n, c, d
<1>6. Len(put') + d <= MaxPushes + n
  BY <1>2, <1>3, <1>4, <1>5
<1> QED
  BY <1>6 DEF Counted, n, d
------------------------------------------------------------------------------
\* What holds of both queues.
Base ==
  /\ TypeOK
  /\ Safe
  /\ Counted
  /\ PositionsLag

(* At first no slot was accessed.                                          *)
LEMMA InitBase ==
  ASSUME NoWrap, Init
  PROVE  Base
<1>1. TypeOK
  BY NoItemIsNone DEF Init, TypeOK, Ops, Indices
<1>2. Len(put) = 0
  BY DEF Init
<1>3. \A t \in Threads : ~Owns(t) /\ pc[t] = "idle"
  BY DEF Init, Owns
<1>4. \A o \in Ops : Claimed(o) = 0
  BY <1>2 DEF Init, Claimed, Ops
<1>5. \A i \in Indices : i \in Nat /\ Slot(i) \in Slots /\ turn[Slot(i)] = 0
  BY NthType DEF Init, Indices
<1>6. Safe
  <2>1. OwnersTurn /\ OwnersDiffer /\ CasSawTurn
    BY <1>3 DEF OwnersTurn, OwnersDiffer, CasSawTurn
  <2>2. DoneWasClaimed
    BY <1>5, NthType DEF DoneWasClaimed
  <2>3. ClaimedIsHeldOrDone
    BY <1>4, <1>5 DEF ClaimedIsHeldOrDone
  <2>4. Order
    BY <1>2, SlotCountType DEF Order, Init, Ops
  <2>5. Contents
    <3>1. \A i \in Indices : turn[Slot(i)] # NthAccess("pop", i)
      BY <1>5, NthType
    <3> QED
      BY <3>1, <1>3 DEF Contents
  <2> QED
    BY <2>1, <2>2, <2>3, <2>4, <2>5 DEF Safe
<1>7. Counted
  <2>1. Pending = {}
    BY <1>3 DEF Pending
  <2>2. Cardinality(Pending) = 0 /\ Cardinality(Threads) \in Nat
    BY <2>1, FS_EmptySet, FS_CardinalityType DEF NoWrap
  <2> QED
    BY <1>2, <2>2 DEF Counted
<1>8. PositionsLag
  BY <1>2 DEF PositionsLag, Init, Ops
<1> QED
  BY <1>1, <1>6, <1>7, <1>8 DEF Base

(* Calling claims nothing.                                                 *)
LEMMA CallBase ==
  ASSUME NoWrap, Base, NEW t \in Threads, NEW o \in Ops, Call(t, o)
  PROVE  Base'
<1> USE DEF Base
<1>1. /\ Claims(t) \in Nat
      /\ [from |-> t, seq |-> Claims(t) + 1] \in Items
  BY ClaimsType DEF Items
<1>2. TypeOK'
  BY <1>1, NoItemIsNone DEF Call, Goto, TypeOK
<1>3. /\ pc[t] = "idle" /\ pc'[t] = "turn"
      /\ \A u \in Threads \ {t} :
           pc'[u] = pc[u] /\ op'[u] = op[u] /\ pos'[u] = pos[u] /\ arg'[u] = arg[u]
      /\ turn' = turn /\ item' = item /\ put' = put /\ index' = index
  BY DEF Call, Goto, TypeOK
<1>4. Safe'
  BY <1>3, PrivateStep DEF Owns
<1>5. Counted'
  <2>1. CASE o = "push"
    BY <2>1, <1>3, CountedStep DEF Call
  <2>2. CASE o = "pop"
    <3>1. Pending' \subseteq Pending
      BY <2>2, <1>3 DEF Call, TypeOK, Pending
    <3> QED
      BY <3>1, <1>3, CountedStep
  <2> QED
    BY <2>1, <2>2 DEF Ops
<1>6. PositionsLag'
  BY DEF Call, TypeOK, PositionsLag, Safe, Order, Ops
<1> QED
  BY <1>2, <1>4, <1>5, <1>6

(* A thread that has only read a turn owns nothing.                        *)
LEMMA LoadTurnBase ==
  ASSUME NoWrap, Base, NEW t \in Threads, LoadTurn(t)
  PROVE  Base'
<1> USE DEF Base
<1>1. TypeOK'
  BY DEF LoadTurn, Goto, TypeOK
<1>2. /\ pc[t] = "turn" /\ pc'[t] \in {"cas", "recheck"}
      /\ pc'[t] = "cas" => turn[Slot(pos[t])] = ExpectedTurn(op[t], pos[t])
      /\ \A u \in Threads \ {t} : pc'[u] = pc[u]
      /\ turn' = turn /\ item' = item /\ put' = put /\ index' = index
      /\ op' = op /\ pos' = pos /\ arg' = arg
  BY DEF LoadTurn, Goto, MyTurn, TypeOK
<1>3. /\ ExpectedTurn(op[t], pos[t]) = NthAccess(op[t], pos[t])
      /\ NthAccess(op[t], pos[t]) \in Nat
  BY TurnExpected, TurnType DEF PositionsLag
<1>4. pc'[t] = "cas" => turn[Slot(pos'[t])] >= NthAccess(op'[t], pos'[t])
  BY <1>2, <1>3
<1>5. Safe'
  BY <1>2, <1>4, PrivateStep DEF Owns
<1>6. Pending' \subseteq Pending
  BY <1>2 DEF Pending, TypeOK
<1> QED
  BY <1>1, <1>2, <1>5, <1>6, CountedStep DEF PositionsLag

\* The compare-exchange fails, or the index is found to have moved.
LEMMA ReloadBase ==
  ASSUME NoWrap, Base, NEW t \in Threads, CasFails(t) \/ Retry(t)
  PROVE  Base'
<1> USE DEF Base
<1>1. /\ pc[t] \in {"cas", "recheck"}
      /\ pos' = [pos EXCEPT ![t] = index[op[t]]]
      /\ pc' = [pc EXCEPT ![t] = "turn"]
      /\ turn' = turn /\ item' = item /\ put' = put /\ index' = index
      /\ op' = op /\ arg' = arg
  BY DEF CasFails, Retry, Goto
<1>2. TypeOK'
  BY <1>1 DEF TypeOK
<1>3. Safe'
  BY <1>1, PrivateStep DEF Owns, TypeOK
<1>4. Counted'
  <2>1. Pending' \subseteq Pending
    BY <1>1 DEF Pending, TypeOK
  <2> QED
    BY <2>1, <1>1, CountedStep
<1>5. PositionsLag'
  BY <1>1 DEF TypeOK, PositionsLag, Safe, Order, Ops
<1> QED
  BY <1>2, <1>3, <1>4, <1>5

\* A call that holds no position returns, and may have moved its own index.
LEMMA ReturnBase ==
  ASSUME NoWrap, Base, NEW t \in Threads, Return(t), ~Owns(t), pc[t] # "idle",
         index' \in [Ops -> Indices], index'["pop"] = index["pop"],
         index'["push"] <= Len(put),
         UNCHANGED <<turn, item, op, put>>
  PROVE  Base'
<1> USE DEF Base
<1>1. /\ pos' = [pos EXCEPT ![t] = 0] /\ arg' = [arg EXCEPT ![t] = NoItem]
      /\ pc' = [pc EXCEPT ![t] = "idle"]
      /\ turn' = turn /\ item' = item /\ put' = put /\ op' = op
  BY DEF Return, Goto
<1>2. TypeOK'
  BY <1>1, NoItemIsNone DEF TypeOK, Indices
<1>3. Safe'
  BY <1>1, PrivateStep DEF Owns, TypeOK
<1>4. Counted'
  <2>1. Pending' \subseteq Pending
    BY <1>1 DEF Pending, TypeOK
  <2> QED
    BY <2>1, <1>1, CountedStep
<1>5. PositionsLag'
  <2>1. Len(put) \in Nat
    BY LenProperties DEF TypeOK
  <2> QED
    BY <2>1, <1>1 DEF TypeOK, PositionsLag
<1> QED
  BY <1>2, <1>3, <1>4, <1>5

(* A call that fails leaves the queue alone.                               *)
LEMMA FailBase ==
  ASSUME NoWrap, Base, NEW t \in Threads, Fail(t)
  PROVE  Base'
<1>1. /\ Return(t) /\ pc[t] = "recheck" /\ index' = index
      /\ UNCHANGED <<turn, item, op, put>>
  BY DEF Fail
<1> QED
  BY <1>1, ReturnBase DEF Base, TypeOK, PositionsLag, Owns

(* An owner accesses its slot, which nobody else owns.                     *)
LEMMA AccessBase ==
  ASSUME NoWrap, Base, NEW t \in Threads, Access(t)
  PROVE  Base'
<1> USE DEF Base
<1>1. /\ pc[t] = "access" /\ Owns(t)
      /\ pc' = [pc EXCEPT ![t] = "publish"]
      /\ index' = index /\ turn' = turn /\ op' = op /\ pos' = pos /\ put' = put
  BY DEF Access, Goto, Owns
<1>2. /\ op[t] \in Ops /\ pos[t] \in Nat /\ pos[t] \in Indices
      /\ Slot(pos[t]) \in Slots
  BY TurnType
<1>3. TypeOK'
  <2>1. CASE op[t] = "push"
    <3>1. item' = [item EXCEPT ![Slot(pos[t])] = arg[t]] /\ arg' = arg
      BY <2>1 DEF Access
    <3> QED
      BY <2>1, <3>1, <1>1, <1>2 DEF TypeOK
  <2>2. CASE op[t] = "pop"
    <3>1. arg' = [arg EXCEPT ![t] = item[Slot(pos[t])]] /\ item' = item
      BY <2>2 DEF Access
    <3>2. pos[t] < Len(put) /\ turn[Slot(pos[t])] = NthAccess("pop", pos[t])
      BY <2>2, <1>1, <1>2, LenProperties
         DEF Safe, OwnersTurn, Order, Claimed, TypeOK, Ops, Indices
    <3>3. item[Slot(pos[t])] = put[pos[t] + 1]
      BY <3>2, <1>2 DEF Safe, Contents
    <3>4. item[Slot(pos[t])] \in Items
      BY <3>2, <3>3, <1>2, ElementOfSeq, LenProperties DEF TypeOK
    <3> QED
      BY <2>2, <3>1, <3>4, <1>1, <1>2 DEF TypeOK
  <2> QED
    BY <2>1, <2>2, <1>2 DEF Ops
<1>4. Safe'
  BY AccessStep
<1>5. Counted'
  <2>1. Pending' \subseteq Pending
    BY <1>1 DEF Pending, TypeOK
  <2> QED
    BY <2>1, <1>1, CountedStep
<1>6. PositionsLag'
  BY <1>1 DEF PositionsLag
<1> QED
  BY <1>3, <1>4, <1>5, <1>6

\* The new value of the turn is the number of the next access.
LEMMA NextTurn ==
  ASSUME NoWrap, Base, NEW t \in Threads, Owns(t)
  PROVE  /\ (ExpectedTurn(op[t], pos[t]) + 1) % IndexLimit = NthAccess(op[t], pos[t]) + 1
         /\ NthAccess(op[t], pos[t]) + 1 \in Indices
<1>1. pos[t] < Len(put)
  <2>1. pos[t] < Claimed(op[t]) /\ op[t] \in Ops /\ pos[t] \in Nat
    BY TurnType DEF Base, Safe, OwnersTurn
  <2>2. index["pop"] \in Nat /\ Len(put) \in Nat /\ index["pop"] <= Len(put)
    BY LenProperties DEF Base, Safe, Order, TypeOK, Ops, Indices
  <2> QED
    BY <2>1, <2>2 DEF Claimed, Ops
<1>2. op[t] \in Ops /\ pos[t] \in Nat /\ Len(put) \in Nat
  BY TurnType, LenProperties DEF Base, TypeOK
<1> QED
  BY <1>1, <1>2, TurnExpected DEF Base

(* An owner hands its slot on to the next access.                          *)
LEMMA PublishBase ==
  ASSUME NoWrap, Base, NEW t \in Threads, Publish(t)
  PROVE  Base'
<1> USE DEF Base
<1>1. /\ pc[t] = "publish" /\ Owns(t)
      /\ pc' = [pc EXCEPT ![t] = "idle"]
      /\ pos' = [pos EXCEPT ![t] = 0] /\ arg' = [arg EXCEPT ![t] = NoItem]
      /\ index' = index /\ item' = item /\ op' = op /\ put' = put
  BY DEF Publish, Return, Goto, Owns
<1>2. turn' = [turn EXCEPT ![Slot(pos[t])] = NthAccess(op[t], pos[t]) + 1]
  BY <1>1, NextTurn DEF Publish
<1>3. TypeOK'
  <2>1. turn' \in [Slots -> Indices]
    BY <1>1, <1>2, NextTurn DEF TypeOK
  <2> QED
    BY <1>1, <2>1, NoItemIsNone DEF TypeOK, Indices
<1>4. Safe'
  BY <1>1, <1>2, PublishStep DEF TypeOK
<1>5. Counted'
  <2>1. Pending' \subseteq Pending
    BY <1>1 DEF Pending, TypeOK
  <2> QED
    BY <2>1, <1>1, CountedStep
<1>6. PositionsLag'
  <2>1. Len(put) \in Nat
    BY LenProperties DEF TypeOK
  <2> QED
    BY <2>1, <1>1 DEF TypeOK, PositionsLag
<1> QED
  BY <1>3, <1>4, <1>5, <1>6

\* A thread that is about to claim the next position finds its turn come.
LEMMA TurnHasCome ==
  ASSUME Base, NEW t \in Threads, pc[t] = "cas", pos[t] = Claimed(op[t])
  PROVE  turn[Slot(pos[t])] = NthAccess(op[t], pos[t])
<1>1. /\ turn[Slot(pos[t])] >= NthAccess(op[t], pos[t])
      /\ turn[Slot(pos[t])] \in Nat /\ NthAccess(op[t], pos[t]) \in Nat
      /\ op[t] \in Ops /\ pos[t] \in Indices /\ pos[t] \in Nat
  BY TurnType DEF Base, Safe, CasSawTurn
<1>2. ~(NthAccess(op[t], pos[t]) < turn[Slot(pos[t])])
  BY <1>1 DEF Base, Safe, DoneWasClaimed
<1> QED
  BY <1>1, <1>2

(* Both ways to claim a position: the compare-exchange, after which the    *)
(* index has moved, and spmc's push, which moves its index later.          *)
LEMMA ClaimBase ==
  ASSUME NoWrap, Base, NEW t \in Threads,
         pc[t] \in {"turn", "cas"}, pos[t] = Claimed(op[t]),
         turn[Slot(pos[t])] = NthAccess(op[t], pos[t]),
         index' = [index EXCEPT ![op[t]] = pos[t] + 1]
           \/ (op[t] = "push" /\ index' = index),
         pc' = [pc EXCEPT ![t] = "access"],
         put' = IF op[t] = "push" THEN Append(put, arg[t]) ELSE put,
         turn' = turn, item' = item, op' = op, pos' = pos, arg' = arg
  PROVE  Base'
<1> USE DEF Base
<1>1. op[t] \in Ops /\ pos[t] \in Nat /\ pos[t] <= Len(put) /\ pos[t] + 1 \in Indices
  BY TurnType, TurnExpected DEF PositionsLag
<1>2. Len(put) \in Nat
  BY LenProperties DEF TypeOK
<1>3. op[t] = "push" => arg[t] \in Items
  BY DEF TypeOK
<1>4. put' \in Seq(Items) /\ Len(put') = Len(put) + (IF op[t] = "push" THEN 1 ELSE 0)
  <2>1. CASE op[t] = "push"
    BY <2>1, <1>2, <1>3, AppendProperties DEF TypeOK
  <2>2. CASE op[t] # "push"
    BY <2>2, <1>2 DEF TypeOK
  <2> QED
    BY <2>1, <2>2
<1>5. TypeOK'
  <2>1. index' \in [Ops -> Indices]
    BY <1>1 DEF TypeOK
  <2> QED
    BY <2>1, <1>4 DEF TypeOK
<1>6. Safe'
  <2>1. index'["pop"] = IF op[t] = "pop" THEN pos[t] + 1 ELSE index["pop"]
    BY <1>1 DEF TypeOK, Ops
  <2> QED
    BY <2>1, <1>3, ClaimStep DEF Owns
<1>7. Counted'
  <2>1. CASE op[t] = "push"
    <3>1. t \in Pending /\ Pending' = Pending \ {t}
      BY <2>1 DEF Pending, TypeOK
    <3> QED
      BY <2>1, <3>1, CountedClaim
  <2>2. CASE op[t] # "push"
    <3>1. Pending' \subseteq Pending
      BY <2>2 DEF Pending, TypeOK
    <3> QED
      BY <2>2, <3>1, CountedStep
  <2> QED
    BY <2>1, <2>2
<1>8. PositionsLag'
  <2>1. \A u \in Threads : pos'[u] <= Len(put')
    BY <1>2, <1>4, TurnType DEF PositionsLag
  <2>2. index'["push"] <= Len(put')
    <3>1. CASE op[t] = "push"
      <4>1. pos[t] = Len(put) /\ index["push"] <= Len(put) /\ index["push"] \in Nat
        BY <3>1 DEF Claimed, PositionsLag, TypeOK, Ops, Indices
      <4>2. index'["push"] = pos[t] + 1 \/ index'["push"] = index["push"]
        BY <3>1 DEF TypeOK, Ops
      <4> QED
        BY <3>1, <4>1, <4>2, <1>2, <1>4
    <3>2. CASE op[t] # "push"
      BY <3>2, <1>1, <1>4 DEF PositionsLag, TypeOK, Ops
    <3> QED
      BY <3>1, <3>2
  <2> QED
    BY <2>1, <2>2 DEF PositionsLag
<1> QED
  BY <1>5, <1>6, <1>7, <1>8

(* A compare-exchange that succeeds makes an owner.                        *)
LEMMA CasBase ==
  ASSUME NoWrap, Base, NEW t \in Threads, Cas(t),
         op[t] = "push" => index["push"] = Len(put)
  PROVE  Base'
<1>1. /\ pc[t] = "cas" /\ pos[t] = index[op[t]]
      /\ index' = [index EXCEPT ![op[t]] = (pos[t] + 1) % IndexLimit]
      /\ pc' = [pc EXCEPT ![t] = "access"]
      /\ put' = IF op[t] = "push" THEN Append(put, arg[t]) ELSE put
      /\ turn' = turn /\ item' = item /\ op' = op /\ pos' = pos /\ arg' = arg
  BY DEF Cas, Goto
<1>2. op[t] \in Ops /\ pos[t] \in Nat
  BY TurnType DEF Base
<1>3. pos[t] = Claimed(op[t])
  BY <1>1, <1>2 DEF Claimed, Ops
<1>4. (pos[t] + 1) % IndexLimit = pos[t] + 1
  BY <1>2, TurnExpected DEF Base, PositionsLag
<1> QED
  BY <1>1, <1>3, <1>4, TurnHasCome, ClaimBase

(* Where nothing changes, all stays.                                       *)
LEMMA StutterBase == Base /\ UNCHANGED vars => Base'
<1> SUFFICES ASSUME Base, UNCHANGED vars PROVE Base'
  OBVIOUS
<1>1. /\ index' = index /\ turn' = turn /\ item' = item /\ pc' = pc
      /\ op' = op /\ pos' = pos /\ arg' = arg /\ put' = put
  BY DEF vars
<1>2. TypeOK' /\ PositionsLag'
  BY <1>1 DEF Base, TypeOK, PositionsLag
<1>3. Safe'
  BY <1>1 DEF Base, Safe, OwnersTurn, OwnersDiffer, CasSawTurn, DoneWasClaimed,
              ClaimedIsHeldOrDone, Order, Contents, Claimed, Owns
<1>4. Counted'
  BY <1>1 DEF Base, Counted, Pending
<1> QED
  BY <1>2, <1>3, <1>4 DEF Base

(* What Base says of the properties the runs check.                        *)
LEMMA BaseImplies == Base => TypeOK /\ SlotHasOneOwner /\ PopGetsItsItem
<1> SUFFICES ASSUME Base PROVE SlotHasOneOwner /\ PopGetsItsItem
  BY DEF Base
<1>1. SlotHasOneOwner
  BY OwnersApart DEF Base, Safe
<1>2. ASSUME NEW t \in Threads, op[t] = "pop", pc[t] = "publish"
      PROVE  pos[t] < Len(put) /\ arg[t] = put[pos[t] + 1]
  <2>1. pos[t] < index["pop"] /\ pos[t] \in Nat
    BY <1>2, TurnType DEF Base, Safe, OwnersTurn, Owns, Claimed
  <2>2. index["pop"] \in Nat /\ Len(put) \in Nat /\ index["pop"] <= Len(put)
    BY LenProperties DEF Base, Safe, Order, TypeOK, Ops, Indices
  <2>3. arg[t] = put[pos[t] + 1]
    BY <1>2 DEF Base, Safe, Contents
  <2> QED
    BY <2>1, <2>2, <2>3
<1> QED
  BY <1>1, <1>2 DEF PopGetsItsItem
------------------------------------------------------------------------------
\* The bound on the pushes is one on the numbers of their items.
ArgsNumbered ==
  \A t \in Threads : op[t] = "push" /\ pc[t] # "idle" =>
    arg[t] \in [from : Threads, seq : 1..MaxPushes]

(* At first nobody pushes anything.                                        *)
LEMMA InitArgs == Init => ArgsNumbered
  BY DEF Init, ArgsNumbered

(* A push is called with the next item of its thread.                      *)
LEMMA CallArgs ==
  ASSUME TypeOK, ArgsNumbered, NEW t \in Threads, NEW o \in Ops, Call(t, o)
  PROVE  ArgsNumbered'
<1>1. Claims(t) \in Nat /\ Claims(t) <= Len(put) /\ Len(put) \in Nat
  BY ClaimsType, LenProperties DEF TypeOK
<1>2. o = "push" => Claims(t) + 1 \in 1..MaxPushes
  BY <1>1 DEF Call
<1>3. op'[t] = "push" => arg'[t] \in [from : Threads, seq : 1..MaxPushes]
  BY <1>2 DEF Call, TypeOK
<1>4. \A u \in Threads \ {t} : pc'[u] = pc[u] /\ op'[u] = op[u] /\ arg'[u] = arg[u]
  BY DEF Call, Goto, TypeOK
<1> QED
  BY <1>3, <1>4 DEF ArgsNumbered

(* A push keeps its item.                                                  *)
LEMMA StepArgs ==
  ASSUME TypeOK, ArgsNumbered, NEW t \in Threads, Step(t)
  PROVE  ArgsNumbered'
<1>1. /\ op' = op /\ pc[t] # "idle"
      /\ \A u \in Threads \ {t} : pc'[u] = pc[u] /\ arg'[u] = arg[u]
      /\ op[t] = "push" => arg'[t] = arg[t] \/ pc'[t] = "idle"
  BY DEF Step, LoadTurn, Cas, CasFails, Access, Publish, Retry, Fail, Return, Goto,
         TypeOK
<1> QED
  BY <1>1 DEF ArgsNumbered
------------------------------------------------------------------------------
(* The number of items in the queue is computed without wrapping around.   *)
LEMMA OccupiedIs ==
  ASSUME NoWrap, Base
  PROVE  /\ Len(put) \in Nat /\ index["pop"] \in Nat
         /\ Occupied = Len(put) - index["pop"]
         /\ Occupied \in 0..SlotCount
<1>1. /\ Len(put) \in Nat /\ index["pop"] \in Nat
      /\ index["pop"] <= Len(put) /\ Len(put) <= index["pop"] + SlotCount
      /\ Len(put) < IndexLimit
  BY BelowLimit DEF Base, Safe, Order, TypeOK, Ops, Indices
<1>2. Len(put) - index["pop"] \in 0..(IndexLimit - 1)
  BY <1>1
<1>3. (Len(put) - index["pop"]) % IndexLimit = Len(put) - index["pop"]
  BY <1>2
<1>4. Occupied = Len(put) - index["pop"]
  BY <1>3 DEF Occupied
<1> QED
  BY <1>1, <1>4, SlotCountType

(* The position a thread would claim next belongs to a slot whose turn has *)
(* not come: then the queue is full, or empty, or a thread of the other    *)
(* kind holds the slot.                                                    *)
LEMMA BlockedWhenNotMyTurn ==
  ASSUME NoWrap, Base, NEW t \in Threads,
         op[t] = "push" => index["push"] = Len(put),
         pos[t] = index[op[t]], ~MyTurn(t)
  PROVE  \/ op[t] = "push" /\ Occupied = SlotCount
         \/ op[t] = "pop" /\ Occupied = 0
         \/ NextIsHeld(op[t])
<1> USE DEF Base, Safe
<1> DEFINE i == pos[t]
           s == Slot(i)
           j == i - SlotCount
<1>1. /\ op[t] \in Ops /\ i \in Nat /\ i \in Indices /\ s \in Slots
      /\ turn[s] \in Nat /\ i = Claimed(op[t]) /\ i <= Len(put)
  BY TurnType DEF Claimed, PositionsLag, Ops
<1>2. turn[s] # NthAccess(op[t], i)
  BY <1>1, TurnExpected DEF MyTurn
<1>3. /\ Len(put) \in Nat /\ index["pop"] \in Nat
      /\ Occupied = Len(put) - index["pop"]
      /\ Occupied \in 0..SlotCount
  BY OccupiedIs
<1>4. NthAccess(op[t], i) \in Nat /\ ~(NthAccess(op[t], i) < turn[s])
  BY <1>1, TurnType DEF DoneWasClaimed
<1>5. turn[s] < NthAccess(op[t], i)
  BY <1>1, <1>2, <1>4
<1>6. \A u \in Threads : Owns(u) => turn[Slot(pos[u])] = NthAccess(op[u], pos[u])
  BY DEF OwnersTurn
<1>7. NthAccess("push", i) \in Nat /\ NthAccess("pop", i) = NthAccess("push", i) + 1
  BY <1>1, NthType
<1> HIDE DEF i, s, j
<1>8. CASE op[t] = "pop"
  <2>1. ~(turn[s] > NthAccess("push", i)) /\ i = index["pop"]
    BY <1>1, <1>5, <1>7, <1>8 DEF Claimed
  <2>2. CASE i < Len(put)
    <3>1. PICK u \in Threads : Owns(u) /\ op[u] = "push" /\ pos[u] = i
      BY <2>1, <2>2, <1>1 DEF ClaimedIsHeldOrDone, Claimed, Ops, s
    <3> QED
      BY <3>1, <2>1, <1>8 DEF NextIsHeld
  <2>3. CASE ~(i < Len(put))
    <3>1. Len(put) = index["pop"]
      BY <2>1, <2>3, <1>1, <1>3
    <3> QED
      BY <3>1, <1>3, <1>8
  <2> QED
    BY <2>2, <2>3
<1>9. CASE op[t] = "push"
  <2>1. i = Len(put) /\ index["push"] = i
    BY <1>1, <1>9 DEF Claimed
  <2>2. i >= SlotCount
    BY <1>1, <1>5, <1>9, NthBefore, SlotCountType
  <2>3. /\ j \in Nat /\ j \in Indices /\ Slot(j) = s
        /\ NthAccess("push", j) = NthAccess("push", i) - 2
        /\ NthAccess("pop", j) = NthAccess("push", i) - 1
    <3>1. /\ j \in Nat /\ Slot(j) = s
          /\ NthAccess("push", j) = NthAccess("push", i) - 2
      BY <2>2, <1>1, NthBefore DEF s, j, Ops
    <3>2. NthAccess("pop", j) = NthAccess("push", j) + 1
      BY <3>1, NthType
    <3>3. j \in Indices
      BY <3>1, <1>1, SlotCountType DEF Indices, j
    <3> QED
      BY <3>1, <3>2, <3>3, <1>7
  <2>4. ~(turn[s] > NthAccess("pop", j))
    BY <2>3, <1>1, <1>5, <1>7, <1>9
  <2>5. CASE j < index["pop"]
    <3>1. PICK u \in Threads : Owns(u) /\ op[u] = "pop" /\ pos[u] = j
      BY <2>3, <2>4, <2>5 DEF ClaimedIsHeldOrDone, Claimed, Ops
    <3> QED
      BY <3>1, <2>1, <2>3, <1>9 DEF NextIsHeld, s
  <2>6. CASE ~(j < index["pop"])
    <3>1. index["pop"] <= Len(put) - SlotCount
      BY <2>1, <2>6, <2>3, <1>1, <1>3, SlotCountType DEF j
    <3>2. Occupied = SlotCount
      BY <3>1, <1>3, SlotCountType
    <3> QED
      BY <3>2, <1>9
  <2> QED
    BY <2>5, <2>6
<1> QED
  BY <1>1, <1>8, <1>9 DEF Ops
------------------------------------------------------------------------------
(* Appending to a sequence appends to each of its final segments, and the  *)
(* tail of a final segment is the next one.                                *)
LEMMA SegmentAppend ==
  ASSUME NEW S, NEW s \in Seq(S), NEW x \in S, NEW m \in 1..(Len(s) + 1)
  PROVE  SubSeq(Append(s, x), m, Len(Append(s, x))) = Append(SubSeq(s, m, Len(s)), x)
<1> DEFINE n == Len(s)
           a == Append(s, x)
           b == SubSeq(s, m, n)
           c == SubSeq(a, m, Len(a))
           d == Append(b, x)
<1>1. n \in Nat /\ m \in Int
  BY LenProperties
<1>2. /\ a \in Seq(S) /\ Len(a) = n + 1 /\ a[n + 1] = x
      /\ \A k \in 1..n : a[k] = s[k]
  BY AppendProperties
<1>3. /\ b \in Seq(S) /\ Len(b) = n - m + 1
      /\ \A k \in 1..(n - m + 1) : b[k] = s[m + k - 1]
  <2>1. \A k \in m..n : s[k] \in S
    BY <1>1, ElementOfSeq
  <2> QED
    BY <2>1, <1>1, SubSeqProperties
<1>4. /\ c \in Seq(S) /\ Len(c) = n - m + 2
      /\ \A k \in 1..(n - m + 2) : c[k] = a[m + k - 1]
  <2>1. \A k \in m..(n + 1) : a[k] \in S
    BY <1>1, <1>2, ElementOfSeq
  <2>2. n + 1 \in Int /\ m <= n + 1
    BY <1>1
  <2>3. /\ SubSeq(a, m, n + 1) \in Seq(S)
        /\ Len(SubSeq(a, m, n + 1)) = (n + 1) - m + 1
        /\ \A k \in 1..((n + 1) - m + 1) : SubSeq(a, m, n + 1)[k] = a[m + k - 1]
    BY <2>1, <2>2, SubSeqProperties
  <2> HIDE DEF a, n
  <2> QED
    BY <2>2, <2>3, <1>1, <1>2
<1>5. /\ d \in Seq(S) /\ Len(d) = n - m + 2 /\ d[n - m + 2] = x
      /\ \A k \in 1..(n - m + 1) : d[k] = b[k]
  <2> HIDE DEF b, n
  <2>1. /\ d \in Seq(S) /\ Len(d) = Len(b) + 1 /\ d[Len(b) + 1] = x
        /\ \A k \in 1..Len(b) : d[k] = b[k]
    BY <1>3, AppendProperties
  <2> QED
    BY <2>1, <1>1, <1>3
<1> HIDE DEF a, b, c, d, n
<1>6. ASSUME NEW k \in 1..Len(c) PROVE c[k] = d[k]
  <2>1. CASE k = n - m + 2
    <3>1. m + k - 1 = n + 1
      BY <2>1, <1>1
    <3> QED
      BY <2>1, <3>1, <1>2, <1>4, <1>5
  <2>2. CASE k # n - m + 2
    <3>1. k \in 1..(n - m + 1) /\ m + k - 1 \in 1..n
      BY <2>2, <1>1, <1>4
    <3> QED
      BY <3>1, <1>2, <1>3, <1>4, <1>5
  <2> QED
    BY <2>1, <2>2
<1>7. c = d
  BY <1>4, <1>5, <1>6, SeqEqual
<1> QED
  BY <1>7 DEF a, b, c, d, n

(* The head and the tail of the rest of a sequence.                        *)
LEMMA SegmentTail ==
  ASSUME NEW S, NEW s \in Seq(S), NEW m \in 1..Len(s)
  PROVE  /\ SubSeq(s, m, Len(s)) # <<>>
         /\ Head(SubSeq(s, m, Len(s))) = s[m]
         /\ Tail(SubSeq(s, m, Len(s))) = SubSeq(s, m + 1, Len(s))
<1> DEFINE n == Len(s)
           b == SubSeq(s, m, n)
           c == SubSeq(s, m + 1, n)
<1>1. n \in Nat /\ m \in Int /\ m + 1 \in Int /\ m <= n
  BY LenProperties
<1>2. \A k \in m..n : s[k] \in S
  BY <1>1, ElementOfSeq
<1>3. /\ b \in Seq(S) /\ Len(b) = n - m + 1
      /\ \A k \in 1..(n - m + 1) : b[k] = s[m + k - 1]
  BY <1>1, <1>2, SubSeqProperties
<1>4. /\ c \in Seq(S) /\ Len(c) = n - m
      /\ \A k \in 1..(n - m) : c[k] = s[m + k]
  <2>1. \A k \in (m + 1)..n : s[k] \in S
    BY <1>1, <1>2
  <2>2. /\ c \in Seq(S) /\ Len(c) = IF m + 1 <= n THEN n - (m + 1) + 1 ELSE 0
        /\ \A k \in 1..(n - (m + 1) + 1) : c[k] = s[(m + 1) + k - 1]
    BY <2>1, <1>1, SubSeqProperties
  <2> HIDE DEF c, n
  <2> QED
    BY <2>2, <1>1
<1> HIDE DEF b, c, n
<1>5. Len(b) > 0 /\ b # <<>>
  <2>1. Len(b) > 0
    BY <1>1, <1>3
  <2> QED
    BY <2>1, EmptySeq
<1>6. b[1] = s[m]
  BY <1>1, <1>3
<1>7. /\ Tail(b) \in Seq(S) /\ Len(Tail(b)) = n - m
      /\ \A k \in 1..(n - m) : Tail(b)[k] = b[k + 1]
  <2>1. /\ Tail(b) \in Seq(S) /\ Len(Tail(b)) = Len(b) - 1
        /\ \A k \in 1..Len(Tail(b)) : Tail(b)[k] = b[k + 1]
    BY <1>3, <1>5, HeadTailProperties
  <2>2. Len(Tail(b)) = n - m
    BY <2>1, <1>1, <1>3
  <2> QED
    BY <2>1, <2>2
<1>8. ASSUME NEW k \in 1..Len(c) PROVE Tail(b)[k] = c[k]
  <2>1. k \in 1..(n - m) /\ k + 1 \in 1..(n - m + 1) /\ m + (k + 1) - 1 = m + k
    BY <1>1, <1>4
  <2> QED
    BY <2>1, <1>3, <1>4, <1>7
<1>9. Tail(b) = c
  BY <1>4, <1>7, <1>8, SeqEqual
<1>10. Head(b) = b[1]
  OBVIOUS
<1> QED
  BY <1>5, <1>6, <1>9, <1>10 DEF b, c, n
------------------------------------------------------------------------------
\* The state of ClaimedFifo, in terms that Contents speaks of.
Queued == SubSeq(put, index["pop"] + 1, Len(put))
Takes(t) == op[t] = "pop" /\ Owns(t)
InHand == [t \in Threads |-> IF Takes(t) THEN put[pos[t] + 1] ELSE NoItem]

\* The expression that Fifo gives ClaimedFifo as held.
HeldItems ==
  [t \in Threads |->
     IF op[t] # "pop" \/ ~Owns(t) THEN NoItem
     ELSE IF pc[t] = "publish" THEN arg[t] ELSE put[pos[t] + 1]]

(* What the abstract queue has handed out is what the pops have claimed.   *)
LEMMA HeldIs == Base => HeldItems = InHand
  BY DEF Base, Safe, Contents, HeldItems, InHand, Takes

(* The same in the next state.                                             *)
LEMMA HeldIsNext == Base' => HeldItems' = InHand'
<1>1. Base => HeldItems = InHand
  BY HeldIs
<1>2. (Base => HeldItems = InHand)'
  BY <1>1, PTL
<1> QED
  BY <1>2

(* What both states of a step of Base have to do with ClaimedFifo.         *)
LEMMA QueuedType ==
  ASSUME Base
  PROVE  /\ put \in Seq(Items) /\ Len(put) \in Nat
         /\ index["pop"] \in Nat /\ index["pop"] <= Len(put)
         /\ \A t \in Threads :
              Takes(t) => /\ pos[t] \in Nat /\ pos[t] + 1 \in 1..Len(put)
                          /\ put[pos[t] + 1] \in Items
<1>1. /\ put \in Seq(Items) /\ Len(put) \in Nat
      /\ index["pop"] \in Nat /\ index["pop"] <= Len(put)
  BY LenProperties DEF Base, Safe, Order, TypeOK, Ops, Indices
<1>2. ASSUME NEW t \in Threads, Takes(t)
      PROVE  /\ pos[t] \in Nat /\ pos[t] + 1 \in 1..Len(put)
             /\ put[pos[t] + 1] \in Items
  <2>1. pos[t] \in Nat /\ pos[t] < index["pop"]
    BY <1>2, TurnType DEF Takes, Base, Safe, OwnersTurn, Claimed
  <2>2. pos[t] + 1 \in 1..Len(put)
    BY <2>1, <1>1
  <2> QED
    BY <2>1, <2>2, <1>1, ElementOfSeq
<1> QED
  BY <1>1, <1>2

\* A step that neither claims a position nor ends a pop is not seen.
LEMMA QuietRefines ==
  ASSUME Base, Base', put' = put, index'["pop"] = index["pop"],
         \A t \in Threads : (Takes(t)' <=> Takes(t)) /\ (Takes(t) => pos'[t] = pos[t])
  PROVE  UNCHANGED Fifo!fifoVars
<1>1. InHand' = InHand
  BY DEF InHand
<1>2. HeldItems' = HeldItems
  BY <1>1, HeldIs, HeldIsNext
<1>3. Queued' = Queued
  BY DEF Queued
<1> QED
  BY <1>2, <1>3 DEF Fifo!fifoVars, HeldItems, Queued

(* A push that claims a position puts an item into the abstract queue.     *)
LEMMA PutRefines ==
  ASSUME Base, Base', NEW x \in [from : Threads, seq : 1..MaxPushes],
         put' = Append(put, x), index'["pop"] = index["pop"],
         \A t \in Threads : (Takes(t)' <=> Takes(t)) /\ (Takes(t) => pos'[t] = pos[t])
  PROVE  Fifo!Put(x)
<1>1. x \in Items
  BY DEF Items
<1>2. /\ Len(put') = Len(put) + 1
      /\ \A k \in 1..Len(put) : put'[k] = put[k]
  BY <1>1, QueuedType, AppendProperties
<1>3. InHand' = InHand
  BY <1>2, QueuedType DEF InHand
<1>4. HeldItems' = HeldItems
  BY <1>3, HeldIs, HeldIsNext
<1>5. index["pop"] + 1 \in 1..(Len(put) + 1)
  BY QueuedType
<1>6. Queued' = Append(Queued, x)
  <2>1. SubSeq(Append(put, x), index["pop"] + 1, Len(Append(put, x)))
          = Append(SubSeq(put, index["pop"] + 1, Len(put)), x)
    BY <1>1, <1>5, QueuedType, SegmentAppend
  <2> QED
    BY <2>1 DEF Queued
<1>7. Len(Queued) < SlotCount
  <2>1. Len(put') <= index'["pop"] + SlotCount
    BY DEF Base, Safe, Order
  <2>2. \A k \in (index["pop"] + 1)..Len(put) : put[k] \in Items
    BY QueuedType, ElementOfSeq
  <2>3. Len(Queued) = Len(put) - index["pop"]
    <3> DEFINE m == index["pop"] + 1
               n == Len(put)
    <3>1. m \in Int /\ n \in Int /\ m <= n + 1
      BY QueuedType
    <3>2. Len(SubSeq(put, m, n)) = IF m <= n THEN n - m + 1 ELSE 0
      BY <2>2, <3>1, SubSeqProperties
    <3>3. index["pop"] \in Nat /\ n \in Nat
      BY QueuedType
    <3> HIDE DEF n
    <3>4. Len(SubSeq(put, m, n)) = n - index["pop"]
      BY <3>1, <3>2, <3>3
    <3> QED
      BY <3>4 DEF Queued, n
  <2> QED
    BY <2>1, <2>3, <1>2, QueuedType, SlotCountType
<1> QED
  BY <1>4, <1>6, <1>7 DEF Fifo!Put, HeldItems, Queued

(* A pop that claims a position takes the first item.                      *)
LEMMA TakeRefines ==
  ASSUME Base, Base', NEW t \in Threads, ~Takes(t), Takes(t)',
         pos'[t] = index["pop"], put' = put, index'["pop"] = index["pop"] + 1,
         \A u \in Threads \ {t} :
           (Takes(u)' <=> Takes(u)) /\ (Takes(u) => pos'[u] = pos[u])
  PROVE  Fifo!Take(t)
<1>1. /\ index["pop"] \in Nat /\ Len(put) \in Nat /\ put \in Seq(Items)
      /\ index["pop"] + 1 <= Len(put)
  <2>1. index'["pop"] <= Len(put')
    BY DEF Base, Safe, Order
  <2> QED
    BY <2>1, QueuedType
<1>2. index["pop"] + 1 \in 1..Len(put)
  BY <1>1
<1>3. /\ Queued # <<>> /\ Head(Queued) = put[index["pop"] + 1]
      /\ Tail(Queued) = Queued'
  <2>1. index'["pop"] + 1 = (index["pop"] + 1) + 1
    OBVIOUS
  <2> QED
    BY <2>1, <1>1, <1>2, SegmentTail DEF Queued
<1>4. InHand' = [InHand EXCEPT ![t] = Head(Queued)] /\ InHand[t] = NoItem
  BY <1>3 DEF InHand
<1>5. HeldItems = InHand /\ HeldItems' = InHand'
  BY HeldIs, HeldIsNext
<1>6. HeldItems' = [HeldItems EXCEPT ![t] = Head(Queued)] /\ HeldItems[t] = NoItem
  BY <1>4, <1>5
<1> QED
  BY <1>3, <1>6 DEF Fifo!Take, HeldItems, Queued

(* A pop that is done gives its item to the caller.                        *)
LEMMA GiveRefines ==
  ASSUME Base, Base', NEW t \in Threads, Takes(t), ~Takes(t)',
         put' = put, index'["pop"] = index["pop"],
         \A u \in Threads \ {t} :
           (Takes(u)' <=> Takes(u)) /\ (Takes(u) => pos'[u] = pos[u])
  PROVE  Fifo!Give(t)
<1>1. InHand' = [InHand EXCEPT ![t] = NoItem] /\ InHand[t] # NoItem
  BY QueuedType, NoItemIsNone DEF InHand
<1>2. HeldItems = InHand /\ HeldItems' = InHand'
  BY HeldIs, HeldIsNext
<1>3. HeldItems' = [HeldItems EXCEPT ![t] = NoItem] /\ HeldItems[t] # NoItem
  BY <1>1, <1>2
<1>4. Queued' = Queued
  BY DEF Queued
<1> QED
  BY <1>3, <1>4 DEF Fifo!Give, HeldItems, Queued

(* At first the abstract queue is empty.                                   *)
LEMMA InitRefines == Init => Fifo!Init
<1> SUFFICES ASSUME Init PROVE Fifo!Init
  OBVIOUS
<1>1. Len(put) = 0 /\ index["pop"] = 0
  BY DEF Init, Ops
<1>2. Queued = <<>>
  BY <1>1, SubSeqEmpty DEF Queued
<1>3. HeldItems = [t \in Threads |-> NoItem]
  BY DEF Init, HeldItems, Owns
<1> QED
  BY <1>2, <1>3 DEF Fifo!Init, Queued, HeldItems

(* Calling is nothing to the abstract queue.                               *)
LEMMA CallRefines ==
  ASSUME Base, Base', NEW t \in Threads, NEW o \in Ops, Call(t, o)
  PROVE  [Fifo!Next]_(Fifo!fifoVars)
<1>1. /\ pc[t] = "idle" /\ pc'[t] = "turn" /\ put' = put /\ index' = index
      /\ \A u \in Threads \ {t} : pc'[u] = pc[u] /\ op'[u] = op[u] /\ pos'[u] = pos[u]
  BY DEF Call, Goto, Base, TypeOK
<1> QED
  BY <1>1, QuietRefines DEF Takes, Owns

\* The steps of a call other than claiming a position and handing on a slot.
LEMMA InnerRefines ==
  ASSUME Base, Base', NEW t \in Threads,
         LoadTurn(t) \/ CasFails(t) \/ Retry(t) \/ Access(t)
  PROVE  [Fifo!Next]_(Fifo!fifoVars)
<1>1. /\ Owns(t)' <=> Owns(t)
      /\ Owns(t) => pos'[t] = pos[t]
      /\ put' = put /\ index' = index /\ op' = op
      /\ \A u \in Threads \ {t} : pc'[u] = pc[u] /\ pos'[u] = pos[u]
  BY DEF LoadTurn, CasFails, Retry, Access, Goto, Owns, Base, TypeOK
<1> QED
  BY <1>1, QuietRefines DEF Takes, Owns

(* A call that holds no item returns.                                      *)
LEMMA ReturnRefines ==
  ASSUME Base, Base', NEW t \in Threads, ~Takes(t), Return(t),
         put' = put, op' = op, index'["pop"] = index["pop"]
  PROVE  [Fifo!Next]_(Fifo!fifoVars)
<1>1. /\ pc'[t] = "idle"
      /\ \A u \in Threads \ {t} : pc'[u] = pc[u] /\ pos'[u] = pos[u]
  BY DEF Return, Goto, Base, TypeOK
<1> QED
  BY <1>1, QuietRefines DEF Takes, Owns

(* Publishing ends a pop, and is nothing to the abstract queue in a push.  *)
LEMMA PublishRefines ==
  ASSUME Base, Base', NEW t \in Threads, Publish(t)
  PROVE  [Fifo!Next]_(Fifo!fifoVars)
<1>1. /\ Return(t) /\ pc[t] = "publish" /\ pc'[t] = "idle"
      /\ put' = put /\ op' = op /\ index' = index
      /\ \A u \in Threads \ {t} : pc'[u] = pc[u] /\ pos'[u] = pos[u]
  BY DEF Publish, Return, Goto, Base, TypeOK
<1>2. CASE op[t] = "pop"
  <2>1. Fifo!Give(t)
    BY <1>1, <1>2, GiveRefines DEF Takes, Owns
  <2> QED
    BY <2>1 DEF Fifo!Next
<1>3. CASE op[t] # "pop"
  BY <1>1, <1>3, ReturnRefines DEF Takes
<1> QED
  BY <1>2, <1>3

(* A claim is the instant at which a call takes effect.                    *)
LEMMA CasRefines ==
  ASSUME NoWrap, Base, Base', ArgsNumbered, NEW t \in Threads, Cas(t)
  PROVE  [Fifo!Next]_(Fifo!fifoVars)
<1>1. /\ pc[t] = "cas" /\ pc'[t] = "access" /\ pos[t] = index[op[t]]
      /\ index' = [index EXCEPT ![op[t]] = (pos[t] + 1) % IndexLimit]
      /\ put' = IF op[t] = "push" THEN Append(put, arg[t]) ELSE put
      /\ op' = op /\ pos' = pos /\ op[t] \in Ops
      /\ \A u \in Threads \ {t} : pc'[u] = pc[u]
  BY TurnType DEF Cas, Goto, Base, TypeOK
<1>2. CASE op[t] = "push"
  <2>1. arg[t] \in [from : Threads, seq : 1..MaxPushes]
    BY <1>1, <1>2 DEF ArgsNumbered
  <2>2. index'["pop"] = index["pop"]
    BY <1>1, <1>2 DEF Base, TypeOK, Ops
  <2>3. Fifo!Put(arg[t])
    BY <1>1, <1>2, <2>1, <2>2, PutRefines DEF Takes, Owns
  <2> QED
    BY <2>1, <2>3 DEF Fifo!Next
<1>3. CASE op[t] = "pop"
  <2>1. (pos[t] + 1) % IndexLimit = pos[t] + 1
    BY <1>1, TurnExpected, TurnType DEF Base, PositionsLag
  <2>2. index'["pop"] = index["pop"] + 1
    BY <1>1, <1>3, <2>1 DEF Base, TypeOK, Ops
  <2>3. Fifo!Take(t)
    BY <1>1, <1>3, <2>2, TakeRefines DEF Takes, Owns
  <2> QED
    BY <2>3 DEF Fifo!Next
<1> QED
  BY <1>1, <1>2, <1>3 DEF Ops

(* Where nothing changes, the abstract queue stutters.                     *)
LEMMA StutterRefines ==
  ASSUME Base, Base', UNCHANGED vars
  PROVE  [Fifo!Next]_(Fifo!fifoVars)
  BY QuietRefines DEF vars, Takes, Owns
------------------------------------------------------------------------------
(***************************************************************************)
(* MpmcQueue.                                                              *)
(***************************************************************************)

\* Both indices move at the instant a position is claimed.
MpmcIInv == Base /\ ArgsNumbered /\ index["push"] = Len(put)

(* At first nobody is in a call.                                           *)
LEMMA MpmcInitIInv == NoWrap /\ Init => MpmcIInv
  BY InitBase, InitArgs DEF Init, MpmcIInv, Ops

(* Every step of every thread keeps the invariant.                         *)
LEMMA MpmcNextIInv == NoWrap /\ MpmcIInv /\ [Next]_vars => MpmcIInv'
<1> SUFFICES ASSUME NoWrap, MpmcIInv, [Next]_vars PROVE MpmcIInv'
  OBVIOUS
<1> USE DEF MpmcIInv
<1>1. Base'
  <2>1. ASSUME NEW t \in Threads, Step(t) PROVE Base'
    BY <2>1, LoadTurnBase, CasBase, ReloadBase, AccessBase, PublishBase, FailBase
       DEF Step
  <2>2. ASSUME NEW t \in Threads, NEW o \in Ops, Call(t, o) PROVE Base'
    BY <2>2, CallBase
  <2> QED
    BY <2>1, <2>2, StutterBase DEF Next
<1>2. ArgsNumbered'
  BY StepArgs, CallArgs DEF Next, Base, ArgsNumbered, vars
<1>3. (index["push"] = Len(put))'
  <2>1. ASSUME NEW t \in Threads, Cas(t) PROVE (index["push"] = Len(put))'
    <3>1. /\ index' = [index EXCEPT ![op[t]] = (pos[t] + 1) % IndexLimit]
          /\ pos[t] = index[op[t]]
          /\ put' = IF op[t] = "push" THEN Append(put, arg[t]) ELSE put
          /\ pc[t] = "cas" /\ op[t] \in Ops
      BY <2>1, TurnType DEF Cas, Base
    <3>2. CASE op[t] = "push"
      <4>1. arg[t] \in Items
        BY <3>1, <3>2 DEF Base, TypeOK
      <4>2. Len(put') = Len(put) + 1 /\ Len(put) \in Nat
        BY <3>1, <3>2, <4>1, AppendProperties, LenProperties DEF Base, TypeOK
      <4>3. (Len(put) + 1) % IndexLimit = Len(put) + 1
        BY <4>2, TurnExpected DEF Base, Ops
      <4> QED
        BY <3>1, <3>2, <4>2, <4>3 DEF Base, TypeOK, Ops
    <3>3. CASE op[t] # "push"
      BY <3>1, <3>3 DEF Base, TypeOK, Ops
    <3> QED
      BY <3>2, <3>3
  <2>2. CASE UNCHANGED <<index, put>>
    BY <2>2
  <2> QED
    BY <2>1, <2>2 DEF Next, Step, LoadTurn, CasFails, Access, Publish, Retry, Fail,
                      Call, vars
<1> QED
  BY <1>1, <1>2, <1>3

(* The inductive invariant holds as long as the indices do not wrap.       *)
THEOREM MpmcInductive == NoWrap => (Spec => []MpmcIInv)
<1> SUFFICES ASSUME NoWrap PROVE Spec => []MpmcIInv
  OBVIOUS
<1>1. Init => MpmcIInv
  BY MpmcInitIInv
<1>2. MpmcIInv /\ [Next]_vars => MpmcIInv'
  BY MpmcNextIInv
<1> QED
  BY <1>1, <1>2, PTL DEF Spec

(* Type correctness below the limit of the indices.                        *)
THEOREM MpmcTypeCorrect == NoWrap => (Spec => []TypeOK)
<1>1. MpmcIInv => TypeOK
  BY BaseImplies DEF MpmcIInv
<1> QED
  BY <1>1, MpmcInductive, PTL

(* However many threads push and pop, no two of them that have claimed a   *)
(* position hold the same slot, not even a round apart.                    *)
THEOREM MpmcOneOwner == NoWrap => (Spec => []SlotHasOneOwner)
<1>1. MpmcIInv => SlotHasOneOwner
  BY BaseImplies DEF MpmcIInv
<1> QED
  BY <1>1, MpmcInductive, PTL

(* The n-th pop returns the item of the n-th push.                         *)
THEOREM MpmcFirstInFirstOut == NoWrap => (Spec => []PopGetsItsItem)
<1>1. MpmcIInv => PopGetsItsItem
  BY BaseImplies DEF MpmcIInv
<1> QED
  BY <1>1, MpmcInductive, PTL

(* try_push and try_pop return false only when the queue is full, or empty, *)
(* or its next slot is in the hands of a thread of the other kind.          *)
THEOREM MpmcFailsOnlyIfBlockedHolds == NoWrap => (Spec => FailsOnlyIfBlocked)
<1> SUFFICES ASSUME NoWrap PROVE Spec => FailsOnlyIfBlocked
  OBVIOUS
<1>1. MpmcIInv => \A t \in Threads :
        LoadTurn(t) /\ ~MyTurn(t) /\ pos[t] = index[op[t]] =>
          \/ op[t] = "push" /\ Occupied = SlotCount
          \/ op[t] = "pop" /\ Occupied = 0
          \/ NextIsHeld(op[t])
  BY BlockedWhenNotMyTurn DEF MpmcIInv
<1>2. Spec => []MpmcIInv
  BY MpmcInductive
<1> QED
  BY <1>1, <1>2, PTL DEF Spec, FailsOnlyIfBlocked

(* The queue implements ClaimedFifo: a call that claims a position takes   *)
(* effect at that instant, in every interleaving.                          *)
THEOREM MpmcRefinement == NoWrap => (Spec => ImplementsClaimedFifo)
<1> SUFFICES ASSUME NoWrap PROVE Spec => Fifo!Spec
  BY DEF ImplementsClaimedFifo
<1>1. Init => Fifo!Init
  BY InitRefines
<1>2. MpmcIInv /\ [Next]_vars => [Fifo!Next]_(Fifo!fifoVars)
  <2> SUFFICES ASSUME MpmcIInv, [Next]_vars PROVE [Fifo!Next]_(Fifo!fifoVars)
    BY DEF MpmcIInv
  <2> USE DEF MpmcIInv
  <2>1. ASSUME NEW t \in Threads, Step(t) PROVE [Fifo!Next]_(Fifo!fifoVars)
    <3>1. Base /\ Base' /\ ArgsNumbered
      BY MpmcNextIInv
    <3>2. CASE Fail(t)
      BY <3>1, <3>2, ReturnRefines DEF Fail, Takes, Owns
    <3> QED
      BY <2>1, <3>1, <3>2, InnerRefines, CasRefines, PublishRefines DEF Step
  <2>2. ASSUME NEW t \in Threads, NEW o \in Ops, Call(t, o)
        PROVE  [Fifo!Next]_(Fifo!fifoVars)
    BY <2>2, MpmcNextIInv, CallRefines
  <2> QED
    BY <2>1, <2>2, MpmcNextIInv, StutterRefines DEF Next
<1>3. Spec => []MpmcIInv
  BY MpmcInductive
<1> QED
  BY <1>1, <1>2, <1>3, PTL DEF Spec, Fifo!Spec
==============================================================================
