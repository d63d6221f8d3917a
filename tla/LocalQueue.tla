------------------------------ MODULE LocalQueue ------------------------------
(***************************************************************************)
(* namespace local of c_queue.cpp: a ring that one thread uses as a queue. *)
(* Its capacity is the number of items asked for, and one slot of it stays *)
(* free so that a full ring differs from an empty one.                     *)
(***************************************************************************)
EXTENDS Integers, Sequences

CONSTANTS
  Values,    \* the u64 items
  NoValue,   \* the content of a slot nothing has been written to
  ItemCount  \* item_count, the capacity of the ring

ASSUME ItemCountAssumption == ItemCount \in Nat \ {0}
ASSUME NoValueAssumption == NoValue \notin Values

VARIABLES
  slots,    \* m_slots
  writeIdx, \* m_writeIdx
  readIdx,  \* m_readIdx
  popped,   \* the item of the last try_pop that returned true
  held,     \* history: the items pushed and not popped, oldest first
  oldest    \* history: the item the last try_pop should have returned

vars == <<slots, writeIdx, readIdx, popped, held, oldest>>

Slots == 0..(ItemCount - 1)

Init ==
  /\ slots = [i \in Slots |-> NoValue]
  /\ writeIdx = 0
  /\ readIdx = 0
  /\ popped = NoValue
  /\ held = <<>>
  /\ oldest = NoValue

\* Mutant: the index is not wrapped at the capacity.
SuccNoWrap(i) == i + 1

Succ(i) == IF i + 1 = ItemCount THEN 0 ELSE i + 1

\* Mutant: the slot that tells full from empty is used.
IsFullAtItemCount == Len(held) = ItemCount

IsFull == Succ(writeIdx) = readIdx

TryPush(v) ==
  /\ ~IsFull
  /\ slots' = [slots EXCEPT ![writeIdx] = v]
  /\ writeIdx' = Succ(writeIdx)
  /\ held' = Append(held, v)
  /\ UNCHANGED <<readIdx, popped, oldest>>

\* try_push returns false.
TryPushFull ==
  /\ IsFull
  /\ UNCHANGED vars

TryPop ==
  /\ readIdx # writeIdx
  /\ popped' = slots[readIdx]
  /\ readIdx' = Succ(readIdx)
  /\ oldest' = Head(held)
  /\ held' = Tail(held)
  /\ UNCHANGED <<slots, writeIdx>>

\* try_pop returns false.
TryPopEmpty ==
  /\ readIdx = writeIdx
  /\ UNCHANGED vars

Next ==
  \/ \E v \in Values : TryPush(v)
  \/ TryPushFull
  \/ TryPop
  \/ TryPopEmpty

Spec == Init /\ [][Next]_vars
------------------------------------------------------------------------------
\* The distance from the read index forward to the write index.
Used == IF readIdx <= writeIdx THEN writeIdx - readIdx ELSE writeIdx - readIdx + ItemCount

\* The slot k places after the read index.
At(k) == IF readIdx + k < ItemCount THEN readIdx + k ELSE readIdx + k - ItemCount

(* Type invariant. *)
TypeOK ==
  /\ slots \in [Slots -> Values \cup {NoValue}]
  /\ writeIdx \in Slots
  /\ readIdx \in Slots
  /\ popped \in Values \cup {NoValue}
  /\ held \in Seq(Values)
  /\ oldest \in Values \cup {NoValue}

(* The ring holds exactly the items that were pushed and not popped, in    *)
(* order, across any number of wraps, and the last pop returned the oldest *)
(* of them.                                                                *)
RingHoldsQueue ==
  /\ Len(held) = Used
  /\ \A k \in 1..Len(held) : slots[At(k - 1)] = held[k]
  /\ popped = oldest

==============================================================================
