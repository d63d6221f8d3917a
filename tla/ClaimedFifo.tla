----------------------------- MODULE ClaimedFifo -----------------------------
(***************************************************************************)
(* What a queue promises threads that push and pop at the same time: there *)
(* is one order in which items are pushed and popped, first in first out   *)
(* and never more than Capacity at a time, and a pop in progress has the   *)
(* item that was the oldest when it claimed its place.                     *)
(***************************************************************************)
EXTENDS Naturals, Sequences

CONSTANTS
  Threads,
  Capacity,
  Items,
  NoItem

VARIABLES
  items, \* the items in the queue, oldest first
  held   \* the item each thread is popping, or NoItem

fifoVars == <<items, held>>

Init == items = <<>> /\ held = [t \in Threads |-> NoItem]

Put(x) ==
  /\ Len(items) < Capacity
  /\ items' = Append(items, x)
  /\ UNCHANGED held

Take(t) ==
  /\ items # <<>>
  /\ held[t] = NoItem
  /\ held' = [held EXCEPT ![t] = Head(items)]
  /\ items' = Tail(items)

Give(t) ==
  /\ held[t] # NoItem
  /\ held' = [held EXCEPT ![t] = NoItem]
  /\ UNCHANGED items

Next ==
  \/ \E x \in Items : Put(x)
  \/ \E t \in Threads : Take(t) \/ Give(t)

Spec == Init /\ [][Next]_fifoVars
==============================================================================
