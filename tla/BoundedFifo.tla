----------------------------- MODULE BoundedFifo -----------------------------
(***************************************************************************)
(* What a bounded first-in first-out queue promises to one thread that     *)
(* enqueues and one thread that dequeues, possibly several items a call.   *)
(*                                                                         *)
(* Every call is split in the instant it starts and the single instant at  *)
(* which it takes effect and fixes its result.  An enqueue may fail only   *)
(* at an instant at which the queue holds Bound items, a dequeue may come  *)
(* back empty-handed only at an instant at which the queue is empty, and a *)
(* dequeue that succeeds takes a nonempty prefix of the queue.             *)
(***************************************************************************)
EXTENDS Naturals, Sequences

CONSTANTS
  Values,   \* the u64 items
  NoValue,  \* the content of an argument no call has set
  MaxBatch, \* the largest count a dequeue is called with
  Bound     \* how many items the queue holds

VARIABLES
  queue,    \* the items enqueued and not yet dequeued, oldest first
  pushItem, \* the item the enqueue in progress, or the last one, was given
  pushRet,  \* "busy" while an enqueue is in progress, else its outcome
  popWant,  \* how many items the dequeue in progress may take; 0 if none is
  popRet    \* the items the last dequeue returned

fifoVars == <<queue, pushItem, pushRet, popWant, popRet>>

Init ==
  /\ queue = <<>>
  /\ pushItem = NoValue
  /\ pushRet = "none"
  /\ popWant = 0
  /\ popRet = <<>>

PushCall(v) ==
  /\ pushRet # "busy"
  /\ pushItem' = v
  /\ pushRet' = "busy"
  /\ UNCHANGED <<queue, popWant, popRet>>

Push ==
  /\ pushRet = "busy"
  /\ Len(queue) < Bound
  /\ queue' = Append(queue, pushItem)
  /\ pushRet' = "ok"
  /\ UNCHANGED <<pushItem, popWant, popRet>>

PushFull ==
  /\ pushRet = "busy"
  /\ Len(queue) = Bound
  /\ pushRet' = "full"
  /\ UNCHANGED <<queue, pushItem, popWant, popRet>>

PopCall(n) ==
  /\ popWant = 0
  /\ popWant' = n
  /\ UNCHANGED <<queue, pushItem, pushRet, popRet>>

Pop(k) ==
  /\ k <= popWant
  /\ k <= Len(queue)
  /\ queue' = SubSeq(queue, k + 1, Len(queue))
  /\ popRet' = SubSeq(queue, 1, k)
  /\ popWant' = 0
  /\ UNCHANGED <<pushItem, pushRet>>

PopEmpty ==
  /\ popWant # 0
  /\ queue = <<>>
  /\ popRet' = <<>>
  /\ popWant' = 0
  /\ UNCHANGED <<queue, pushItem, pushRet>>

Next ==
  \/ \E v \in Values : PushCall(v)
  \/ Push
  \/ PushFull
  \/ \E n \in 1..MaxBatch : PopCall(n)
  \/ \E k \in 1..MaxBatch : Pop(k)
  \/ PopEmpty

Spec == Init /\ [][Next]_fifoVars
==============================================================================
