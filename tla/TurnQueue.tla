------------------------------ MODULE TurnQueue ------------------------------
(***************************************************************************)
(* What namespaces mpmc and spmc of c_queue.cpp share: slots with a turn   *)
(* number, two indices that only grow, and the loop by which a thread      *)
(* claims the next position of an index with a compare-exchange.  Position *)
(* i belongs to slot i % capacity; that slot may be written when its turn  *)
(* is 2 * (i / capacity) and read when it is one more; each access ends by *)
(* storing the next turn.                                                  *)
(*                                                                         *)
(* try_push and try_pop of mpmc are the same loop on the two indices, so   *)
(* the steps are those of a thread that executes an operation o, one step  *)
(* for each access to shared memory.                                       *)
(***************************************************************************)
EXTENDS Integers, Sequences, FiniteSets

CONSTANTS
  Threads,
  ItemCount, \* item_count: how many items the queue was created for
  IndexLimit, \* how many values an index has, 2^32 in the code
  MaxPushes  \* bound: no push is started once this many positions are claimed

ASSUME ItemCountAssumption == ItemCount \in Int
ASSUME IndexLimitAssumption == IndexLimit \in Nat \ {0}
ASSUME MaxPushesAssumption == MaxPushes \in Nat

Ops == {"push", "pop"}

SlotCount == (IF ItemCount > 0 THEN ItemCount ELSE 1) + 1
Slots == 0..(SlotCount - 1)
Indices == 0..(IndexLimit - 1)

Items == [from : Threads, seq : Nat \ {0}]
NoItem == <<>>

VARIABLES
  index, \* m_producer.m_index and m_consumer.m_index
  turn,  \* slot_t::turn
  item,  \* slot_t::item
  pc,    \* where each thread is
  op,    \* which operation each thread executes, or executed last
  pos,   \* its local head, or tail; 0 outside a call
  arg,   \* the item it pushes, or has popped; NoItem outside a call
  put    \* history: the items of the pushes, in the order of their positions

vars == <<index, turn, item, pc, op, pos, arg, put>>

Init ==
  /\ index = [o \in Ops |-> 0]
  /\ turn = [s \in Slots |-> 0]
  /\ item = [s \in Slots |-> NoItem]
  /\ pc = [t \in Threads |-> "idle"]
  /\ op = [t \in Threads |-> "pop"]
  /\ pos = [t \in Threads |-> 0]
  /\ arg = [t \in Threads |-> NoItem]
  /\ put = <<>>

Slot(i) == i % SlotCount

\* Mutant: a pop waits for the turn of the push.
ExpectedTurnSame(o, i) == ((i \div SlotCount) * 2) % IndexLimit

\* Mutant: the rounds are not told apart.
ExpectedTurnNoRound(o, i) == IF o = "pop" THEN 1 ELSE 0

\* The turn at which operation o may use the slot of position i.
ExpectedTurn(o, i) ==
  ((i \div SlotCount) * 2 + IF o = "pop" THEN 1 ELSE 0) % IndexLimit

MyTurn(t) == turn[Slot(pos[t])] = ExpectedTurn(op[t], pos[t])

Goto(t, where) == pc' = [pc EXCEPT ![t] = where]

\* The call of thread t is over.
Return(t) ==
  /\ Goto(t, "idle")
  /\ pos' = [pos EXCEPT ![t] = 0]
  /\ arg' = [arg EXCEPT ![t] = NoItem]

\* The number of pushes of thread t that have claimed a position.
Claims(t) == Cardinality({n \in 1..Len(put) : put[n].from = t})
------------------------------------------------------------------------------
\* The index is loaded.
Call(t, o) ==
  /\ pc[t] = "idle"
  /\ o = "push" => Len(put) < MaxPushes
  /\ op' = [op EXCEPT ![t] = o]
  /\ pos' = [pos EXCEPT ![t] = index[o]]
  /\ arg' = [arg EXCEPT ![t] = IF o = "push" THEN [from |-> t, seq |-> Claims(t) + 1]
                                              ELSE NoItem]
  /\ Goto(t, "turn")
  /\ UNCHANGED <<index, turn, item, put>>

\* The turn of the slot is loaded.
LoadTurn(t) ==
  /\ pc[t] = "turn"
  /\ Goto(t, IF MyTurn(t) THEN "cas" ELSE "recheck")
  /\ UNCHANGED <<index, turn, item, op, pos, arg, put>>

\* Mutant: a load, a comparison and a store.
CasLate(t) ==
  /\ pc[t] = "cas"
  /\ index' = [index EXCEPT ![op[t]] = (pos[t] + 1) % IndexLimit]
  /\ put' = IF op[t] = "push" THEN Append(put, arg[t]) ELSE put
  /\ Goto(t, "access")
  /\ UNCHANGED <<turn, item, op, pos, arg>>

\* Mutant: the slot is handed on before it has been accessed.
CasPublishes(t) ==
  /\ pc[t] = "cas"
  /\ index[op[t]] = pos[t]
  /\ index' = [index EXCEPT ![op[t]] = (pos[t] + 1) % IndexLimit]
  /\ put' = IF op[t] = "push" THEN Append(put, arg[t]) ELSE put
  /\ turn' = [turn EXCEPT ![Slot(pos[t])] = (ExpectedTurn(op[t], pos[t]) + 1) % IndexLimit]
  /\ Goto(t, "access")
  /\ UNCHANGED <<item, op, pos, arg>>

\* The compare-exchange succeeds and claims the position ...
Cas(t) ==
  /\ pc[t] = "cas"
  /\ index[op[t]] = pos[t]
  /\ index' = [index EXCEPT ![op[t]] = (pos[t] + 1) % IndexLimit]
  /\ put' = IF op[t] = "push" THEN Append(put, arg[t]) ELSE put
  /\ Goto(t, "access")
  /\ UNCHANGED <<turn, item, op, pos, arg>>

\* ... or fails, which a weak one may do for no reason, and loads the index.
CasFails(t) ==
  /\ pc[t] = "cas"
  /\ pos' = [pos EXCEPT ![t] = index[op[t]]]
  /\ Goto(t, "turn")
  /\ UNCHANGED <<index, turn, item, op, arg, put>>

\* The item is written to the slot, or read from it.
Access(t) ==
  /\ pc[t] = "access"
  /\ IF op[t] = "push"
       THEN item' = [item EXCEPT ![Slot(pos[t])] = arg[t]] /\ UNCHANGED arg
       ELSE arg' = [arg EXCEPT ![t] = item[Slot(pos[t])]] /\ UNCHANGED item
  /\ Goto(t, "publish")
  /\ UNCHANGED <<index, turn, op, pos, put>>

\* The next turn is stored, and the call returns true.
Publish(t) ==
  /\ pc[t] = "publish"
  /\ turn' = [turn EXCEPT ![Slot(pos[t])] = (ExpectedTurn(op[t], pos[t]) + 1) % IndexLimit]
  /\ Return(t)
  /\ UNCHANGED <<index, item, op, put>>

\* Mutant: the loop goes on with the index it had.
RetryKeepsIndex(t) ==
  /\ pc[t] = "recheck"
  /\ index[op[t]] # pos[t]
  /\ Goto(t, "turn")
  /\ UNCHANGED <<index, turn, item, op, pos, arg, put>>

\* The turn was not the expected one and the index has moved: start over.
Retry(t) ==
  /\ pc[t] = "recheck"
  /\ index[op[t]] # pos[t]
  /\ pos' = [pos EXCEPT ![t] = index[op[t]]]
  /\ Goto(t, "turn")
  /\ UNCHANGED <<index, turn, item, op, arg, put>>

\* The turn was not the expected one and the index is still the same: the call
\* returns false.
Fail(t) ==
  /\ pc[t] = "recheck"
  /\ index[op[t]] = pos[t]
  /\ Return(t)
  /\ UNCHANGED <<index, turn, item, op, put>>

\* What a thread does inside a call.
Step(t) ==
  \/ LoadTurn(t)
  \/ Cas(t)
  \/ CasFails(t)
  \/ Access(t)
  \/ Publish(t)
  \/ Retry(t)
  \/ Fail(t)

\* A thread inside a call keeps running, and a weak compare-exchange whose index
\* has not moved does not fail for ever.
StepFairness(t) == WF_vars(Step(t)) /\ SF_vars(Cas(t))
------------------------------------------------------------------------------
(* Type invariant; a push in progress has its item, and what a pop has     *)
(* taken from a slot is an item.                                           *)
TypeOK ==
  /\ index \in [Ops -> Indices]
  /\ turn \in [Slots -> Indices]
  /\ item \in [Slots -> Items \cup {NoItem}]
  /\ pc \in [Threads -> {"idle", "turn", "cas", "access", "publish", "recheck", "store"}]
  /\ op \in [Threads -> Ops]
  /\ pos \in [Threads -> Indices]
  /\ arg \in [Threads -> Items \cup {NoItem}]
  /\ put \in Seq(Items)
  /\ \A t \in Threads :
       (op[t] = "push" /\ pc[t] # "idle") \/ (op[t] = "pop" /\ pc[t] = "publish")
         <=> arg[t] \in Items

\* Thread t has claimed its position and not yet handed its slot on.
Owns(t) == pc[t] \in {"access", "publish"}

(* A slot is in one thread's hands at a time: two threads that have claimed *)
(* positions never access the same slot together, a producer and a consumer *)
(* no more than two of a kind, even a full round apart.                     *)
SlotHasOneOwner ==
  \A t, u \in Threads :
    t # u /\ Owns(t) /\ Owns(u) => Slot(pos[t]) # Slot(pos[u])

(* First in, first out: the pop that claimed position n reads the item of   *)
(* the push that claimed position n, whoever else is at work and in         *)
(* whichever order they finish.                                             *)
PopGetsItsItem ==
  \A t \in Threads :
    op[t] = "pop" /\ pc[t] = "publish" =>
      pos[t] < Len(put) /\ arg[t] = put[pos[t] + 1]

\* How many positions pushes have claimed and pops have not.
Occupied == (Len(put) - index["pop"]) % IndexLimit

\* Some other thread holds the slot that operation o would claim next.
NextIsHeld(o) ==
  \E u \in Threads : Owns(u) /\ op[u] # o /\ Slot(pos[u]) = Slot(index[o])

(* A call fails only when the queue is full, or empty, or the slot it needs *)
(* is in the hands of a thread that has claimed it and is not done with it: *)
(* seen when it loads the turn of a position that is still the next one.    *)
FailsOnlyIfBlocked ==
  [][\A t \in Threads :
       LoadTurn(t) /\ ~MyTurn(t) /\ pos[t] = index[op[t]] =>
         \/ op[t] = "push" /\ Occupied = SlotCount
         \/ op[t] = "pop" /\ Occupied = 0
         \/ NextIsHeld(op[t])]_vars

(* The loops of try_push and try_pop end: a call returns once the others    *)
(* have stopped claiming positions, as they do when the pushes of the bound *)
(* are used up.  It may only be overtaken, never left to spin on a position *)
(* that is gone.                                                            *)
CallsReturn == \A t \in Threads : pc[t] # "idle" ~> pc[t] = "idle"

(* Below the limit of the index the queue implements one that serves a call *)
(* at the instant it claims its position: claims may be finished in any     *)
(* order, yet no item is taken before it is there, none twice, and there    *)
(* are never more than there are slots.                                     *)
Fifo ==
  INSTANCE ClaimedFifo WITH
    Capacity <- SlotCount,
    Items <- [from : Threads, seq : 1..MaxPushes],
    items <- SubSeq(put, index["pop"] + 1, Len(put)),
    held <- [t \in Threads |->
               IF op[t] # "pop" \/ ~Owns(t) THEN NoItem
               ELSE IF pc[t] = "publish" THEN arg[t] ELSE put[pos[t] + 1]]
ImplementsClaimedFifo == Fifo!Spec
==============================================================================
