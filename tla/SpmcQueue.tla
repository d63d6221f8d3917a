------------------------------ MODULE SpmcQueue ------------------------------
(***************************************************************************)
(* namespace spmc of c_queue.cpp: one thread pushes, with plain loads and  *)
(* stores of its index, and the others pop as in mpmc.  The producer hands *)
(* the slot on before it moves its index.                                  *)
(***************************************************************************)
EXTENDS TurnQueue

CONSTANT Producer \* the thread that calls try_push

ASSUME ProducerAssumption == Producer \in Threads

Consumers == Threads \ {Producer}

\* The turn of the slot is loaded, and the call goes on or returns false.
PushLoadTurn ==
  /\ pc[Producer] = "turn"
  /\ IF MyTurn(Producer)
       THEN Goto(Producer, "access") /\ UNCHANGED <<pos, arg>>
       ELSE Return(Producer)
  /\ put' = IF MyTurn(Producer) THEN Append(put, arg[Producer]) ELSE put
  /\ UNCHANGED <<index, turn, item, op>>

\* The next turn is stored.
PushPublish ==
  /\ pc[Producer] = "publish"
  /\ turn' = [turn EXCEPT ![Slot(pos[Producer])] =
                (ExpectedTurn("push", pos[Producer]) + 1) % IndexLimit]
  /\ Goto(Producer, "store")
  /\ UNCHANGED <<index, item, op, pos, arg, put>>

\* The index is stored, and the call returns true.
PushStore ==
  /\ pc[Producer] = "store"
  /\ index' = [index EXCEPT !["push"] = (pos[Producer] + 1) % IndexLimit]
  /\ Return(Producer)
  /\ UNCHANGED <<turn, item, op, put>>

Push == PushLoadTurn \/ Access(Producer) \/ PushPublish \/ PushStore

SpmcNext ==
  \/ Call(Producer, "push")
  \/ Push
  \/ \E t \in Consumers : Call(t, "pop") \/ Step(t)

SpmcSpec == Init /\ [][SpmcNext]_vars

FairSpec == SpmcSpec /\ WF_vars(Push) /\ \A t \in Consumers : StepFairness(t)
------------------------------------------------------------------------------
(* A push fails only when the queue is full or a consumer has claimed the  *)
(* oldest slot and is not done with it.                                    *)
PushFailsOnlyIfBlocked ==
  [][PushLoadTurn /\ ~MyTurn(Producer) =>
       Occupied = SlotCount \/ NextIsHeld("push")]_vars
==============================================================================
