--------------------------- MODULE SpmcQueueProofs ---------------------------
(***************************************************************************)
(* Proofs about SpmcQueue for every number of consumers and slots, as long *)
(* as its indices do not reach their limit.  The producer's index lags:    *)
(* the slot is handed on before the index moves, and only the producer     *)
(* looks at that index.                                                    *)
(***************************************************************************)
EXTENDS SpmcQueue, TurnQueueProofs

USE ProducerAssumption

\* The producer has an item in the queue that its index does not show yet.
Ahead == pc[Producer] \in {"access", "publish", "store"}

\* Who does what, and where the producer's index is.
Roles ==
  /\ \A t \in Consumers : op[t] = "pop" /\ pc[t] # "store"
  /\ pc[Producer] \in {"idle", "turn", "access", "publish", "store"}
  /\ pc[Producer] # "idle" => op[Producer] = "push" /\ pos[Producer] = index["push"]
  /\ Len(put) = index["push"] + (IF Ahead THEN 1 ELSE 0)

IInv == Base /\ ArgsNumbered /\ Roles

(* At first nobody is in a call.                                           *)
LEMMA InitIInv == NoWrap /\ Init => IInv
  BY InitBase, InitArgs DEF Init, IInv, Roles, Ahead, Ops, Consumers

\* push hands its slot on; the call goes on to store the index.
LEMMA PushPublishBase ==
  ASSUME NoWrap, IInv, PushPublish
  PROVE  Base'
<1> USE DEF IInv, Base
<1>1. /\ pc[Producer] = "publish" /\ Owns(Producer) /\ op[Producer] = "push"
      /\ pc' = [pc EXCEPT ![Producer] = "store"]
      /\ index' = index /\ item' = item /\ op' = op /\ pos' = pos /\ arg' = arg
      /\ put' = put
  BY DEF PushPublish, Goto, Owns, Roles
<1>2. turn' = [turn EXCEPT ![Slot(pos[Producer])] = NthAccess(op[Producer], pos[Producer]) + 1]
  BY <1>1, NextTurn DEF PushPublish
<1>3. TypeOK'
  <2>1. turn' \in [Slots -> Indices]
    BY <1>1, <1>2, NextTurn DEF TypeOK
  <2> QED
    BY <1>1, <2>1 DEF TypeOK
<1>4. Safe'
  BY <1>1, <1>2, PublishStep
<1>5. Counted'
  <2>1. Pending' \subseteq Pending
    BY <1>1 DEF Pending, TypeOK
  <2> QED
    BY <2>1, <1>1, CountedStep
<1>6. PositionsLag'
  BY <1>1 DEF PositionsLag
<1> QED
  BY <1>3, <1>4, <1>5, <1>6

\* What PushLoadTurn does when the turn of the slot has come.
LEMMA PushClaims ==
  ASSUME NoWrap, IInv, PushLoadTurn, MyTurn(Producer)
  PROVE  /\ pc[Producer] = "turn" /\ op[Producer] = "push"
         /\ pos[Producer] = Len(put) /\ index["push"] = Len(put)
         /\ turn[Slot(pos[Producer])] = NthAccess(op[Producer], pos[Producer])
         /\ pc' = [pc EXCEPT ![Producer] = "access"]
         /\ put' = Append(put, arg[Producer])
         /\ index' = index /\ turn' = turn /\ item' = item /\ op' = op
         /\ pos' = pos /\ arg' = arg
<1>1. /\ pc[Producer] = "turn" /\ op[Producer] = "push"
      /\ pos[Producer] = index["push"] /\ Len(put) = index["push"] + 0
      /\ Len(put) \in Nat /\ index["push"] \in Nat
  BY LenProperties
     DEF PushLoadTurn, IInv, Base, TypeOK, Roles, Ahead, Ops, Indices
<1>2. pos[Producer] = Len(put) /\ index["push"] = Len(put)
  BY <1>1
<1>3. turn[Slot(pos[Producer])] = NthAccess(op[Producer], pos[Producer])
  BY <1>1, <1>2, TurnExpected DEF MyTurn, IInv, Base, Ops
<1> QED
  BY <1>1, <1>2, <1>3 DEF PushLoadTurn, Goto

(* Every step of the producer and of the consumers keeps the invariant.    *)
LEMMA NextIInv == NoWrap /\ IInv /\ [SpmcNext]_vars => IInv'
<1> SUFFICES ASSUME NoWrap, IInv, [SpmcNext]_vars PROVE IInv'
  OBVIOUS
<1> USE DEF IInv
<1>0. /\ Len(put) \in Nat /\ index["push"] \in Nat
      /\ Consumers \subseteq Threads /\ Producer \notin Consumers
  BY LenProperties DEF Base, TypeOK, Ops, Indices, Consumers
<1>1. ASSUME Call(Producer, "push") PROVE IInv'
  <2>1. Base' /\ ArgsNumbered'
    BY <1>1, CallBase, CallArgs DEF Base, Ops
  <2>2. Roles'
    BY <1>0, <1>1 DEF Call, Goto, Roles, Ahead, Base, TypeOK
  <2> QED
    BY <2>1, <2>2
<1>2. ASSUME PushLoadTurn, MyTurn(Producer) PROVE IInv'
  <2>1. Base'
    BY <1>2, PushClaims, ClaimBase DEF Claimed
  <2>2. ArgsNumbered'
    BY <1>2, PushClaims DEF ArgsNumbered, Base, TypeOK
  <2>3. Len(put') = Len(put) + 1
    <3>1. arg[Producer] \in Items /\ put \in Seq(Items)
      BY <1>2, PushClaims DEF Base, TypeOK
    <3> QED
      BY <1>2, <3>1, PushClaims, AppendProperties
  <2>4. Roles'
    BY <1>0, <1>2, <2>3, PushClaims DEF Roles, Ahead, Base, TypeOK
  <2> QED
    BY <2>1, <2>2, <2>4
<1>3. ASSUME PushLoadTurn, ~MyTurn(Producer) PROVE IInv'
  <2>1. /\ pc[Producer] = "turn" /\ Return(Producer)
        /\ index' = index /\ turn' = turn /\ item' = item /\ op' = op /\ put' = put
    BY <1>3 DEF PushLoadTurn
  <2>2. Base'
    BY <2>1, ReturnBase DEF Base, TypeOK, PositionsLag, Owns
  <2>3. ArgsNumbered'
    BY <2>1 DEF Return, Goto, ArgsNumbered, Base, TypeOK
  <2>4. Roles'
    BY <1>0, <2>1 DEF Return, Goto, Roles, Ahead, Base, TypeOK
  <2> QED
    BY <2>2, <2>3, <2>4
<1>4. ASSUME Access(Producer) PROVE IInv'
  <2>1. Base' /\ ArgsNumbered'
    BY <1>4, AccessBase, StepArgs DEF Base, Step
  <2>2. Roles'
    BY <1>0, <1>4 DEF Access, Goto, Roles, Ahead, Base, TypeOK
  <2> QED
    BY <2>1, <2>2
<1>5. ASSUME PushPublish PROVE IInv'
  <2>1. Base'
    BY <1>5, PushPublishBase
  <2>2. ArgsNumbered' /\ Roles'
    BY <1>0, <1>5 DEF PushPublish, Goto, ArgsNumbered, Roles, Ahead, Base, TypeOK
  <2> QED
    BY <2>1, <2>2
<1>6. ASSUME PushStore PROVE IInv'
  <2>1. /\ pc[Producer] = "store" /\ Return(Producer)
        /\ index' = [index EXCEPT !["push"] = (pos[Producer] + 1) % IndexLimit]
        /\ turn' = turn /\ item' = item /\ op' = op /\ put' = put
    BY <1>6 DEF PushStore
  <2>2. pos[Producer] = index["push"] /\ Len(put) = pos[Producer] + 1
    BY <2>1 DEF Roles, Ahead
  <2>3. (pos[Producer] + 1) % IndexLimit = Len(put) /\ Len(put) \in Indices
    <3>1. pos[Producer] \in Nat /\ pos[Producer] <= Len(put)
      BY <2>2, <1>0
    <3> QED
      BY <3>1, <2>2, TurnExpected DEF Base, Ops
  <2>4. /\ index' \in [Ops -> Indices] /\ index'["pop"] = index["pop"]
        /\ index'["push"] = Len(put)
    BY <2>1, <2>3 DEF Base, TypeOK, Ops
  <2>5. Base'
    BY <1>0, <2>1, <2>4, ReturnBase DEF Owns
  <2>6. ArgsNumbered'
    BY <2>1 DEF Return, Goto, ArgsNumbered, Base, TypeOK
  <2>7. Roles'
    BY <1>0, <2>1, <2>4 DEF Return, Goto, Roles, Ahead, Base, TypeOK
  <2> QED
    BY <2>5, <2>6, <2>7
<1>7. ASSUME NEW t \in Consumers, Call(t, "pop") PROVE IInv'
  <2>1. Base' /\ ArgsNumbered'
    BY <1>0, <1>7, CallBase, CallArgs DEF Base, Ops
  <2>2. Roles'
    BY <1>0, <1>7 DEF Call, Goto, Roles, Ahead, Base, TypeOK
  <2> QED
    BY <2>1, <2>2
<1>8. ASSUME NEW t \in Consumers, Step(t) PROVE IInv'
  <2>1. t \in Threads /\ t # Producer /\ op[t] = "pop"
    BY <1>0 DEF Roles
  <2>2. Base'
    BY <1>8, <2>1, LoadTurnBase, CasBase, ReloadBase, AccessBase, PublishBase, FailBase
       DEF Step
  <2>3. ArgsNumbered'
    BY <1>8, <2>1, StepArgs DEF Base
  <2>4. /\ op' = op /\ put' = put /\ index'["push"] = index["push"]
        /\ pc'[t] # "store"
        /\ \A u \in Threads \ {t} : pc'[u] = pc[u] /\ pos'[u] = pos[u]
    BY <1>8, <2>1 DEF Step, LoadTurn, Cas, CasFails, Access, Publish, Retry, Fail,
                      Return, Goto, Base, TypeOK, Ops
  <2>5. Roles'
    BY <1>0, <2>1, <2>4 DEF Roles, Ahead
  <2> QED
    BY <2>2, <2>3, <2>5
<1>9. CASE UNCHANGED vars
  BY <1>9, StutterBase DEF vars, ArgsNumbered, Roles, Ahead
<1> QED
  BY <1>1, <1>2, <1>3, <1>4, <1>5, <1>6, <1>7, <1>8, <1>9 DEF SpmcNext, Push

(* The inductive invariant holds as long as the indices do not wrap.       *)
THEOREM Inductive == NoWrap => (SpmcSpec => []IInv)
<1> SUFFICES ASSUME NoWrap PROVE SpmcSpec => []IInv
  OBVIOUS
<1>1. Init => IInv
  BY InitIInv
<1>2. IInv /\ [SpmcNext]_vars => IInv'
  BY NextIInv
<1> QED
  BY <1>1, <1>2, PTL DEF SpmcSpec

(* Type correctness below the limit of the indices.                        *)
THEOREM TypeCorrect == NoWrap => (SpmcSpec => []TypeOK)
<1>1. IInv => TypeOK
  BY BaseImplies DEF IInv
<1> QED
  BY <1>1, Inductive, PTL

(* The producer and the consumers that have claimed positions never hold   *)
(* the same slot.                                                          *)
THEOREM OneOwner == NoWrap => (SpmcSpec => []SlotHasOneOwner)
<1>1. IInv => SlotHasOneOwner
  BY BaseImplies DEF IInv
<1> QED
  BY <1>1, Inductive, PTL

(* The n-th pop returns the item of the n-th push, although the producer   *)
(* hands its slot on before it moves its index.                            *)
THEOREM FirstInFirstOut == NoWrap => (SpmcSpec => []PopGetsItsItem)
<1>1. IInv => PopGetsItsItem
  BY BaseImplies DEF IInv
<1> QED
  BY <1>1, Inductive, PTL

\* The producer's index is exact when it looks at the turn of a slot.
LEMMA IndexIsExact ==
  IInv => \A t \in Threads :
            pc[t] = "turn" /\ op[t] = "push" => t = Producer /\ index["push"] = Len(put)
<1> SUFFICES ASSUME IInv, NEW t \in Threads, pc[t] = "turn", op[t] = "push"
             PROVE  t = Producer /\ index["push"] = Len(put)
  OBVIOUS
<1>1. t = Producer
  BY DEF IInv, Roles, Consumers
<1>2. Len(put) = index["push"] + 0 /\ index["push"] \in Nat
  BY <1>1 DEF IInv, Roles, Ahead, Base, TypeOK, Ops, Indices
<1> QED
  BY <1>1, <1>2

(* try_pop returns false only when the queue is empty or its next slot is  *)
(* in the producer's hands.                                                *)
THEOREM FailsOnlyIfBlockedHolds == NoWrap => (SpmcSpec => FailsOnlyIfBlocked)
<1> SUFFICES ASSUME NoWrap PROVE SpmcSpec => FailsOnlyIfBlocked
  OBVIOUS
<1>1. IInv => \A t \in Threads :
        LoadTurn(t) /\ ~MyTurn(t) /\ pos[t] = index[op[t]] =>
          \/ op[t] = "push" /\ Occupied = SlotCount
          \/ op[t] = "pop" /\ Occupied = 0
          \/ NextIsHeld(op[t])
  BY BlockedWhenNotMyTurn, IndexIsExact DEF IInv, LoadTurn
<1>2. SpmcSpec => []IInv
  BY Inductive
<1> QED
  BY <1>1, <1>2, PTL DEF SpmcSpec, FailsOnlyIfBlocked

(* try_push returns false only when the queue is full or a consumer that   *)
(* has claimed the oldest slot is not done with it.                        *)
THEOREM PushFailsOnlyIfBlockedHolds == NoWrap => (SpmcSpec => PushFailsOnlyIfBlocked)
<1> SUFFICES ASSUME NoWrap PROVE SpmcSpec => PushFailsOnlyIfBlocked
  OBVIOUS
<1>1. IInv => (PushLoadTurn /\ ~MyTurn(Producer) =>
                 Occupied = SlotCount \/ NextIsHeld("push"))
  <2> SUFFICES ASSUME IInv, PushLoadTurn, ~MyTurn(Producer)
               PROVE  Occupied = SlotCount \/ NextIsHeld("push")
    OBVIOUS
  <2>1. pc[Producer] = "turn" /\ op[Producer] = "push" /\ pos[Producer] = index["push"]
    BY DEF PushLoadTurn, IInv, Roles
  <2>2. index["push"] = Len(put)
    BY <2>1, IndexIsExact
  <2> QED
    BY <2>1, <2>2, BlockedWhenNotMyTurn DEF IInv
<1>2. SpmcSpec => []IInv
  BY Inductive
<1> QED
  BY <1>1, <1>2, PTL DEF SpmcSpec, PushFailsOnlyIfBlocked

(* The queue implements ClaimedFifo: a push takes effect when it sees the  *)
(* turn of its slot, a pop when it claims its position.                    *)
THEOREM Refinement == NoWrap => (SpmcSpec => ImplementsClaimedFifo)
<1> SUFFICES ASSUME NoWrap PROVE SpmcSpec => Fifo!Spec
  BY DEF ImplementsClaimedFifo
<1>1. Init => Fifo!Init
  BY InitRefines
<1>2. IInv /\ [SpmcNext]_vars => [Fifo!Next]_(Fifo!fifoVars)
  <2> SUFFICES ASSUME IInv, [SpmcNext]_vars PROVE [Fifo!Next]_(Fifo!fifoVars)
    OBVIOUS
  <2>0. Base /\ Base' /\ ArgsNumbered /\ Roles /\ Consumers \subseteq Threads
    BY NextIInv DEF IInv, Consumers
  <2>1. ASSUME NEW t \in Threads, NEW o \in Ops, Call(t, o)
        PROVE  [Fifo!Next]_(Fifo!fifoVars)
    BY <2>0, <2>1, CallRefines
  <2>2. ASSUME PushLoadTurn, MyTurn(Producer) PROVE [Fifo!Next]_(Fifo!fifoVars)
    <3>1. arg[Producer] \in [from : Threads, seq : 1..MaxPushes]
      BY <2>0, <2>2, PushClaims DEF ArgsNumbered
    <3>2. Fifo!Put(arg[Producer])
      BY <2>0, <2>2, <3>1, PushClaims, PutRefines DEF Takes, Owns, Base, TypeOK
    <3> QED
      BY <3>1, <3>2 DEF Fifo!Next
  <2>3. ASSUME PushLoadTurn, ~MyTurn(Producer) PROVE [Fifo!Next]_(Fifo!fifoVars)
    BY <2>0, <2>3, ReturnRefines DEF PushLoadTurn, Takes, Owns
  <2>4. ASSUME PushPublish PROVE [Fifo!Next]_(Fifo!fifoVars)
    BY <2>0, <2>4, QuietRefines DEF PushPublish, Goto, Takes, Owns, Roles, Base, TypeOK
  <2>5. ASSUME PushStore PROVE [Fifo!Next]_(Fifo!fifoVars)
    BY <2>0, <2>5, ReturnRefines DEF PushStore, Takes, Owns, Base, TypeOK, Ops
  <2>6. ASSUME NEW t \in Threads, Access(t) PROVE [Fifo!Next]_(Fifo!fifoVars)
    BY <2>0, <2>6, InnerRefines
  <2>7. ASSUME NEW t \in Threads, Step(t) PROVE [Fifo!Next]_(Fifo!fifoVars)
    <3>1. CASE Fail(t)
      BY <2>0, <3>1, ReturnRefines DEF Fail, Takes, Owns
    <3> QED
      BY <2>0, <2>7, <3>1, InnerRefines, CasRefines, PublishRefines DEF Step
  <2> QED
    BY <2>0, <2>1, <2>2, <2>3, <2>4, <2>5, <2>6, <2>7, StutterRefines
       DEF SpmcNext, Push, Ops
<1>3. SpmcSpec => []IInv
  BY Inductive
<1> QED
  BY <1>1, <1>2, <1>3, PTL DEF SpmcSpec, Fifo!Spec
==============================================================================
