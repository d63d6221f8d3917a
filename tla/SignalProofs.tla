----------------------------- MODULE SignalProofs -----------------------------
(***************************************************************************)
(* Proofs about Signal for every number of setters and waiters and every   *)
(* bound: the mutex is held by at most one waiter, a signal lets one       *)
(* auto-resetting wait go, and a wake-up is only lost between the look at  *)
(* the flag and the sleep.                                                 *)
(***************************************************************************)
EXTENDS Signal, TLAPS

USE ThreadsAssumption, NobodyAssumption, BoundsAssumption

\* A waiter has seen the flag up and is about to lower it.
Lowering == \E w \in Waiters : wpc[w] = "reset"

\* A signal that was raised and has not let a wait go: the flag is up, or a
\* waiter that saw it up has yet to lower it.
Unspent == IF isSet \/ Lowering THEN 1 ELSE 0

(* OneReturnPerSet is not inductive: a waiter that has seen the flag adds  *)
(* to consumed later.  The signal it has seen is counted from the moment   *)
(* the flag goes up.  A signal_set that finds the flag lowered by          *)
(* signal_reset while that waiter is on its way pays for itself.           *)
SignalsPaid == consumed + Unspent <= raised

\* A waiter on its way from its look at the flag to its sleep saw it down: if it
\* is up now it was raised meanwhile.
LookWasBefore == isSet => \A w \in Waiters : wpc[w] = "block" => missed[w]

\* LostOnlyBeforeSleep, with the waiters that are about to sleep.
NobodyUp == \A w \in Waiters : wpc[w] \in {"asleep", "block"}
Unnotified == isSet /\ \A s \in Setters : spc[s] = "idle"
AllMissed == Unnotified /\ NobodyUp => \A w \in Waiters : missed[w]

IInv == TypeOK /\ SignalsPaid /\ LookWasBefore /\ AllMissed

(* The mutex excludes: who is not its owner is not in the locked region.   *)
LEMMA Exclusion ==
  ASSUME TypeOK, NEW w \in Waiters,
         wpc[w] \in {"check", "block", "reset", "unlock"}
  PROVE  \A u \in Waiters :
           u # w => wpc[u] \notin {"check", "block", "reset", "unlock"}
<1>1. mutex = w
  BY DEF TypeOK
<1> QED
  BY <1>1 DEF TypeOK

(* A new signal has not been raised.                                       *)
LEMMA InitIInv == Init => IInv
<1> SUFFICES ASSUME Init PROVE IInv
  OBVIOUS
<1>1. isSet \in BOOLEAN /\ auto \in [Waiters -> BOOLEAN]
  BY DEF Init
<1>2. TypeOK
  BY <1>1 DEF Init, TypeOK
<1>3. SignalsPaid
  BY DEF Init, SignalsPaid, Unspent, Lowering
<1>4. LookWasBefore /\ AllMissed
  BY DEF Init, LookWasBefore, AllMissed, Unnotified
<1> QED
  BY <1>2, <1>3, <1>4 DEF IInv

(* A waiter that moves between states other than "reset" changes nothing   *)
(* about the signals.                                                      *)
LEMMA MoveIsFree ==
  ASSUME TypeOK, SignalsPaid,
         NEW w \in Waiters, NEW to \in {"idle", "check", "block", "asleep",
                                        "relock", "unlock"},
         wpc' = [wpc EXCEPT ![w] = to],
         isSet' = isSet, raised' = raised, consumed' = consumed
  PROVE  SignalsPaid'
<1>1. \A u \in Waiters : wpc'[u] = "reset" => wpc[u] = "reset"
  BY DEF TypeOK
<1>2. Lowering' => Lowering
  BY <1>1 DEF Lowering
<1>3. Unspent \in {0, 1} /\ (Unspent' = Unspent \/ Unspent' = 0)
  BY <1>2 DEF Unspent
<1>4. raised \in Nat /\ consumed \in Nat
  BY DEF TypeOK
<1> QED
  BY <1>3, <1>4 DEF SignalsPaid

(* Every step keeps the types and the signals paid for.                    *)
LEMMA NextPaid == TypeOK /\ SignalsPaid /\ [Next]_vars => (TypeOK /\ SignalsPaid)'
<1> SUFFICES ASSUME TypeOK, SignalsPaid, [Next]_vars PROVE (TypeOK /\ SignalsPaid)'
  OBVIOUS
<1>1. ASSUME NEW s \in Setters, SetRaise(s) PROVE (TypeOK /\ SignalsPaid)'
  <2>1. TypeOK'
    <3>1. missed' \in [Waiters -> BOOLEAN]
      BY <1>1 DEF SetRaise
    <3> QED
      BY <1>1, <3>1 DEF SetRaise, TypeOK, waiterVars
  <2>2. SignalsPaid'
    BY <1>1 DEF SetRaise, SignalsPaid, Unspent, Lowering, TypeOK, waiterVars
  <2> QED
    BY <2>1, <2>2
<1>2. ASSUME NEW s \in Setters, SetNotify(s) PROVE (TypeOK /\ SignalsPaid)'
  <2>1. CASE \E w \in Waiters : Asleep(w) /\ Wake(w)
    <3>1. PICK w \in Waiters : Asleep(w) /\ Wake(w)
      BY <2>1
    <3>2. TypeOK'
      BY <1>2, <3>1 DEF SetNotify, Asleep, Wake, TypeOK
    <3>3. SignalsPaid'
      BY <1>2, <3>1, MoveIsFree DEF SetNotify, Wake
    <3> QED
      BY <3>2, <3>3
  <2>2. CASE UNCHANGED wpc
    BY <1>2, <2>2 DEF SetNotify, TypeOK, SignalsPaid, Unspent, Lowering
  <2> QED
    BY <1>2, <2>1, <2>2 DEF SetNotify
<1>3. ASSUME NEW s \in Setters, Reset(s) PROVE (TypeOK /\ SignalsPaid)'
  <2>1. TypeOK'
    <3>1. isSet' \in BOOLEAN
      BY <1>3 DEF Reset
    <3> QED
      BY <1>3, <3>1 DEF Reset, TypeOK, waiterVars
  <2>2. SignalsPaid'
    BY <1>3 DEF Reset, SignalsPaid, Unspent, Lowering, TypeOK, waiterVars
  <2> QED
    BY <2>1, <2>2
<1>4. ASSUME NEW w \in Waiters, NEW reset \in BOOLEAN, WaitLock(w, reset)
      PROVE  (TypeOK /\ SignalsPaid)'
  <2>1. TypeOK'
    BY <1>4 DEF WaitLock, TypeOK
  <2>2. SignalsPaid'
    BY <1>4, MoveIsFree DEF WaitLock
  <2> QED
    BY <2>1, <2>2
<1>5. ASSUME NEW w \in Waiters, WaitCheck(w) PROVE (TypeOK /\ SignalsPaid)'
  <2>1. TypeOK'
    BY <1>5 DEF WaitCheck, TypeOK
  <2>2. ASSUME isSet PROVE SignalsPaid'
    \* The signal is Unspent before, because the flag is up, and after.
    BY <1>5, <2>2 DEF WaitCheck, SignalsPaid, Unspent, TypeOK
  <2>3. ASSUME ~isSet PROVE SignalsPaid'
    BY <1>5, <2>3, MoveIsFree DEF WaitCheck
  <2> QED
    BY <2>1, <2>2, <2>3
<1>6. ASSUME NEW w \in Waiters, WaitBlock(w) PROVE (TypeOK /\ SignalsPaid)'
  <2>1. TypeOK'
    BY <1>6, Exclusion DEF WaitBlock, TypeOK
  <2>2. SignalsPaid'
    BY <1>6, MoveIsFree DEF WaitBlock
  <2> QED
    BY <2>1, <2>2
<1>7. ASSUME NEW w \in Waiters, WaitRelock(w) PROVE (TypeOK /\ SignalsPaid)'
  <2>1. TypeOK'
    BY <1>7 DEF WaitRelock, TypeOK
  <2>2. SignalsPaid'
    BY <1>7, MoveIsFree DEF WaitRelock
  <2> QED
    BY <2>1, <2>2
<1>8. ASSUME NEW w \in Waiters, WaitReset(w) PROVE (TypeOK /\ SignalsPaid)'
  <2>1. TypeOK'
    <3>1. isSet' \in BOOLEAN
      BY <1>8 DEF WaitReset
    <3> QED
      BY <1>8, <3>1 DEF WaitReset, TypeOK
  <2>2. Lowering /\ ~Lowering'
    \* No second waiter is about to lower the flag: it would hold the mutex.
    BY <1>8, Exclusion DEF WaitReset, Lowering, TypeOK
  <2>3. SignalsPaid'
    BY <1>8, <2>2 DEF WaitReset, SignalsPaid, Unspent, TypeOK
  <2> QED
    BY <2>1, <2>3
<1>9. ASSUME NEW w \in Waiters, WaitReturn(w) PROVE (TypeOK /\ SignalsPaid)'
  <2>1. TypeOK'
    BY <1>9, Exclusion DEF WaitReturn, TypeOK
  <2>2. SignalsPaid'
    BY <1>9, MoveIsFree DEF WaitReturn
  <2> QED
    BY <2>1, <2>2
<1>10. ASSUME NEW w \in Waiters, SpuriousWake(w) PROVE (TypeOK /\ SignalsPaid)'
  <2>1. TypeOK'
    BY <1>10 DEF SpuriousWake, Asleep, Wake, TypeOK
  <2>2. SignalsPaid'
    BY <1>10, MoveIsFree DEF SpuriousWake, Wake
  <2> QED
    BY <2>1, <2>2
<1>11. CASE UNCHANGED vars
  BY <1>11 DEF vars, waiterVars, TypeOK, SignalsPaid, Unspent, Lowering
<1> QED
  BY <1>1, <1>2, <1>3, <1>4, <1>5, <1>6, <1>7, <1>8, <1>9, <1>10, <1>11
     DEF Next, Running, SetAlready

(* Every step keeps what is known of the waiters that are asleep or about  *)
(* to be.                                                                  *)
LEMMA NextMissed ==
  TypeOK /\ LookWasBefore /\ AllMissed /\ [Next]_vars => (LookWasBefore /\ AllMissed)'
<1> SUFFICES ASSUME TypeOK, LookWasBefore, AllMissed, [Next]_vars
             PROVE  (LookWasBefore /\ AllMissed)'
  OBVIOUS
<1> USE DEF LookWasBefore, AllMissed, NobodyUp, Unnotified, TypeOK
<1>1. ASSUME NEW s \in Setters, SetRaise(s) PROVE (LookWasBefore /\ AllMissed)'
  \* Whoever is about to sleep misses it, and the notification is to come.
  <2>1. spc'[s] = "notify"
    BY <1>1 DEF SetRaise
  <2>2. \A w \in Waiters : wpc'[w] = "block" => missed'[w]
    BY <1>1 DEF SetRaise, waiterVars
  <2> QED
    BY <2>1, <2>2
<1>2. ASSUME NEW s \in Setters, SetNotify(s) PROVE (LookWasBefore /\ AllMissed)'
  <2>1. CASE \E w \in Waiters : Asleep(w) /\ Wake(w)
    \* The waiter that is woken is up.
    <3>1. PICK w \in Waiters : Asleep(w) /\ Wake(w)
      BY <2>1
    <3>2. wpc'[w] = "relock" /\ \A u \in Waiters : wpc'[u] = "block" => wpc[u] = "block"
      BY <3>1 DEF Wake
    <3> QED
      BY <1>2, <3>2 DEF SetNotify
  <2>2. CASE (\A w \in Waiters : ~Asleep(w)) /\ UNCHANGED wpc
    \* Nobody is asleep, so that whoever is not up is about to sleep.
    BY <1>2, <2>2 DEF SetNotify, Asleep
  <2> QED
    BY <1>2, <2>1, <2>2 DEF SetNotify
<1>3. ASSUME NEW s \in Setters, Reset(s) PROVE (LookWasBefore /\ AllMissed)'
  BY <1>3 DEF Reset
<1>4. ASSUME NEW w \in Waiters, NEW reset \in BOOLEAN, WaitLock(w, reset)
      PROVE  (LookWasBefore /\ AllMissed)'
  BY <1>4 DEF WaitLock
<1>5. ASSUME NEW w \in Waiters, WaitCheck(w) PROVE (LookWasBefore /\ AllMissed)'
  <2>1. CASE isSet
    \* It sees the flag up and does not go to sleep.
    <3>1. wpc'[w] \in {"reset", "unlock"} /\ UNCHANGED <<isSet, spc>>
      BY <1>5, <2>1 DEF WaitCheck
    <3>2. \A u \in Waiters : u # w => wpc'[u] = wpc[u] /\ missed'[u] = missed[u]
      BY <1>5 DEF WaitCheck
    <3> QED
      BY <3>1, <3>2
  <2>2. CASE ~isSet
    BY <1>5, <2>2 DEF WaitCheck
  <2> QED
    BY <2>1, <2>2
<1>6. ASSUME NEW w \in Waiters, WaitBlock(w) PROVE (LookWasBefore /\ AllMissed)'
  <2>1. \A u \in Waiters : wpc'[u] \in {"asleep", "block"} => wpc[u] \in {"asleep", "block"}
    BY <1>6 DEF WaitBlock
  <2>2. \A u \in Waiters : wpc'[u] = "block" => wpc[u] = "block"
    BY <1>6 DEF WaitBlock
  <2> QED
    BY <1>6, <2>1, <2>2 DEF WaitBlock
<1>7. ASSUME NEW w \in Waiters, WaitRelock(w) PROVE (LookWasBefore /\ AllMissed)'
  BY <1>7 DEF WaitRelock
<1>8. ASSUME NEW w \in Waiters, WaitReset(w) PROVE (LookWasBefore /\ AllMissed)'
  BY <1>8 DEF WaitReset
<1>9. ASSUME NEW w \in Waiters, WaitReturn(w) PROVE (LookWasBefore /\ AllMissed)'
  BY <1>9 DEF WaitReturn
<1>10. ASSUME NEW w \in Waiters, SpuriousWake(w) PROVE (LookWasBefore /\ AllMissed)'
  <2>1. wpc'[w] = "relock" /\ \A u \in Waiters : wpc'[u] = "block" => wpc[u] = "block"
    BY <1>10 DEF SpuriousWake, Asleep, Wake
  <2> QED
    BY <1>10, <2>1 DEF SpuriousWake
<1>11. CASE UNCHANGED vars
  BY <1>11 DEF vars
<1> QED
  BY <1>1, <1>2, <1>3, <1>4, <1>5, <1>6, <1>7, <1>8, <1>9, <1>10, <1>11
     DEF Next, Running, SetAlready

(* The inductive invariant holds in every reachable state.                 *)
THEOREM Inductive == Spec => []IInv
<1>1. IInv /\ [Next]_vars => IInv'
  BY NextPaid, NextMissed DEF IInv
<1> QED
  BY InitIInv, <1>1, PTL DEF Spec

(* Type correctness, and with it mutual exclusion: the mutex is held       *)
(* exactly by the waiter that is between its lock and its sleep or return. *)
THEOREM TypeCorrect == Spec => []TypeOK
  BY Inductive, PTL DEF IInv

(* However many threads set, reset and wait, no more auto-resetting waits  *)
(* get past their sleep than calls of signal_set have returned true.       *)
THEOREM SignalsConsumedOnce == Spec => []OneReturnPerSet
<1>1. IInv => OneReturnPerSet
  BY DEF IInv, TypeOK, SignalsPaid, Unspent, OneReturnPerSet
<1> QED
  BY Inductive, <1>1, PTL

(* If everybody sleeps through a raised flag that nobody is about to       *)
(* notify, the flag went up after everybody's look at it and before        *)
(* everybody's sleep, whatever was set, reset and woken before.            *)
THEOREM LostBeforeSleep == Spec => []LostOnlyBeforeSleep
<1>1. IInv => LostOnlyBeforeSleep
  BY DEF IInv, AllMissed, NobodyUp, Unnotified, LostOnlyBeforeSleep, Asleep
<1> QED
  BY Inductive, <1>1, PTL
==============================================================================
