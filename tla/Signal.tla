-------------------------------- MODULE Signal --------------------------------
(***************************************************************************)
(* c_signal.cpp: a flag (m_is_set), a mutex and a condition variable.      *)
(* signal_set raises the flag without taking the mutex and notifies one    *)
(* waiter if it was down; signal_wait holds the mutex while it looks at    *)
(* the flag, sleeps on the condition variable while the flag is down, and  *)
(* lowers the flag before it returns if asked to reset.                    *)
(*                                                                         *)
(* The condition variable and the mutex are the standard library's: a wait *)
(* releases the mutex and goes to sleep in one step, may wake up without   *)
(* having been notified, and takes the mutex again before it looks at the  *)
(* flag; a notification that finds nobody asleep has no effect.            *)
(***************************************************************************)
EXTENDS Naturals, FiniteSets

CONSTANTS
  Setters,  \* the threads that call signal_set and signal_reset
  Waiters,  \* the threads that call signal_wait
  Nobody,   \* the owner of the mutex when it is free
  MaxSets,  \* bound: how many calls of signal_set return true
  MaxResets \* bound: how many times signal_reset is called

ASSUME ThreadsAssumption == Setters \cap Waiters = {}
ASSUME NobodyAssumption == Nobody \notin Waiters
ASSUME BoundsAssumption == MaxSets \in Nat /\ MaxResets \in Nat

VARIABLES
  isSet,    \* m_is_set
  mutex,    \* who holds m_mutex
  spc,      \* per setter: where it is in signal_set
  wpc,      \* per waiter: where it is in signal_wait
  auto,     \* per waiter: the argument autoReset of its call
  raised,   \* history: how many calls of signal_set returned true
  resets,   \* history: how many times signal_reset was called
  consumed, \* history: how many auto-resetting waits have got past their sleep
  missed    \* history, per waiter: whether the flag was raised between its last
            \* look at it and its going to sleep

vars == <<isSet, mutex, spc, wpc, auto, raised, resets, consumed, missed>>

waiterVars == <<mutex, wpc, auto, consumed>>

\* signal_create
Init ==
  /\ isSet = FALSE
  /\ mutex = Nobody
  /\ spc = [s \in Setters |-> "idle"]
  /\ wpc = [w \in Waiters |-> "idle"]
  /\ auto = [w \in Waiters |-> TRUE]
  /\ raised = 0
  /\ resets = 0
  /\ consumed = 0
  /\ missed = [w \in Waiters |-> FALSE]
------------------------------------------------------------------------------
\* signal_set: the exchange, which raises the flag ...
SetRaise(s) ==
  /\ spc[s] = "idle"
  /\ ~isSet
  /\ raised < MaxSets
  /\ isSet' = TRUE
  /\ raised' = raised + 1
  /\ spc' = [spc EXCEPT ![s] = "notify"]
  /\ missed' = [w \in Waiters |-> missed[w] \/ wpc[w] = "block"]
  /\ UNCHANGED <<resets, waiterVars>>

\* ... or finds it up, and then that is all of the call.
SetAlready(s) ==
  /\ spc[s] = "idle"
  /\ isSet
  /\ UNCHANGED vars

Asleep(w) == wpc[w] = "asleep"

Wake(w) == wpc' = [wpc EXCEPT ![w] = "relock"]

\* Mutant: the notification is left out.
SetNotifyNobody(s) ==
  /\ spc[s] = "notify"
  /\ spc' = [spc EXCEPT ![s] = "idle"]
  /\ UNCHANGED <<isSet, mutex, wpc, auto, raised, resets, consumed, missed>>

\* signal_set: notify_one.
SetNotify(s) ==
  /\ spc[s] = "notify"
  /\ spc' = [spc EXCEPT ![s] = "idle"]
  /\ \/ \E w \in Waiters : Asleep(w) /\ Wake(w)
     \/ (\A w \in Waiters : ~Asleep(w)) /\ UNCHANGED wpc
  /\ UNCHANGED <<isSet, mutex, auto, raised, resets, consumed, missed>>

\* signal_reset
Reset(s) ==
  /\ spc[s] = "idle"
  /\ resets < MaxResets
  /\ isSet' = FALSE
  /\ resets' = resets + 1
  /\ UNCHANGED <<spc, raised, missed, waiterVars>>
------------------------------------------------------------------------------
\* signal_wait(event, reset): lock the mutex.
WaitLock(w, reset) ==
  /\ wpc[w] = "idle"
  /\ mutex = Nobody
  /\ mutex' = w
  /\ auto' = [auto EXCEPT ![w] = reset]
  /\ wpc' = [wpc EXCEPT ![w] = "check"]
  /\ UNCHANGED <<isSet, spc, raised, resets, consumed, missed>>

\* The predicate of m_condition.wait: load the flag.
WaitCheck(w) ==
  /\ wpc[w] = "check"
  /\ wpc' = [wpc EXCEPT ![w] = IF ~isSet THEN "block"
                               ELSE IF auto[w] THEN "reset" ELSE "unlock"]
  /\ missed' = [missed EXCEPT ![w] = FALSE]
  /\ UNCHANGED <<isSet, mutex, spc, auto, raised, resets, consumed>>

\* Mutant: the mutex is kept while asleep.
WaitBlockHolding(w) ==
  /\ wpc[w] = "block"
  /\ wpc' = [wpc EXCEPT ![w] = "asleep"]
  /\ UNCHANGED <<isSet, mutex, spc, auto, raised, resets, consumed, missed>>

\* m_condition.wait: release the mutex and sleep, in one step.
WaitBlock(w) ==
  /\ wpc[w] = "block"
  /\ mutex' = Nobody
  /\ wpc' = [wpc EXCEPT ![w] = "asleep"]
  /\ UNCHANGED <<isSet, spc, auto, raised, resets, consumed, missed>>

SpuriousWake(w) ==
  /\ Asleep(w)
  /\ Wake(w)
  /\ UNCHANGED <<isSet, mutex, spc, auto, raised, resets, consumed, missed>>

\* Mutant: a waiter that was woken does not wait for the mutex.
WaitRelockAnyway(w) ==
  /\ wpc[w] = "relock"
  /\ mutex' = w
  /\ wpc' = [wpc EXCEPT ![w] = "check"]
  /\ UNCHANGED <<isSet, spc, auto, raised, resets, consumed, missed>>

\* A waiter that was woken takes the mutex again and looks at the flag.
WaitRelock(w) ==
  /\ wpc[w] = "relock"
  /\ mutex = Nobody
  /\ mutex' = w
  /\ wpc' = [wpc EXCEPT ![w] = "check"]
  /\ UNCHANGED <<isSet, spc, auto, raised, resets, consumed, missed>>

WaitReset(w) ==
  /\ wpc[w] = "reset"
  /\ isSet' = FALSE
  /\ consumed' = consumed + 1
  /\ wpc' = [wpc EXCEPT ![w] = "unlock"]
  /\ UNCHANGED <<mutex, spc, auto, raised, resets, missed>>

\* The lock goes out of scope and signal_wait returns.
WaitReturn(w) ==
  /\ wpc[w] = "unlock"
  /\ mutex' = Nobody
  /\ wpc' = [wpc EXCEPT ![w] = "idle"]
  /\ UNCHANGED <<isSet, spc, auto, raised, resets, consumed, missed>>
------------------------------------------------------------------------------
Running(w) ==
  \/ WaitCheck(w)
  \/ WaitBlock(w)
  \/ WaitRelock(w)
  \/ WaitReset(w)
  \/ WaitReturn(w)

Next ==
  \/ \E s \in Setters : SetRaise(s) \/ SetAlready(s) \/ SetNotify(s) \/ Reset(s)
  \/ \E w \in Waiters : \E reset \in BOOLEAN : WaitLock(w, reset)
  \/ \E w \in Waiters : Running(w) \/ SpuriousWake(w)

Spec == Init /\ [][Next]_vars
------------------------------------------------------------------------------
(* Type invariant; the mutex is held exactly from lock to sleep or return. *)
TypeOK ==
  /\ isSet \in BOOLEAN
  /\ spc \in [Setters -> {"idle", "notify"}]
  /\ wpc \in [Waiters -> {"idle", "check", "block", "asleep", "relock",
                          "reset", "unlock"}]
  /\ auto \in [Waiters -> BOOLEAN]
  /\ raised \in 0..MaxSets
  /\ resets \in 0..MaxResets
  /\ consumed \in Nat
  /\ missed \in [Waiters -> BOOLEAN]
  /\ \A w \in Waiters :
       mutex = w <=> wpc[w] \in {"check", "block", "reset", "unlock"}

(* A signal is consumed once: however many threads wait with autoReset, no *)
(* more of them get past their wait than signal_set has reported raising,  *)
(* because the flag is looked at and lowered under the same lock.          *)
OneReturnPerSet == consumed <= raised

(* A wake-up is lost in one way only.  If everybody who waits is asleep    *)
(* although the flag is up, and no notification is on its way, then each   *)
(* of them looked at the flag before it was raised and went to sleep after *)
(* that: the setter, which does not take the mutex, came in between.  No   *)
(* set that finds a waiter asleep, no reset between a set and its          *)
(* notification and no spurious wake-up leads there.                       *)
LostOnlyBeforeSleep ==
  isSet /\ (\A s \in Setters : spc[s] = "idle") /\ (\A w \in Waiters : Asleep(w))
    => \A w \in Waiters : missed[w]
==============================================================================
