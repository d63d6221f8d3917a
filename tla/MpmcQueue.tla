------------------------------ MODULE MpmcQueue ------------------------------
(***************************************************************************)
(* namespace mpmc of c_queue.cpp: any thread may push and pop, and both    *)
(* operations claim their position with a compare-exchange.                *)
(***************************************************************************)
EXTENDS TurnQueue

Next == \E t \in Threads : Step(t) \/ \E o \in Ops : Call(t, o)

Spec == Init /\ [][Next]_vars
==============================================================================
