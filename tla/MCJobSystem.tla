------------------------------ MODULE MCJobSystem ------------------------------
(***************************************************************************)
(* Values of the constants of JobSystem for TLC.                           *)
(***************************************************************************)
EXTENDS JobSystem

\* A job from context 0 and one from the scheduling thread's own, whose last
\* range is short.
MCRequests == {Single, Parallel(3, 2)}

MCSingle == {Single}
==============================================================================
