------------------------------- MODULE JobBoard -------------------------------
(***************************************************************************)
(* What the job system promises, whoever does the work and with whatever   *)
(* queues, signals and counters: requests are put on a board, somebody     *)
(* runs ranges of their iterations that nobody has run, and the board is   *)
(* taken down when no iteration is left.                                   *)
(***************************************************************************)
EXTENDS Naturals, Sequences

CONSTANTS
  Requests, \* the requests, each with the field total
  MaxCalls  \* how many of them are made at most

VARIABLES
  calls, \* the requests made so far
  ran,   \* how often each iteration of each request has been run
  closed \* the board has been taken down

boardVars == <<calls, ran, closed>>

Init ==
  /\ calls = <<>>
  /\ ran = [c \in 1..MaxCalls |-> <<>>]
  /\ closed = FALSE

Make(req) ==
  /\ ~closed
  /\ Len(calls) < MaxCalls
  /\ calls' = Append(calls, req)
  /\ ran' = [ran EXCEPT ![Len(calls) + 1] = [i \in 0..(req.total - 1) |-> 0]]
  /\ UNCHANGED closed

\* Iterations first to last of request c are run by one call of job_execute.
RunRange(c, first, last) ==
  /\ ~closed
  /\ first <= last
  /\ \A i \in first..last : ran[c][i] = 0
  /\ ran' = [ran EXCEPT ![c] =
               [i \in DOMAIN @ |-> IF i \in first..last THEN 1 ELSE @[i]]]
  /\ UNCHANGED <<calls, closed>>

Close ==
  /\ \A c \in 1..Len(calls) : \A i \in DOMAIN ran[c] : ran[c][i] = 1
  /\ closed' = TRUE
  /\ UNCHANGED <<calls, ran>>

Next ==
  \/ \E req \in Requests : Make(req)
  \/ \E c \in 1..Len(calls) : \E first, last \in DOMAIN ran[c] : RunRange(c, first, last)
  \/ Close

Spec == Init /\ [][Next]_boardVars
==============================================================================
