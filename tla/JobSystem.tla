------------------------------- MODULE JobSystem -------------------------------
(***************************************************************************)
(* c_job.cpp: one thread schedules jobs (g_schedule, g_schedule_single,    *)
(* g_schedule_parallel) and finally destroys the system; the workers run   *)
(* s_worker_thread.  To schedule a job is to fill in a work_t, post its    *)
(* ticket to EVERY worker's queue and raise every worker's signal; each    *)
(* worker claims ranges of iterations until none is left and then gives up *)
(* its reference.                                                          *)
(*                                                                         *)
(* Work queues: an enqueue, with the bit it sets, and an inspect, with the *)
(* whole drain, are one step each (MpscQueue has their steps; a drain into *)
(* an empty ring finds room if the scheduler posts nothing meanwhile).     *)
(* Signals have the steps of Signal, without the mutex: a signal has one   *)
(* waiter.  Contexts are taken to be set up as the comments in             *)
(* g_create_system and context_t say: signals created and every work_t of  *)
(* a context in its free queue.                                            *)
(***************************************************************************)
EXTENDS LocalRing, SequencesExt, FiniteSets, FiniteSetsExt

CONSTANTS
  NumWorkers, \* m_workers_num
  MaxJobs,    \* m_max_jobs of every context, and the size of its queues
  MaxInt,     \* the largest s32, 2^31 - 1 in the code
  Requests,   \* the calls the scheduling thread may make
  MaxCalls    \* bound: how many calls it makes before g_destroy

Workers == 0..(NumWorkers - 1)

\* The context slot the scheduling thread registered; g_schedule takes its
\* work_t from context 0 all the same.
Main == NumWorkers
Owners == {0, Main}

\* A request: whose work_t is used, m_total_iter_count, m_inner_iter_count.
Single == [owner |-> 0, total |-> 1, inner |-> 1]
For(n) == [owner |-> Main, total |-> n, inner |-> n]
Parallel(n, k) == [owner |-> Main, total |-> n, inner |-> k]

ASSUME NumWorkersAssumption == NumWorkers \in Nat \ {0}
ASSUME MaxJobsAssumption == MaxJobs \in Nat \ {0}
ASSUME MaxCallsAssumption == MaxCalls \in Nat
\* A call of g_schedule_single for no iterations, For(0), is left out.
ASSUME RequestsAssumption ==
  Requests \subseteq [owner : Owners, total : Nat, inner : Nat \ {0}]
\* Nothing in the code keeps a caller to MaxIntAssumption; ArithmeticFits says
\* what it buys.
ASSUME MaxIntAssumption ==
  /\ MaxInt \in Nat
  /\ \A req \in Requests : req.total + NumWorkers * req.inner <= MaxInt

Tickets == Owners \X (0..(MaxJobs - 1))
QuitWork == <<Main, MaxJobs>> \* s_quit_work, which is no work_t's ticket
NoWork == <<Main, MaxJobs + 1>>
Calls == 1..MaxCalls

\* The iterations of range k of a request, as first and last + 1.
WorkBegin(k, req) == Min({k * req.inner, req.total})

\* Mutant: the last iteration of a range is taken to be part of it.
WorkEndInclusive(k, req) == Min({WorkBegin(k, req) + req.inner + 1, req.total})

WorkEnd(k, req) == Min({WorkBegin(k, req) + req.inner, req.total})
Iterations(k, req) == {i \in 0..(req.total - 1) : WorkBegin(k, req) <= i /\ i < WorkEnd(k, req)}

\* Mutant: the division is not rounded up.
NumRangesDown(req) == req.total \div req.inner

NumRanges(req) == (req.total + (req.inner - 1)) \div req.inner

VARIABLES
  calls,  \* history: the requests made so far
  spc,    \* where the scheduling thread is
  sj,     \* its loop variable j or i, 0 outside a loop
  ticket, \* the ticket it is posting, or QuitWork
  free,   \* m_jobs_free_queue of each context
  done,   \* m_jobs_done_queue of each context, in the order of the enqueues
  work,   \* work_t by ticket
  boxes,  \* m_scheduled_work of each worker: its producer queues
  ring,   \* m_scheduled_work of each worker: its consumer ring
  sig,    \* m_signal of each worker: m_is_set
  wpc,    \* where each worker is
  batch,  \* begin, i and end of each worker
  hand,   \* the ticket each worker works on and its work_index
  ran,    \* history: how often each iteration of each call was executed
  finished \* history: how often job_finished was called for each call

schedulerVars == <<calls, spc, sj, ticket, free>>
queueVars == <<boxes, ring, batch>>
workVars == <<work, done, ran, finished>>
vars == <<schedulerVars, queueVars, workVars, sig, wpc, hand>>

NoBatch == [begin |-> 0, i |-> 0, end |-> 0]
NoHand == [ticket |-> NoWork, k |-> 0]
NoJob == [call |-> 0, next |-> 0, todo |-> 0, ref |-> 0]

Init ==
  /\ calls = <<>>
  /\ spc = "idle"
  /\ sj = 0
  /\ ticket = NoWork
  /\ free = [o \in Owners |-> [n \in 1..MaxJobs |-> n - 1]]
  /\ done = [o \in Owners |-> <<>>]
  /\ work = [t \in Tickets |-> NoJob]
  /\ boxes = [w \in Workers |-> [p \in Workers |-> <<>>]]
  /\ ring = [w \in Workers |-> NewRing(NumWorkers * MaxJobs + 1, NoWork)]
  /\ sig = [w \in Workers |-> FALSE]
  /\ wpc = [w \in Workers |-> "inspect"]
  /\ batch = [w \in Workers |-> NoBatch]
  /\ hand = [w \in Workers |-> NoHand]
  /\ ran = [c \in Calls |-> <<>>]
  /\ finished = [c \in Calls |-> 0]
------------------------------------------------------------------------------
\* What queue_dequeue leaves in a free queue.
WithoutFirst(q) == IF q = <<>> THEN q ELSE Tail(q)

\* s_schedule_*: take a work_t and fill it in.  The result of the dequeue is
\* not looked at: job_index stays 0 when the free queue is empty.
Schedule(req) ==
  /\ spc = "idle"
  /\ Len(calls) < MaxCalls
  /\ LET q == free[req.owner]
         t == <<req.owner, IF q = <<>> THEN 0 ELSE Head(q)>>
         c == Len(calls) + 1
     IN  /\ free' = [free EXCEPT ![req.owner] = WithoutFirst(q)]
         /\ ticket' = t
         /\ work' = [work EXCEPT ![t] = [call |-> c, next |-> 0,
                                         todo |-> NumRanges(req), ref |-> NumWorkers]]
         /\ calls' = Append(calls, req)
         /\ ran' = [ran EXCEPT ![c] = [i \in 0..(req.total - 1) |-> 0]]
  /\ spc' = "post"
  /\ sj' = 0
  /\ UNCHANGED <<queueVars, done, finished, sig, wpc, hand>>

\* g_destroy starts.
Destroy ==
  /\ spc = "idle"
  /\ ticket' = QuitWork
  /\ spc' = "post"
  /\ sj' = 0
  /\ UNCHANGED <<calls, free, queueVars, workVars, sig, wpc, hand>>

Quitting == ticket = QuitWork

\* Mutants: the loops over the workers end one worker early, or late.
LastWorkerEarly == sj + 2 >= NumWorkers
LastWorkerLate == sj = NumWorkers

\* Worker sj is the last one of a loop over the workers.
LastWorker == sj + 1 = NumWorkers

\* Go on with the next worker at here, or leave the loop for there.
NextWorker(here, there) ==
  IF LastWorker THEN sj' = 0 /\ spc' = there ELSE sj' = sj + 1 /\ spc' = here

\* queue_enqueue(m_scheduled_work of worker sj, producer, ticket), whose result
\* is not looked at.  The producer is the worker's own index, or 0 for the quit.
Post ==
  /\ spc = "post"
  /\ LET p == IF Quitting THEN 0 ELSE sj
     IN  boxes' = [boxes EXCEPT ![sj][p] =
                     IF Len(@) < MaxJobs THEN Append(@, ticket) ELSE @]
  /\ IF Quitting THEN spc' = "set" /\ UNCHANGED sj ELSE NextWorker("post", "set")
  /\ UNCHANGED <<calls, ticket, free, ring, batch, workVars, sig, wpc, hand>>

\* On to the next worker once worker sj's signal is set.
AfterSet ==
  /\ IF Quitting THEN NextWorker("post", "join") ELSE NextWorker("set", "idle")
  /\ ticket' = IF LastWorker /\ ~Quitting THEN NoWork ELSE ticket

\* Mutant: a worker that is awake is not signalled.
RaisedIfAsleep == [sig EXCEPT ![sj] = wpc[sj] = "asleep"]

Raised == [sig EXCEPT ![sj] = TRUE]

\* signal_set(m_signal of worker sj): the exchange.
SetRaise ==
  /\ spc = "set"
  /\ ~sig[sj]
  /\ sig' = Raised
  /\ spc' = "notify"
  /\ UNCHANGED <<calls, sj, ticket, free, queueVars, workVars, wpc, hand>>

SetAlready ==
  /\ spc = "set"
  /\ sig[sj]
  /\ AfterSet
  /\ UNCHANGED <<calls, free, queueVars, workVars, sig, wpc, hand>>

\* signal_set: notify_one.
SetNotify ==
  /\ spc = "notify"
  /\ wpc' = IF wpc[sj] = "asleep" THEN [wpc EXCEPT ![sj] = "check"] ELSE wpc
  /\ AfterSet
  /\ UNCHANGED <<calls, free, queueVars, workVars, sig, hand>>

\* Mutant: the threads are detached, not joined.
JoinableAlways(w) == TRUE

Joinable(w) == wpc[w] = "exited"

\* g_destroy: join worker sj; after the last one the system is gone.
Join ==
  /\ spc = "join"
  /\ Joinable(sj)
  /\ NextWorker("join", "gone")
  /\ UNCHANGED <<calls, ticket, free, queueVars, workVars, sig, wpc, hand>>
------------------------------------------------------------------------------
Goto(w, pc) == wpc' = [wpc EXCEPT ![w] = pc]

Mail(w) == FlattenSeq([n \in 1..NumWorkers |-> boxes[w][n - 1]])

\* queue_inspect: what is in the ring, or else what the queues hold.
Inspect(w) ==
  /\ wpc[w] = "inspect"
  /\ LET r == IF IsEmpty(ring[w]) THEN AddMultiple(ring[w], Mail(w)) ELSE ring[w]
     IN  /\ ring' = [ring EXCEPT ![w] = r]
         /\ boxes' = IF IsEmpty(ring[w])
                       THEN [boxes EXCEPT ![w] = [p \in Workers |-> <<>>]]
                       ELSE boxes
         /\ IF IsEmpty(r)
              THEN Goto(w, "check") /\ UNCHANGED batch
              ELSE /\ Goto(w, "fetch")
                   /\ batch' = [batch EXCEPT ![w] = [begin |-> r.reader, i |-> r.reader,
                                                     end |-> r.writer]]
  /\ UNCHANGED <<schedulerVars, workVars, sig, hand>>

\* signal_wait(m_signal, true): the predicate, the sleep, the reset.
WaitCheck(w) ==
  /\ wpc[w] = "check"
  /\ Goto(w, IF sig[w] THEN "reset" ELSE "block")
  /\ UNCHANGED <<schedulerVars, queueVars, workVars, sig, hand>>

WaitBlock(w) ==
  /\ wpc[w] = "block"
  /\ Goto(w, "asleep")
  /\ UNCHANGED <<schedulerVars, queueVars, workVars, sig, hand>>

SpuriousWake(w) ==
  /\ wpc[w] = "asleep"
  /\ Goto(w, "check")
  /\ UNCHANGED <<schedulerVars, queueVars, workVars, sig, hand>>

WaitReset(w) ==
  /\ wpc[w] = "reset"
  /\ sig' = [sig EXCEPT ![w] = FALSE]
  /\ Goto(w, "inspect")
  /\ UNCHANGED <<schedulerVars, queueVars, workVars, hand>>

\* queue_dequeue of the next ticket of the batch, while i < end.
Fetch(w) ==
  /\ wpc[w] = "fetch"
  /\ batch[w].i < batch[w].end
  /\ LET t == ring[w].slots[batch[w].i]
     IN  IF t = QuitWork
           THEN Goto(w, "quit") /\ UNCHANGED hand
           ELSE Goto(w, "claim") /\ hand' = [hand EXCEPT ![w] = [ticket |-> t, k |-> 0]]
  /\ batch' = [batch EXCEPT ![w].i = RingNext(ring[w], @)]
  /\ UNCHANGED <<schedulerVars, boxes, ring, workVars, sig>>

\* The job a worker works on, and the request it was made for.
Job(w) == work[hand[w].ticket]
Req(w) == calls[Job(w).call]

\* m_work_indexx.fetch_add, and whether its range is a valid one.
Claim(w) ==
  /\ wpc[w] = "claim"
  /\ LET k == Job(w).next
     IN  /\ work' = [work EXCEPT ![hand[w].ticket].next = k + 1]
         /\ hand' = [hand EXCEPT ![w].k = k]
         /\ Goto(w, IF WorkBegin(k, Req(w)) < WorkEnd(k, Req(w)) THEN "execute" ELSE "unref")
  /\ UNCHANGED <<schedulerVars, queueVars, done, ran, finished, sig>>

\* job_execute(work_begin, work_end)
Execute(w) ==
  /\ wpc[w] = "execute"
  /\ ran' = [ran EXCEPT ![Job(w).call] =
               [i \in DOMAIN @ |-> IF i \in Iterations(hand[w].k, Req(w))
                                     THEN @[i] + 1 ELSE @[i]]]
  /\ Goto(w, "count")
  /\ UNCHANGED <<schedulerVars, queueVars, work, done, finished, sig, hand>>

\* m_done_index.fetch_sub; job_finished if the value BEFORE it was 0.
CountDone(w) ==
  /\ wpc[w] = "count"
  /\ work' = [work EXCEPT ![hand[w].ticket].todo = @ - 1]
  /\ finished' = [finished EXCEPT ![Job(w).call] = IF Job(w).todo = 0 THEN @ + 1 ELSE @]
  /\ Goto(w, "claim")
  /\ UNCHANGED <<schedulerVars, queueVars, done, ran, sig, hand>>

\* Mutant: only the last worker to give up its reference leaves the loop.
AfterUnrefLoops(t) == IF work[t].ref = 1 THEN "fetch" ELSE "claim"

AfterUnref(t) == "fetch"

\* m_ref_count.fetch_sub; the work_t is returned if the value BEFORE it was 0.
\* Then out of the loop over the ranges of the job.
Unref(w) ==
  /\ wpc[w] = "unref"
  /\ LET t == hand[w].ticket
     IN  /\ work' = [work EXCEPT ![t].ref = @ - 1]
         /\ done' = [done EXCEPT ![t[1]] = IF Job(w).ref = 0 THEN Append(@, t[2]) ELSE @]
         /\ Goto(w, AfterUnref(t))
         /\ hand' = IF AfterUnref(t) = "fetch" THEN [hand EXCEPT ![w] = NoHand] ELSE hand
  /\ UNCHANGED <<schedulerVars, queueVars, ran, finished, sig>>

\* queue_release(begin, end), and out of the loop after a quit.
ReleaseBatch(w) ==
  /\ \/ wpc[w] = "fetch" /\ batch[w].i >= batch[w].end
     \/ wpc[w] = "quit"
  /\ ring' = [ring EXCEPT ![w] = Release(@, batch[w].end)]
  /\ batch' = [batch EXCEPT ![w] = NoBatch]
  /\ Goto(w, IF wpc[w] = "quit" THEN "exited" ELSE "inspect")
  /\ UNCHANGED <<schedulerVars, boxes, workVars, sig, hand>>
------------------------------------------------------------------------------
Worker(w) ==
  \/ Inspect(w)
  \/ WaitCheck(w)
  \/ WaitBlock(w)
  \/ WaitReset(w)
  \/ Fetch(w)
  \/ Claim(w)
  \/ Execute(w)
  \/ CountDone(w)
  \/ Unref(w)
  \/ ReleaseBatch(w)

\* What the scheduling thread does inside a call.
Scheduler ==
  \/ Post
  \/ SetRaise
  \/ SetAlready
  \/ SetNotify
  \/ Join

\* The system is destroyed and its threads are gone.
Terminated == spc = "gone" /\ UNCHANGED vars

Next ==
  \/ \E req \in Requests : Schedule(req)
  \/ Destroy
  \/ Scheduler
  \/ Terminated
  \/ \E w \in Workers : Worker(w) \/ SpuriousWake(w)

Spec == Init /\ [][Next]_vars

\* The operating system runs every thread that can run.  Nobody has to make a
\* call, and no wake-up is spurious of necessity.
FairSpec ==
  /\ Spec
  /\ WF_vars(Scheduler)
  /\ \A w \in Workers : WF_vars(Worker(w))
------------------------------------------------------------------------------
(* Type invariant. *)
TypeOK ==
  /\ calls \in Seq(Requests) /\ Len(calls) <= MaxCalls
  /\ spc \in {"idle", "post", "set", "notify", "join", "gone"}
  /\ sj \in Workers
  /\ ticket \in Tickets \cup {QuitWork, NoWork}
  /\ free \in [Owners -> Seq(0..(MaxJobs - 1))]
  /\ done \in [Owners -> Seq(0..(MaxJobs - 1))]
  /\ work \in [Tickets -> [call : 0..MaxCalls, next : Nat, todo : Int, ref : Int]]
  /\ boxes \in [Workers -> [Workers -> Seq(Tickets \cup {QuitWork})]]
  /\ ring \in [Workers ->
                 [slots    : [0..(NumWorkers * MaxJobs) -> Tickets \cup {QuitWork, NoWork}],
                  capacity : {NumWorkers * MaxJobs + 1},
                  writer   : 0..(NumWorkers * MaxJobs),
                  reader   : 0..(NumWorkers * MaxJobs)]]
  /\ sig \in [Workers -> BOOLEAN]
  /\ wpc \in [Workers -> {"inspect", "check", "block", "asleep", "reset", "fetch", "quit",
                          "claim", "execute", "count", "unref", "exited"}]
  /\ batch \in [Workers -> [{"begin", "i", "end"} -> 0..(NumWorkers * MaxJobs)]]
  /\ hand \in [Workers -> [ticket : Tickets \cup {NoWork}, k : Nat]]
  /\ \A w \in Workers : wpc[w] \in {"claim", "execute", "count", "unref"}
                          <=> hand[w].ticket \in Tickets
  /\ finished \in [Calls -> Nat]

Made == 1..Len(calls)

(* However the workers interleave, no iteration of a job is executed twice: *)
(* the fetch_add hands every range to one worker.                           *)
NoIterationTwice ==
  \A c \in Made : \A i \in DOMAIN ran[c] : ran[c][i] <= 1

(* The s32 arithmetic of a claim never overflows: m_work_indexx goes on     *)
(* beyond the last range, but each worker leaves the job after one claim    *)
(* too many, so that work_index * inner stays below total + workers *       *)
(* inner.                                                                   *)
ArithmeticFits ==
  \A w \in Workers : wpc[w] = "claim" =>
    /\ Job(w).next * Req(w).inner <= MaxInt
    /\ WorkBegin(Job(w).next, Req(w)) + Req(w).inner <= MaxInt

AllRan(c) == \A i \in DOMAIN ran[c] : ran[c][i] = 1

\* The ranges of a call that have been executed and counted off.
Counted(t) ==
  {k \in 0..(work[t].next - 1) :
     /\ k < NumRanges(calls[work[t].call])
     /\ \A w \in Workers : hand[w] = [ticket |-> t, k |-> k] => wpc[w] \in {"claim", "unref"}}

(* m_done_index starts at the number of ranges and counts down those that   *)
(* have been executed, so that when it is 0 every iteration has run.  Its   *)
(* comment (c_job.cpp:32, "when this is equal to (total_iter_count /        *)
(* inner_iter_count) then the this job is done") has it the other way:      *)
(* with that value nothing is done.                                         *)
DoneIndexCounts ==
  \A t \in Tickets : work[t].call # 0 =>
    /\ work[t].todo = NumRanges(calls[work[t].call]) - Cardinality(Counted(t))
    /\ work[t].todo = 0 => AllRan(work[t].call)

\* What worker w has taken out of its queues and not worked on yet.
Taken(w) ==
  IF IsEmpty(ring[w]) THEN <<>>
  ELSE RingFrom(ring[w], IF wpc[w] \in {"inspect", "check", "block", "asleep", "reset", "exited"}
                           THEN ring[w].reader ELSE batch[w].i)

\* The workers that have still to be given ticket t, to work on it or to
\* give up their reference.
Holders(t) ==
  {w \in Workers :
     \/ ticket = t /\ spc = "post" /\ sj <= w
     \/ \E p \in Workers : t \in ToSet(boxes[w][p])
     \/ t \in ToSet(Taken(w))
     \/ hand[w].ticket = t}

(* m_ref_count counts the workers that may still touch the work_t, and once *)
(* it is 0 the job's iterations have all run: reusing the work_t then is    *)
(* safe.  A worker that quits keeps the references of the tickets that      *)
(* follow the quit in its batch, so from g_destroy on the count may stay    *)
(* higher, never lower, than the holders that are left.                     *)
RefCountsHolders ==
  \A t \in Tickets : work[t].call # 0 =>
    /\ work[t].ref >= Cardinality(Holders(t))
    /\ work[t].ref > Cardinality(Holders(t)) => Quitting
    /\ work[t].ref = 0 => AllRan(work[t].call)

(* A worker that went to sleep, or is about to, after it found nothing can  *)
(* be overtaken by a post, but not unnoticed: while it has mail its flag is *)
(* up, or the scheduling thread has still to raise it.                      *)
WaitingWorkerIsFlagged ==
  \A w \in Workers :
    wpc[w] \in {"check", "block", "asleep"} /\ (\E p \in Workers : boxes[w][p] # <<>>) =>
      \/ sig[w]
      \/ spc = "post" /\ (Quitting => sj <= w)
      \/ spc = "set" /\ sj <= w
      \/ spc = "notify" /\ sj < w

(* A system that has been destroyed did all of its work first: when the     *)
(* last worker is joined every iteration of every job has run.              *)
GoneMeansAllRan ==
  spc = "gone" => \A c \in Made : AllRan(c)

(* The workers together do what one careful executor would: each iteration  *)
(* of each request is run once, in ranges, while the system is open, and    *)
(* the system closes when nothing is left to run.                           *)
Board == INSTANCE JobBoard WITH closed <- spc = "gone"
ImplementsJobBoard == Board!Spec

\* Worker w sleeps although it has been signalled: its wake-up was lost.
Overslept(w) == wpc[w] = "asleep" /\ sig[w]

(* Lost wake-ups are the only thing that can hold up a job, and one lost    *)
(* wake-up, or all but one, cannot: either all jobs get done, or in the end *)
(* every worker has overslept for good, but for those that have exited.     *)
JobsDoneUnlessAllOversleep ==
  \/ <>[](\A c \in Made : AllRan(c))
  \/ <>[](\A w \in Workers : Overslept(w) \/ wpc[w] = "exited")
------------------------------------------------------------------------------
(* What the comments promise and the code does not keep.                    *)

(* "Ok, we have processed all the jobs in the range that was obtained"      *)
(* (c_job.cpp:352): unless it quits, a worker releases a batch it has       *)
(* fetched to the end.                                                      *)
BatchIsProcessed ==
  [][\A w \in Workers :
       ReleaseBatch(w) /\ wpc[w] = "fetch" => batch[w].i = batch[w].end]_vars

(* g_destroy "wake[s] them up and have them exit their loop"                *)
(* (c_job.cpp:127-128): destroying the system ends.                         *)
DestroyEnds == Quitting ~> spc = "gone"
==============================================================================
