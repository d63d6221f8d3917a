----------------------------- MODULE ScheduleRace -----------------------------
(***************************************************************************)
(* c_job.cpp, g_schedule called by several threads at a time, each time    *)
(* with another job: a thread looks itself up in the table of threads or     *)
(* registers, takes a work_t from the free queue of context 0, fills it in *)
(* and posts its ticket to every worker.  Neither the table, nor the local *)
(* queue, nor the single-producer queues of the workers are made for two   *)
(* threads, and nothing locks them: a load and the store that depends on   *)
(* it are two steps.                                                       *)
(*                                                                         *)
(* Left out: the workers (what they take from their queues leaves room, so *)
(* that a queue that is never full stands for them) and the signals, which *)
(* may be set by any thread.  The table and the free queue are taken to be *)
(* set up as in JobSystem.                                                 *)
(***************************************************************************)
EXTENDS Naturals

CONSTANTS
  Threads,    \* the threads
  MaxCalls,   \* bound: how many calls each of them makes
  NumWorkers, \* m_workers_num
  MaxJobs,    \* m_max_jobs
  NoJob       \* what a work_t holds at first

Workers == 0..(NumWorkers - 1)
Jobs == 0..(MaxJobs - 1)

VARIABLES
  num,    \* m_num_threads
  table,  \* m_thread_id_to_context
  free,   \* m_readIdx of the free queue of context 0, whose n-th item is n
  work,   \* per work_t of context 0: its m_job
  posts,  \* per worker: the slots of its producer queue
  writer, \* per worker: m_writeIdx of that queue
  pc,     \* where each thread is
  loaded, \* the index it has loaded last
  job,    \* its job_index
  to,     \* its loop variable j
  made    \* how many calls it has made before

shared == <<num, table, free, work, posts, writer>>
locals == <<loaded, job, to, made>>
vars == <<shared, pc, locals>>

Init ==
  /\ num = NumWorkers
  /\ table = <<>>
  /\ free = 0
  /\ work = [n \in Jobs |-> NoJob]
  /\ posts = [w \in Workers |-> <<>>]
  /\ writer = [w \in Workers |-> 0]
  /\ pc = [t \in Threads |-> "lookup"]
  /\ loaded = [t \in Threads |-> 0]
  /\ job = [t \in Threads |-> 0]
  /\ to = [t \in Threads |-> 0]
  /\ made = [t \in Threads |-> 0]

\* The job of the call thread t is in.
JobOf(t) == <<t, made[t]>>

Step(t, from, there) == pc[t] = from /\ pc' = [pc EXCEPT ![t] = there]
Load(t, i) == loaded' = [loaded EXCEPT ![t] = i]

\* The array or table f with v at index i.
Stored(f, i, v) == [x \in DOMAIN f \cup {i} |-> IF x = i THEN v ELSE f[x]]
------------------------------------------------------------------------------
Registered(t) == \E i \in DOMAIN table : i < num /\ table[i] = t

\* s_find_or_register_slot_for_thread_id: the thread is in the table ...
LookupFound(t) ==
  /\ Step(t, "lookup", "pop")
  /\ Registered(t)
  /\ UNCHANGED <<shared, locals>>

\* ... or it is not, and m_num_threads is loaded ...
Lookup(t) ==
  /\ Step(t, "lookup", "count")
  /\ ~Registered(t)
  /\ Load(t, num)
  /\ UNCHANGED <<shared, job, to, made>>

\* ... incremented, and the slot written.
Count(t) ==
  /\ Step(t, "count", "register")
  /\ num' = loaded[t] + 1
  /\ UNCHANGED <<table, free, work, posts, writer, locals>>

Register(t) ==
  /\ Step(t, "register", "pop")
  /\ table' = Stored(table, loaded[t], t)
  /\ UNCHANGED <<num, free, work, posts, writer, locals>>

\* s_schedule_single: try_pop on the free queue loads an index and its item ...
Pop(t) ==
  /\ pc[t] = "pop"
  /\ IF free = MaxJobs
       THEN Step(t, "pop", "fill") /\ job' = [job EXCEPT ![t] = 0] /\ UNCHANGED loaded
       ELSE /\ Step(t, "pop", "popped")
            /\ Load(t, free)
            /\ job' = [job EXCEPT ![t] = free]
  /\ UNCHANGED <<shared, to, made>>

\* ... and stores the next index.
Popped(t) ==
  /\ Step(t, "popped", "fill")
  /\ free' = loaded[t] + 1
  /\ UNCHANGED <<num, table, work, posts, writer, locals>>

\* The work_t is filled in.
Fill(t) ==
  /\ Step(t, "fill", "push")
  /\ work' = [work EXCEPT ![job[t]] = JobOf(t)]
  /\ UNCHANGED <<num, table, free, posts, writer, locals>>

\* try_push of the queue of worker j as its producer j: the index is loaded ...
Push(t) ==
  /\ Step(t, "push", "pushed")
  /\ Load(t, writer[to[t]])
  /\ UNCHANGED <<shared, job, to, made>>

\* ... the slot written, and the next index stored.
Pushed(t) ==
  /\ Step(t, "pushed", IF to[t] + 1 < NumWorkers THEN "push" ELSE "returned")
  /\ posts' = [posts EXCEPT ![to[t]] = Stored(@, loaded[t], job[t])]
  /\ writer' = [writer EXCEPT ![to[t]] = loaded[t] + 1]
  /\ to' = [to EXCEPT ![t] = IF to[t] + 1 < NumWorkers THEN @ + 1 ELSE 0]
  /\ UNCHANGED <<num, table, free, work, loaded, job, made>>

\* The thread calls g_schedule again, with another job.
Again(t) ==
  /\ Step(t, "returned", "lookup")
  /\ made[t] + 1 < MaxCalls
  /\ made' = [made EXCEPT ![t] = @ + 1]
  /\ UNCHANGED <<shared, loaded, job, to>>

Next ==
  \/ \E t \in Threads :
       \/ LookupFound(t) \/ Lookup(t) \/ Count(t) \/ Register(t)
       \/ Pop(t) \/ Popped(t)
       \/ Fill(t)
       \/ Push(t) \/ Pushed(t)
       \/ Again(t)
  \/ (\A t \in Threads : pc[t] = "returned") /\ UNCHANGED vars

Spec == Init /\ [][Next]_vars
------------------------------------------------------------------------------
(* "jobs by themselves can schedule any new jobs" (c_job.h:17), and jobs    *)
(* run on several threads: a call of g_schedule that has returned left its *)
(* job in a work_t whose ticket every worker finds in its queue.           *)
EveryCallIsPosted ==
  \A t \in Threads : pc[t] = "returned" =>
    \E n \in Jobs :
      /\ work[n] = JobOf(t)
      /\ \A w \in Workers : \E i \in 0..(writer[w] - 1) :
           i \in DOMAIN posts[w] /\ posts[w][i] = n
==============================================================================
