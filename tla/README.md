# Verification of cjobs

`cjobs` runs jobs on a set of worker threads. This directory holds TLA+ models
of its queues, its signal and its job system, TLC configurations that check them
on small instances, and TLAPS proofs for every size. Paths below are relative to
`src/source/main/cpp` unless they say otherwise.

## 1. The system

| Component | Code | State | Operations |
|---|---|---|---|
| spsc queue | `c_queue.cpp` 319-476 | slots, two indices, each thread's copy of the other's index | `try_push`, `try_pop`, `try_pop_multiple` |
| mpsc queue | `c_queue.cpp` 478-748 | one spsc queue per producer, a word with a bit per producer, the consumer's ring | `create_queue`, `destroy_queue`, `push`, `inspect`, `read`, `release` |
| mpmc queue | `c_queue.cpp` 18-173 | slots with turns, two indices | `try_push`, `try_pop` |
| spmc queue | `c_queue.cpp` 175-317 | as mpmc | `try_push` without compare-exchange, `try_pop` |
| local queue | `c_queue.cpp` 750-849 | slots, two indices | `try_push`, `try_pop` |
| signal | `c_signal.cpp` | flag, mutex, condition variable | `signal_set`, `signal_reset`, `signal_wait` |
| job system | `c_job.cpp` 26-383 | a context per worker and per scheduling thread; `work_t` slots with three counters | `g_create_system`, `g_schedule*`, `s_worker_thread`, `g_destroy` |
| thread registration | `c_job.cpp` 169-184 | a table of thread ids and their number | `s_find_or_register_slot_for_thread_id` |
| job graph | `c_job.cpp` 391-567 | a tree of groups with circular lists, in a pool of memory | `g_create_graph`, `g_destroy`, `graph_reset`, `graph_push_group`, `graph_pop_group`, `graph_add_job` |

How they interact. A scheduling thread takes a `work_t` index from a context's
*free queue* (a local queue), fills the `work_t` in, enqueues its ticket in the
*scheduled work* queue (an mpsc queue, whose producers are spsc queues) of every
worker, and sets every worker's *signal*. A worker inspects its queue, waits on
its signal if there is nothing, and otherwise takes the tickets of the batch one
by one: it claims ranges of iterations with a fetch-and-add until none is left,
counts down `m_done_index` after each, gives up its reference in `m_ref_count`,
and goes on. The last reference is meant to put the `work_t` into the owner's
*done queue* (mpsc). `g_destroy` posts a quit ticket to every worker and joins it.
The mpmc and spmc queues are offered to users; the job system does not use them.
The job graph is built by one thread; `graph_execute`, which would hand it to the
job system, is empty.

What is hard. Lock-free index protocols with stale copies (spsc), turns (mpmc,
spmc) and a bit set after the enqueue (mpsc); a drain that races with the
producers; a signal whose setter does not take the mutex; counters shared by all
workers; a batch that wraps around its ring; a shutdown that must find every
worker, asleep or not; several threads in code made for one (registration, the
free queue of context 0, the single-producer queues of the workers); allocations
that fail half-way. Nothing is persisted and there are no messages to lose.
`PROJECT.json` lists the hazards line by line.

What makes each part correct: a queue returns what was put in, once and in order,
and fails only when it is full or empty (or, mpmc and spmc, when the slot it needs
is in another thread's hands); a signal that is set wakes a waiter and is consumed
once; every iteration of every job runs once, the counters agree with the ranges
left and the workers that hold the job, and a destroyed system has done its work;
the lists of the graph hold what was added, and a pop undoes its push.

## 2. Modules

| Module | Models | Notes |
|---|---|---|
| `BoundedFifo` | - | abstract: what a bounded queue promises one enqueuing and one dequeuing thread; each call is a start and one instant at which it takes effect |
| `SpscQueue` | spsc | one step per access to shared memory; `ImplementsFifo` is `INSTANCE BoundedFifo` under a refinement mapping (`Contents`, the slots from the read to the write index) |
| `LocalRing` | `mpsc::local_ring_t` | functions from the ring before to the ring after; used by `MpscQueue` and `JobSystem` |
| `MpscQueue` | mpsc | enqueue and bit are two steps; the exchange, each bulk dequeue and the end of each queue's drain are steps; creation and destruction one step each, any allocation failing |
| `ClaimedFifo` | - | abstract: what a queue promises many threads, each call served when it claims its position |
| `TurnQueue` | what mpmc and spmc share | the claim loop of a thread that executes an operation `o`; `index`, `turn` and `item` are the code's; `ImplementsClaimedFifo` maps the queue's content to the items pushed (in the order of the claims) and not yet claimed by a pop |
| `MpmcQueue`, `SpmcQueue` | mpmc, spmc | the next-state relations (`Next` and `SpmcNext`); `SpmcQueue` adds the producer's own `try_push` |
| `LocalQueue` | local | |
| `Signal` | signal | lock, look, sleep (which releases the mutex in the same step), relock, reset and return of a wait; exchange and notification of a set |
| `JobBoard` | - | abstract: requests are put on a board, ranges of their iterations that nobody has run are run, and the board closes when none is left |
| `JobSystem` | scheduling, workers, shutdown | composes `LocalRing` rings, the steps of `Signal` and the three counters of a `work_t`; `ImplementsJobBoard` is `INSTANCE JobBoard` with `closed <- spc = "gone"` |
| `MCJobSystem` | - | constants of `JobSystem` for TLC |
| `ScheduleRace` | several threads in `g_schedule`: registration, free queue, posting | a load and the store that depends on it are two steps; no workers and no signals |
| `JobGraph` | job graph | one step per call; addresses are positions in the pool, lists are functions from address to `next` and `prev` |

The proofs are in modules of their own, which extend what they are about:
`SpscQueueProofs`, `MpscQueueProofs`, `TurnQueueProofs` (what mpmc and spmc share,
and mpmc), `SpmcQueueProofs`, `LocalQueueProofs`, `SignalProofs`, `JobSystemProofs`
and `JobGraphProofs`.

**Correspondence.** Variables carry the code's names where TLA+ allows
it, and `PROJECT.json` maps every definition to its lines. In `SpscQueue`, `ppc`
and `cpc` say where the threads are in `try_push` and `try_pop_multiple`;
`try_pop` is `PopCall(1)`. In `JobSystem`, `spc` and `sj` are the scheduling
thread's place and loop variable, `wpc` each worker's place, `batch` its `begin`,
`i` and `end`, and `hand` its ticket and work index. `work[t].next`, `todo` and
`ref` are `m_work_indexx`, `m_done_index` and `m_ref_count`; `work[t].call`
stands for `m_job` and the two iteration counts. In `JobGraph`, `groups[a]` and
`nodes[a]` are the `group_t` and `node_t` at address `a`; `path` is what the
user believes to have entered, `current` what the code has. `m_jobs` of a new
group is not initialised by `setup`: it is null or `Wild` in the model. (For the
group "main", `construct` may well have zeroed it; that is the allocator's, in
another package, and the model allows both.) In `MpscQueue`, `heap[b]` counts the
allocations of block `b` less its deallocations. The variables marked *history*
are not the code's: they record what was pushed, read, run or raised so that
properties can speak of it, and no guard depends on one except to bound a run.
The operators marked *Mutant* are plausible bugs: substituted for the definition
that follows, each makes TLC find the property named with it in `PROJECT.json`
violated. They are not part of any specification.

**Composition.** `MpscQueue` treats a producer's queue as a sequence with atomic
operations, which `SpscQueueProofs!Refinement` justifies. `JobSystem` treats an
enqueue with its bit, and an inspect with its drain, as one step each. An item of
`MpscQueue` waits only while its bit is set, about to be, or the drain is still to
come to it (`FlagCoversBox`), so that an inspect sees what was enqueued before it
and may miss only what is enqueued meanwhile; in `JobSystem` the latter is an
enqueue after the inspect. What the atomic step hides is the overflow of the ring
by a producer that refills its queue during the drain, which `mpsc_overflow`
shows. The mutex of a signal is left out in `JobSystem`: each signal has one
waiter, its worker, so that it is never contended.

## 3. Runs

| Run | Instance | Shows |
|---|---|---|
| `spsc` | 4 slots, 2 values, batches up to 2 | types, no race on a slot, the inductive invariant, refinement of `BoundedFifo` |
| `mpsc` | 2 producers, 2 items each, 4 enqueues each, fair | whichever allocation of its creation fails, and when it is destroyed, every block is freed once; no item overlooked, lost, repeated or out of its producer's order; "nothing left" is true when release says it; every item is read by a consumer that keeps inspecting |
| `mpmc` | 3 threads, 2 slots, 3 pushes and those in progress | one owner per slot, refinement of `ClaimedFifo`, failures only for cause |
| `spmc` | 1 producer, 3 consumers, 3 slots, 5 pushes, fair | the same; a pop reads the item of its position; every call returns once the others stop claiming positions |
| `local` | 4 slots, 2 values | first in first out across wraps |
| `signal` | 2 setters, 3 waiters | mutex held when it should be; a set releases one wait; nobody sleeps through a raised flag but who was between the look at it and the sleep when it was raised |
| `job_system` | 2 workers, 2 calls, each a single job or 3 iterations in ranges of 2, then `g_destroy`, fair | each iteration runs at most once, and once by the time the system is gone; `m_done_index` counts down the ranges, `m_ref_count` the holders; the s32 arithmetic of a claim fits; refinement of `JobBoard`; no worker goes to sleep on unflagged mail; jobs stay undone only if every worker has lost its wake-up for good |
| `job_graph` | a pool of 8 units (a group takes 2, a node 1), 2 jobs | no pointer dangles and no objects overlap; the circular lists hold what was added, in its order; a pop undoes its push as long as there is room for a group |

Runs that find the code to differ from its comments or assertions:

| Run | The code | It says |
|---|---|---|
| `mpsc_overflow` | a drain can overflow the ring | assertion at `c_queue.cpp:618` |
| `job_wrap` | a batch that wraps around its ring is skipped | `c_job.cpp:352` |
| `schedule_race` | two threads in `g_schedule` take one `work_t`, or one slot of a worker's queue, and a job is lost | `c_job.h:17` |
| `job_shutdown` | a worker whose wake-up was lost sleeps through the quit | `c_job.cpp:127` |

Divergences met on the way for which no run is kept, because the model takes
them in as they are and one look at the line shows them:

- A mpmc or spmc queue created for n items takes n + 1 (tests
  `test_queue_mpmc.cpp:28`, `test_queue_spmc.cpp:28` expect n); a local queue
  created for n takes n - 1 (`test_queue_local.cpp:27`).
- After the 32-bit index of a mpmc or spmc queue wraps, every push fails, unless
  there are exactly 2 slots (`test_queue_mpmc.cpp:36` expects room after a pop).
  `IndexLimit = 16` with 3 slots shows it.
- `signal_set` neither takes the mutex nor is looked for again: one that falls
  between a waiter's look at the flag and its sleep is lost (`c_signal.cpp:38`
  against `c_signal.h:12`). `job_shutdown` shows what comes of it.
- The job is done, says the comment on `m_done_index` (`c_job.cpp:32`), when the
  index equals total / inner iterations. The code starts there, rounded up, and
  counts down: it is done at 0. That is what `DoneIndexCounts` states, against the
  comment.
- The code compares with 0 the value before the decrement (`c_job.cpp:328`), so that
  `job_finished` is never called (`:326`, `c_job.h:45`); `m_ref_count` likewise
  (`:341`), so that no `work_t` returns to its done queue (`:33`). In the model
  `finished` and `done` stay as they began.
- When the free queue is empty the result of the dequeue is not looked at
  (`c_job.cpp:250`, `:222`, `:194`) and `work_t` 0 is reused while workers refer to
  it, although it may be returned only when its reference count is 0 (`:33`). Since
  none ever returns, that is so from the call after the `m_max_jobs`-th on. With
  `MaxJobs = 1` and two calls TLC finds `RefCountsHolders` violated by it.
- A job with no iterations has `m_done_index` 1 from `g_schedule_single` (`:226`),
  and no range to count it down, but 0 from `g_schedule_parallel` (`:254`).
- `release(begin, end)` is called where the assertion at `c_queue.cpp:630` wants
  the position the reading has reached.
- `g_schedule_single` passes `array_length` as `to`, where `c_job.h:37` has 0 and 1.
- `graph_push_group` says nothing when the group does not fit (`:551`), so that the
  matching `graph_pop_group` leaves one group too many; `graph_add_job` follows a
  null node (`:561`) and the uninitialised `m_jobs` of a group (`:467`). The first
  is in `PopMatchesPush`, the others are `AddJobUndefined`, after which the model
  does nothing more.
- Registration compares no slot with `max_running_threads` (`:181`).
- Tickets that follow a quit ticket in the same batch keep their references.

**Bounds.** `SlotCount = 4` makes the spsc ring wrap several times with batches
that straddle the end, and no counter is bounded there: the state space is the
whole one. `MaxPosts` lets each producer fill its queue twice, so that the ring of
5 wraps and overflows. `MaxPushes` takes mpmc through two full rounds of two slots
with three threads in any of them; positions beyond it only repeat the turn
pattern, until the index wraps (above). `MaxSets` and `MaxResets` give every
waiter a set to take, one to lose and a reset to race with. `Memory = 8` holds main
and three groups, or fewer with up to six jobs: siblings, three levels, lists of
two and more, and a pool that ends before a node or only before a group. Two
threads and one worker are the least with which `schedule_race` can happen; with two
calls each a thread also finds itself registered, and with four `work_t` no call
finds the free queue empty. `MaxCalls = 2` gives
two jobs outstanding at once and a wake-up that can be lost between them; with
`MaxJobs = 3` no queue fills, no `work_t` is reused and no batch wraps in the
passing run: its properties are about calls below `m_max_jobs` in number, and say
nothing of reuse. `job_wrap` (`MaxJobs = 1`) is beyond that, where
`RefCountsHolders` fails too: a full queue drops a ticket and `work_t` 0 is reused.
`MaxInt = 7` is the least that `MaxIntAssumption` allows these requests (3
iterations and one range of 2 per worker): the code keeps nobody to it, and
`ArithmeticFits` says that with it no claim overflows.
`Parallel(3, 2)` has a short last range; `g_schedule` with a count n is the case
`Parallel(n, n)`, of one range.

**Fairness.** A thread inside a call runs on (weak fairness of its steps): the
operating system schedules every thread, and no call waits for anything but the
mutex, the condition variable and a join. A worker's loop is never left but for a
quit, so its steps are weakly fair throughout. In `mpsc` the consumer keeps inspecting; a worker does so whenever it is
awake. In `spmc` a compare-exchange that would succeed again and again does at last
(strong fairness of `Cas`): a weak one may fail for no reason, but not always. Since
the pushes are finitely many, `CallsReturn` says that a call is only ever held up by
others that make progress. Nobody is obliged to call, and no spurious wake-up is
assumed to happen, so that a worker whose wake-up was lost may sleep for ever. What
the job system still promises is `JobsDoneUnlessAllOversleep`: either all jobs get
done, or in the end every worker sleeps with its flag up, but for those that have
exited. A single worker that keeps its wake-ups finishes every job, and a worker that
sleeps with its flag down holds up none. That all do oversleep can happen:
`job_shutdown` shows it. How a wake-up is lost at all is `LostOnlyBeforeSleep`:
when everybody is asleep, the flag is up and no notification is on its way, then the
flag was raised after everybody's look at it and before everybody's sleep. The
history `missed` in `Signal` records just that.

## 4. Proofs

Every invariant and every action property that a passing run checks, and every
refinement, is also proved, for every value of the constants that the assumptions
of its module and the hypotheses below allow. `PROJECT.json` lists the theorems.
Each proof rests on one inductive invariant, which TLC found to hold before it was
proved; in each module `Inductive` (`MpmcInductive`) states it and the others
follow.

| Module | Hypothesis | Proves |
|---|---|---|
| `SpscQueueProofs` | - | `TypeOK`, `NoSlotRace`, `ImplementsFifo` |
| `MpscQueueProofs` | - | `TypeOK`, `EveryBlockFreedOnce`, `FlagCoversBox`, `NothingLost`, `ReadInOrder`, `NoMoreIsTrue` |
| `TurnQueueProofs` (mpmc) | `NoWrap` | `TypeOK`, `SlotHasOneOwner`, `PopGetsItsItem`, `FailsOnlyIfBlocked`, `ImplementsClaimedFifo` |
| `SpmcQueueProofs` | `NoWrap` | the same and `PushFailsOnlyIfBlocked` |
| `LocalQueueProofs` | - | `TypeOK`, `RingHoldsQueue` |
| `SignalProofs` | - | `TypeOK`, `OneReturnPerSet`, `LostOnlyBeforeSleep` |
| `JobSystemProofs` | `FewCalls` | `TypeOK`, `NoIterationTwice`, `DoneIndexCounts`, `RefCountsHolders`, `WaitingWorkerIsFlagged`, `GoneMeansAllRan`, `ArithmeticFits`, `ImplementsJobBoard` |
| `JobGraphProofs` | - | `TypeOK`, `ListsHoldWhatWasAdded`, `PopMatchesPush` |

The two hypotheses are not conveniences; without them the theorems are false.
`NoWrap` says that the pushes that may be made (`MaxPushes`, and one more by each
of the threads, of which there are finitely many) stay below `IndexLimit`, 2^32 in
the code: past it the turn computed from a position says nothing about its slot
(section 3, `c_queue.cpp:57`). `FewCalls` says that fewer calls are made than a
context has `work_t` (`MaxCalls < MaxJobs`): the code never returns a `work_t`, and
beyond that number it uses one twice, drops tickets and skips batches (`job_wrap`).
Both are satisfied by the instances of the runs.

**spsc**, for every `SlotCount >= 2`, every set of values and every batch size. The
types are not inductive, because the cached checks say nothing about the true
indices. `CachesLag` says that the cached indices lag: going round the ring, the
producer's copy of the read index comes at or before the read index, the consumer's
copy of the write index between the read and the write index. The rest is that a
producer past its check has a free slot and then its item in it, and that a consumer
past its check has copied the first published items. In the refinement `PushPublish`
maps to `Push`, `PopPublish` to `Pop` of as many items as were copied, the failing
refreshes to `PushFull` and `PopEmpty`, the rest to the start of a call or a stutter.

**mpsc**, for any number of producers and any sizes. Three facts carry it.
`RingOrdered` and `BoxesOrdered`: the numbers of a producer's items go up along the
ring, then along its queue. `RingComplete`: unless the assertion of `inspect` has
failed, none is missing in between. `FlagCoversBox`, which is inductive by itself: a
queue with something in it is flagged, about to be, or still ahead in the drain that
took its flag. `NothingLost` is what the first two say of ring and queues together;
`NoMoreIsTrue` needs the third as well, since an empty ring and a word without bits
leave no place for an item. `ReadInOrder` does not need `RingComplete` and holds
after the assertion failed, too. The lemmas about the ring (`Moves`, `RingFromNext`
and others) say how positions and contents change when it is read, added to and
released.

**mpmc and spmc**, for any number of threads and slots. The accesses to a slot are
numbered (the push of round r is access 2r, the pop access 2r + 1), and a slot's turn
is how many it has seen. The invariant (`Base`) follows each position from claimed
to done: the owner of a position is the next to access its slot (`OwnersTurn`), two
owners have different accesses (`OwnersDiffer`), a thread about to exchange has seen
the turn come (`CasSawTurn`), what is claimed is in a thread's hands or done, what is
done was claimed, and a slot whose next access is a pop has the item of that push
(`Contents`). Two owners of one slot would both be next, which is
`SlotHasOneOwner`. A call fails when the turn of its slot has not come: the access
before its own is then not claimed, and the queue full or empty, or claimed and not
done, and the slot held (`BlockedWhenNotMyTurn`). `Counted` bounds the pushes, so
that nothing wraps. For spmc `Roles` adds that the producer's index lags by one
exactly while it is between seeing the turn and storing the index, where nobody reads
it. In the refinement the compare-exchange (spmc's push: the look at the turn) is the
instant at which a call takes effect.

**local**: types and `RingHoldsQueue` are inductive together; the lemmas say how the
used part of the ring changes.

**signal**: `OneReturnPerSet` is not inductive, for a waiter that has seen the flag
adds to what is consumed later. `SignalsPaid` counts a raised flag, or the waiter
that is about to lower it, as a signal not yet spent; there is one at a time, because
`TypeOK` says who holds the mutex. For `LostOnlyBeforeSleep` the waiters about to
sleep are counted with those asleep (`AllMissed`), and who is about to sleep while
the flag is up has missed it (`LookWasBefore`).

**job system**, for any number of workers and any requests within
`MaxIntAssumption`. A worker's queue is looked at as one line: what its ring holds,
then what its producers' queues hold. An inspect moves the border and leaves the line
alone. Along the line the calls go up, and the ticket the worker works on comes
before all of them (`LineRises`), so that no worker is given a ticket twice; a line
is no longer than the tickets posted, so that below `MaxJobs` calls no queue fills
and no batch wraps (`RingPlaced`). Who may still touch a `work_t` is then settled
(`Holds`: it is about to be posted the ticket, has it in its line, or in its hands),
and for every job in use `JobCounters` says: the ranges in workers' hands are below
`m_work_indexx` and differ (`ClaimsDiffer`, the fetch-and-add); an iteration has run
once if its range was claimed and its claimer is past executing it
(`IterationsRun`), and not otherwise; `m_done_index` is the ranges not yet counted
off; `m_ref_count` the holders; `m_work_indexx` passes the last range by at most one
for each worker that has come late (`ClaimsBounded`, which `ArithmeticFits` needs).
At the end a job is complete because worker 0 leaves no job before all of it is
claimed, and finds its quit behind every job, both having come through the same
queue (`FirstWorkerStays`, `QuitPlace`); the other workers' quits come through a
second queue and may overtake their jobs. `RefCountsHolders` allows for it: the
count exceeds the holders only once the system is quitting.

**job graph**, for any set of jobs and any size of the pool. To the types `IInv` adds
that the histories are of objects that exist, each listed once (`History`): without
it a list that loses its last object to another one would still be a ring.
`RingGrows` says that linking an object in before the first makes it the last one,
`RingKept` that a list is not touched by what happens to the others. `PopMatchesPush`
is not inductive, since a pop goes where the parent pointers say: `OnTheWay` says
that they lead back along the user's path to "main", that what follows the groups
really entered are pushes that failed, for want of room that will not come back, and
where the current group is on that way.

**Methods.** Facts that need induction over numbers (what `FlattenSeq` makes of a
worker's queues, for one) are proved from the well-founded order of the library: a
set of counterexamples would have a least member (`NatMin`). `LocalRing!AddMultiple`
is in closed form, and `NothingLost` in first-order form, so that they can be reasoned
about.

**Only model-checked.** Liveness: `EveryItemIsRead`, `CallsReturn`,
`JobsDoneUnlessAllOversleep`, and whatever else rests on fairness or `ENABLED`, which is
out of the prover's reach. That the code differs from its comments, in the four runs
of that kind, is a matter of one behaviour each, which TLC exhibits.

## 5. Not modelled

- Weak memory. Steps are sequentially consistent. In the queues every plain access
  is ordered by an acquire load and a release store of an index or turn; in
  `c_job.cpp` the counters use acquire only, so that the effects of a job are not
  released to whoever would see it done.
- Allocation and destruction of the queues that are one block (spsc, mpmc, spmc,
  local) and of signals, alignment, range checks of producer indices, arithmetic of
  allocation sizes. `CallOnNull` has the null checks for mpsc; the other wrappers'
  are the same.
- Set-up of contexts. `g_create_system` leaves `m_jobs_free_queue` and `m_signal`
  of every context, and all of the contexts beyond the workers', uninitialised; the
  model takes them to be set up as the comments in `context_t` say.
  `c_job.cpp` calls `job_execute` and `job_finished` on a `job_t`, which has
  `m_execute_fn` and `m_finished_fn`; the model reads the one as the other.
- `g_schedule_single` for no iterations: `RequestsAssumption` wants ranges of one
  iteration at least (section 3 says what the code would do).
- Building a graph that was not reset first (`m_current` is not set), or what
  follows undefined behaviour.
- Several scheduling threads together with the workers: `ScheduleRace` has the one,
  `JobSystem` the other, since nothing holds once the former have raced.
- The unit tests and the build scripts, which have no state at run time.

## 6. Plan

Order: what the job system stands on first, then the job system, then the rest.

1. Done: `SpscQueue` with proofs; `MpscQueue`; `Signal`; `JobSystem` and `JobBoard`;
   `TurnQueue` with `MpmcQueue`, `SpmcQueue` and `ClaimedFifo`; `LocalQueue`;
   `JobGraph`; `ScheduleRace`.
2. Done: proofs of every invariant, action property and refinement of the passing
   runs (section 4).
3. Left: an abstract specification of `MpscQueue` as `JobSystem` uses it, with the
   refinement that the paragraph on composition argues for; one of `JobGraph`, a tree
   of sequences. That `NoWrap` and `FewCalls` cannot be dropped stays with TLC, which
   finds the counterexamples beyond them.
