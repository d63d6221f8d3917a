--------------------------- MODULE JobSystemProofs ---------------------------
(***************************************************************************)
(* Proofs about JobSystem, for any number of workers, any requests and any *)
(* sizes that keep to its assumptions, as long as fewer calls are made     *)
(* than a context has work_t (FewCalls): beyond that a work_t is used      *)
(* twice while workers refer to it (c_job.cpp:250), queues drop tickets     *)
(* (:264) and rings wrap around (:294, the run with JobWrap.cfg).          *)
(*                                                                         *)
(* The proof looks at a worker's queue as one line: what its ring holds    *)
(* and then what the queues of its producers hold.  An inspect moves the   *)
(* border between the two and leaves the line as it is.  Along the line    *)
(* the calls go up, so that no worker is given a ticket twice.             *)
(***************************************************************************)
EXTENDS JobSystem, SequenceTheorems, FiniteSetTheorems, WellFoundedInduction, TLAPS

USE NumWorkersAssumption, MaxJobsAssumption, MaxCallsAssumption

FewCalls == MaxCalls < MaxJobs
------------------------------------------------------------------------------
(* Induction, sequences of sequences, and arithmetic.                      *)

(* Every set of numbers with a member has a least one: induction.          *)
LEMMA NatMin ==
  ASSUME NEW T \in SUBSET Nat, T # {}
  PROVE  \E m \in T : \A k \in T : m <= k
<1> DEFINE R == OpToRel(<, Nat)
<1>1. IsWellFoundedOn(R, Nat)
  BY NatLessThanWellFounded
<1>2. \A x, y \in Nat : <<x, y>> \in R <=> x < y
  BY DEF OpToRel
<1>3. PICK x \in T : \A y \in T : ~ (<<y, x>> \in R)
  <2> HIDE DEF R
  <2> QED BY <1>1, WFMin
<1> HIDE DEF R
<1>4. ASSUME NEW k \in T
      PROVE  x <= k
  <2>1. k \in Nat /\ x \in Nat
    OBVIOUS
  <2>2. ~(k < x)
    BY <1>2, <1>3, <2>1
  <2> QED
    BY <2>1, <2>2
<1> QED
  BY <1>4

Flat(s, g) == [i \in 1..Len(s) |-> IF i = 1 THEN s[i] ELSE g[i - 1] \o s[i]]

(* The definition of FlattenSeq, and what it makes of a sequence of        *)
(* sequences of which all but the first and one other are empty.           *)
LEMMA Unfold ==
  ASSUME NEW s, Len(s) # 0
  PROVE  FlattenSeq(s) = (CHOOSE g : g = Flat(s, g))[Len(s)]
BY DEF FlattenSeq, Flat

(* The induction: if all sequences but the first and the m-th are empty,   *)
(* the first and the m-th make the whole.                                  *)
LEMMA FlattenTwo ==
  \A S : \A n \in Nat \ {0} : \A s \in [1..n -> Seq(S)] : \A m \in 1..n :
    (\A i \in 1..n : i = 1 \/ i = m \/ s[i] = <<>>)
      => FlattenSeq(s) = IF m = 1 THEN s[1] ELSE s[1] \o s[m]
<1> SUFFICES ASSUME NEW S, NEW n \in Nat \ {0}, NEW s \in [1..n -> Seq(S)], NEW m \in 1..n,
                    \A i \in 1..n : i = 1 \/ i = m \/ s[i] = <<>>
             PROVE  FlattenSeq(s) = IF m = 1 THEN s[1] ELSE s[1] \o s[m]
  OBVIOUS
<1>1. s \in Seq(Seq(S)) /\ Len(s) = n
  OBVIOUS
<1> DEFINE sum(i) == IF m = 1 \/ i < m THEN s[1] ELSE s[1] \o s[m]
           h == [i \in 1..n |-> sum(i)]
<1>2. \A a \in Seq(S) : a \o <<>> = a
  OBVIOUS
<1>3. \A i \in 1..n : sum(i) \in Seq(S)
  OBVIOUS
<1>4. ASSUME NEW i \in 1..n
      PROVE  sum(i) = IF i = 1 THEN s[i] ELSE sum(i - 1) \o s[i]
  <2>1. CASE i = 1
    BY <2>1
  <2>2. CASE i # 1 /\ i = m
    <3>1. sum(i) = s[1] \o s[i]
      BY <2>2
    <3>2. i - 1 < m /\ sum(i - 1) = s[1]
      BY <2>2
    <3> HIDE DEF sum
    <3> QED
      BY <2>2, <3>1, <3>2
  <2>3. CASE i # 1 /\ i # m
    <3>1. s[i] = <<>> /\ i - 1 \in 1..n
      BY <2>3
    <3>2. sum(i) = sum(i - 1)
      BY <2>3
    <3> HIDE DEF sum
    <3> QED
      BY <2>3, <3>1, <3>2, <1>2, <1>3
  <2> QED
    BY <2>1, <2>2, <2>3
<1> HIDE DEF sum
<1>5. h = Flat(s, h)
  <2>1. \A i \in 1..n : i # 1 => h[i - 1] = sum(i - 1)
    OBVIOUS
  <2>2. \A i \in 1..n : h[i] = IF i = 1 THEN s[i] ELSE h[i - 1] \o s[i]
    BY <1>4, <2>1
  <2>3. Flat(s, h) = [i \in 1..n |-> IF i = 1 THEN s[i] ELSE h[i - 1] \o s[i]]
    BY <1>1 DEF Flat
  <2> HIDE DEF h
  <2>4. Flat(s, h) = [i \in 1..n |-> h[i]]
    BY <2>2, <2>3
  <2> QED
    BY <2>4 DEF h
<1>6. PICK g : g = Flat(s, g) /\ FlattenSeq(s) = g[n]
  BY <1>1, <1>5, Unfold
<1>7. \A i \in 1..n : g[i] = IF i = 1 THEN s[i] ELSE g[i - 1] \o s[i]
  BY <1>1, <1>6 DEF Flat
<1> DEFINE Bad == {i \in 1..n : g[i] # sum(i)}
<1>8. Bad = {}
  <2> SUFFICES ASSUME Bad # {}
               PROVE  FALSE
    OBVIOUS
  <2>1. PICK k \in Bad : \A j \in Bad : k <= j
    <3>1. Bad \in SUBSET Nat
      OBVIOUS
    <3> HIDE DEF Bad
    <3> QED
      BY <3>1, NatMin
  <2>2. k # 1
    BY <1>4, <1>7
  <2>3. k - 1 \in 1..n /\ k - 1 \notin Bad
    BY <2>1, <2>2
  <2>4. g[k - 1] = sum(k - 1)
    BY <2>3
  <2>5. g[k] = g[k - 1] \o s[k] /\ sum(k) = sum(k - 1) \o s[k]
    BY <1>4, <1>7, <2>2
  <2> QED
    BY <2>4, <2>5
<1>9. FlattenSeq(s) = sum(n)
  BY <1>6, <1>8
<1> QED
  BY <1>9 DEF sum

(* The parts of a request.                                                 *)
LEMMA RequestParts ==
  ASSUME NEW req \in Requests
  PROVE  /\ req.owner \in Owners /\ req.total \in Nat /\ req.inner \in Nat /\ req.inner >= 1
         /\ req.total + NumWorkers * req.inner <= MaxInt
<1>1. req \in [owner : Owners, total : Nat, inner : Nat \ {0}]
  BY RequestsAssumption
<1> QED
  BY <1>1, MaxIntAssumption

(* The smaller of two numbers.                                             *)
LEMMA MinIs ==
  ASSUME NEW a \in Int, NEW b \in Int
  PROVE  Min({a, b}) = IF a <= b THEN a ELSE b
<1>1. \E x \in {a, b} : \A y \in {a, b} : x =< y
  OBVIOUS
<1>2. Min({a, b}) \in {a, b} /\ \A y \in {a, b} : Min({a, b}) =< y
  BY <1>1 DEF Min
<1> QED
  BY <1>2

(* Multiplication, as far as the proofs need it.                           *)
LEMMA Products ==
  ASSUME NEW n \in Nat, n >= 1
  PROVE  /\ \A a \in Int : a * n \in Int
         /\ \A a, b \in Int : (a + b) * n = a * n + b * n
         /\ \A a, b \in Int : a <= b => a * n <= b * n
         /\ \A a, b \in Int : a < b => a * n + n <= b * n
         /\ \A a \in Nat : a * n \in Nat
         /\ 1 * n = n /\ 0 * n = 0
         /\ \A a \in Int : n * a = a * n
<1>1. \A a \in Int : a * n \in Int
  OBVIOUS
<1>2. \A a, b \in Int : (a + b) * n = a * n + b * n
  BY Z3
<1>3. \A a, b \in Int : a <= b => a * n <= b * n
  BY Z3
<1>4. \A a, b \in Int : a < b => a * n + n <= b * n
  <2> SUFFICES ASSUME NEW a \in Int, NEW b \in Int, a < b
               PROVE  a * n + n <= b * n
    OBVIOUS
  <2>1. (a + 1) * n <= b * n
    BY <1>3
  <2>2. (a + 1) * n = a * n + 1 * n
    BY <1>2
  <2>3. a * n \in Int /\ b * n \in Int /\ 1 * n = n
    BY <1>1
  <2> QED
    BY <2>1, <2>2, <2>3
<1>5. \A a \in Nat : a * n \in Nat
  BY Z3
<1>6. 1 * n = n /\ 0 * n = 0
  OBVIOUS
<1>7. \A a \in Int : n * a = a * n
  OBVIOUS
<1> QED
  BY <1>1, <1>2, <1>3, <1>4, <1>5, <1>6, <1>7

(* Division by a positive number.                                          *)
LEMMA Division ==
  ASSUME NEW a \in Nat, NEW n \in Nat, n >= 1
  PROVE  /\ a \div n \in Nat
         /\ (a \div n) * n <= a
         /\ a < (a \div n) * n + n
<1>1. a \div n \in Int
  BY Z3
<1>2. a = n * (a \div n) + (a % n) /\ a % n \in 0..(n - 1)
  BY Z3
<1>3. PICK q \in Int : q = a \div n
  BY <1>1
<1>4. PICK r \in 0..(n - 1) : r = a % n
  BY <1>2
<1>5. a = n * q + r
  BY <1>2, <1>3, <1>4
<1>6. n * q = q * n /\ q * n \in Int
  BY Products
<1>7. q * n <= a /\ a < q * n + n
  BY <1>5, <1>6
<1>8. q >= 0
  <2>1. q < 0 => q * n + n <= 0 * n
    BY Products
  <2> QED
    BY <2>1, <1>6, <1>7, Products
<1> QED
  BY <1>3, <1>7, <1>8

(* The ranges of a request, and how many there are.                        *)
LEMMA RangeCount ==
  ASSUME NEW req \in Requests
  PROVE  /\ NumRanges(req) \in Nat
         /\ NumRanges(req) * req.inner \in Nat
         /\ req.total <= NumRanges(req) * req.inner
         /\ NumRanges(req) * req.inner < req.total + req.inner
<1>1. PICK t \in Nat : t = req.total
  BY RequestParts
<1>2. PICK n \in Nat : n = req.inner /\ n >= 1
  BY RequestParts
<1>3. t + (n - 1) \in Nat
  BY <1>2
<1>4. PICK q \in Nat : q = (t + (n - 1)) \div n
  BY <1>2, <1>3, Division
<1>5. q * n <= t + (n - 1) /\ t + (n - 1) < q * n + n /\ q * n \in Nat
  BY <1>2, <1>3, <1>4, Division, Products
<1>6. NumRanges(req) = q
  BY <1>1, <1>2, <1>4 DEF NumRanges
<1> QED
  BY <1>1, <1>2, <1>5, <1>6

(* Which iterations the range with a given index has.                      *)
LEMMA RangeOf ==
  ASSUME NEW req \in Requests, NEW k \in Nat
  PROVE  /\ k * req.inner \in Nat
         /\ Iterations(k, req) = {i \in 0..(req.total - 1) : k * req.inner <= i /\ i < k * req.inner + req.inner}
         /\ WorkBegin(k, req) < WorkEnd(k, req) <=> k < NumRanges(req)
         /\ WorkBegin(k, req) \in Nat /\ WorkBegin(k, req) <= req.total
         /\ k < NumRanges(req) =>
              /\ WorkBegin(k, req) \in 0..(req.total - 1) /\ WorkEnd(k, req) - 1 \in 0..(req.total - 1)
              /\ WorkBegin(k, req) <= WorkEnd(k, req) - 1
              /\ Iterations(k, req) = WorkBegin(k, req)..(WorkEnd(k, req) - 1)
<1>1. PICK t \in Nat : t = req.total
  BY RequestParts
<1>2. PICK n \in Nat : n = req.inner /\ n >= 1
  BY RequestParts
<1>3. PICK m \in Nat : m = k * n
  BY <1>2, Products
<1>4. PICK b \in Nat : b = WorkBegin(k, req) /\ b = IF m <= t THEN m ELSE t
  <2>1. (IF m <= t THEN m ELSE t) \in Nat
    OBVIOUS
  <2> QED
    BY <1>1, <1>2, <1>3, <2>1, MinIs DEF WorkBegin
<1>5. PICK e \in Nat : e = WorkEnd(k, req) /\ e = IF b + n <= t THEN b + n ELSE t
  <2>1. (IF b + n <= t THEN b + n ELSE t) \in Nat /\ b + n \in Int
    OBVIOUS
  <2> QED
    BY <1>1, <1>2, <1>4, <2>1, MinIs DEF WorkEnd
<1>6. Iterations(k, req) = {i \in 0..(t - 1) : b <= i /\ i < e}
  BY <1>1, <1>4, <1>5 DEF Iterations
<1>7. PICK q \in Nat : q = NumRanges(req)
  BY RangeCount
<1>8. PICK s \in Nat : s = q * n /\ t <= s /\ s < t + n
  BY <1>1, <1>2, <1>7, RangeCount
<1>9. k < q <=> m < t
  <2>1. k < q => m + n <= s
    BY <1>2, <1>3, <1>8, Products
  <2>2. q <= k => s <= m
    BY <1>2, <1>3, <1>8, Products
  <2> QED
    BY <2>1, <2>2, <1>2, <1>8
<1>10. b < e <=> m < t
  BY <1>2, <1>4, <1>5
<1>11. \A i \in 0..(t - 1) : b <= i /\ i < e <=> m <= i /\ i < m + n
  BY <1>2, <1>4, <1>5
<1>12. m < t => b \in 0..(t - 1) /\ e - 1 \in 0..(t - 1) /\ b <= e - 1
  BY <1>2, <1>4, <1>5
<1>13. m < t => {i \in 0..(t - 1) : b <= i /\ i < e} = b..(e - 1)
  BY <1>2, <1>4, <1>5
<1>14. b <= t
  BY <1>4
<1> QED
  BY <1>1, <1>2, <1>3, <1>4, <1>5, <1>6, <1>7, <1>9, <1>10, <1>11, <1>12, <1>13, <1>14

(* No iteration is in two ranges, and none is in no range.                 *)
LEMMA RangesDisjoint ==
  ASSUME NEW req \in Requests, NEW k \in Nat, NEW l \in Nat,
         NEW i \in Iterations(k, req), i \in Iterations(l, req)
  PROVE  k = l
<1>1. PICK n \in Nat : n = req.inner /\ n >= 1
  BY RequestParts
<1>2. i \in Int /\ k * n <= i /\ i < k * n + n /\ l * n <= i /\ i < l * n + n
  BY <1>1, RangeOf, RequestParts
<1>3. k * n \in Int /\ l * n \in Int
  BY <1>1, Products
<1>4. ~(k < l)
  <2>1. k < l => k * n + n <= l * n
    BY <1>1, Products
  <2> QED
    BY <1>2, <1>3, <2>1
<1>5. ~(l < k)
  <2>1. l < k => l * n + n <= k * n
    BY <1>1, Products
  <2> QED
    BY <1>2, <1>3, <2>1
<1> QED
  BY <1>4, <1>5

(* Every iteration is in one of the ranges.                                *)
LEMMA RangesCover ==
  ASSUME NEW req \in Requests, NEW i \in 0..(req.total - 1)
  PROVE  \E k \in 0..(NumRanges(req) - 1) : i \in Iterations(k, req)
<1>1. PICK n \in Nat : n = req.inner /\ n >= 1
  BY RequestParts
<1>2. PICK t \in Nat : t = req.total
  BY RequestParts
<1>3. i \in Nat /\ i < t
  BY <1>2
<1>4. PICK k \in Nat : k = i \div n
  BY <1>1, <1>3, Division
<1>5. k * n \in Nat /\ k * n <= i /\ i < k * n + n
  BY <1>1, <1>3, <1>4, Division, Products
<1>6. i \in Iterations(k, req)
  <2>1. Iterations(k, req) = {j \in 0..(req.total - 1) : k * req.inner <= j /\ j < k * req.inner + req.inner}
    BY RangeOf
  <2> QED
    BY <1>1, <1>5, <2>1
<1>7. PICK q \in Nat : q = NumRanges(req)
  BY RangeCount
<1>8. k < q
  <2>1. q <= k => q * n <= k * n
    BY <1>1, Products
  <2>2. t <= q * n /\ q * n \in Nat
    BY <1>1, <1>2, <1>7, RangeCount
  <2> QED
    BY <1>3, <1>5, <2>1, <2>2
<1> QED
  BY <1>6, <1>7, <1>8

(* What a claim computes stays below the largest s32: at most one claim of *)
(* every worker goes beyond the last range.                                *)
LEMMA ClaimFits ==
  ASSUME NEW req \in Requests, NEW k \in Nat, k <= NumRanges(req) + (NumWorkers - 1)
  PROVE  /\ k * req.inner <= MaxInt
         /\ WorkBegin(k, req) + req.inner <= MaxInt
<1>1. PICK n \in Nat : n = req.inner /\ n >= 1
  BY RequestParts
<1>2. PICK t \in Nat : t = req.total
  BY RequestParts
<1>3. PICK q \in Nat : q = NumRanges(req)
  BY RangeCount
<1>4. q * n < t + n /\ q * n \in Nat
  BY <1>1, <1>2, <1>3, RangeCount
<1>5. PICK m \in Nat : m = (NumWorkers - 1) * n
  BY <1>1, Products
<1>6. k * n <= q * n + m /\ k * n \in Int
  <2>1. k * n <= (q + (NumWorkers - 1)) * n
    BY <1>1, <1>3, Products
  <2>2. (q + (NumWorkers - 1)) * n = q * n + (NumWorkers - 1) * n
    BY <1>1, Products
  <2> QED
    BY <1>1, <1>5, <2>1, <2>2, Products
<1>7. NumWorkers * n = m + n
  <2>1. ((NumWorkers - 1) + 1) * n = (NumWorkers - 1) * n + 1 * n
    BY <1>1, Products
  <2>2. (NumWorkers - 1) + 1 = NumWorkers /\ 1 * n = n
    OBVIOUS
  <2> QED
    BY <1>5, <2>1, <2>2
<1>8. t + NumWorkers * n <= MaxInt /\ MaxInt \in Nat
  <2>1. req.total + NumWorkers * req.inner <= MaxInt /\ MaxInt \in Nat
    BY RequestParts, MaxIntAssumption
  <2> QED
    BY <1>1, <1>2, <2>1
<1>9. k * n <= MaxInt
  BY <1>4, <1>6, <1>7, <1>8
<1>10. WorkBegin(k, req) \in Nat /\ WorkBegin(k, req) <= t
  BY <1>2, RangeOf
<1>11. WorkBegin(k, req) + n <= MaxInt
  BY <1>7, <1>8, <1>10
<1> QED
  BY <1>1, <1>9, <1>11
------------------------------------------------------------------------------
(* The line of a worker.                                                   *)

Outside == {"inspect", "check", "block", "asleep", "reset", "exited"}

\* What may be posted.
Entries == Tickets \cup {QuitWork}

\* The queue of the producer that posts jobs to worker w is w's own.
OwnBox(w) == \A p \in Workers : p \notin {0, w} => boxes[w][p] = <<>>
OwnBoxes == \A w \in Workers : OwnBox(w)

First(w) == IF wpc[w] \in Outside THEN ring[w].reader ELSE batch[w].i
Length(w) == ring[w].writer + Len(Mail(w))
Line(w) ==
  [i \in 0..(Length(w) - 1) |->
     IF i < ring[w].writer THEN ring[w].slots[i] ELSE Mail(w)[i - ring[w].writer + 1]]
InLine(w) == First(w)..(Length(w) - 1)

\* The ticket being posted has still to be posted to worker w.
Posting == spc = "post" /\ ~Quitting
Due(w) == Posting /\ sj <= w

\* s_quit_work has been posted to worker w.
QuitSent(w) ==
  Quitting /\ (spc \in {"join", "gone"} \/ w < sj \/ (w = sj /\ spc \in {"set", "notify"}))

\* How many tickets worker w has been posted at most.
Sent(w) ==
  Len(calls) + (IF Due(w) THEN -1 ELSE 0) + (IF QuitSent(w) THEN 1 ELSE 0)

\* The call a ticket is for.
CallOf(t) == work[t].call

------------------------------------------------------------------------------
(* The inductive invariant.                                                *)

\* The histories of the calls.
RanTyped ==
  /\ ran = [c \in Calls |-> ran[c]]
  /\ \A c \in Made : ran[c] \in [0..(calls[c].total - 1) -> {0, 1}]

\* Where the scheduling thread is and what it has in its hands.
Phases ==
  /\ spc = "idle" => ticket = NoWork
  /\ spc \in {"post", "set", "notify"} => ticket \in Tickets \cup {QuitWork}
  /\ spc \in {"join", "gone"} => Quitting
  /\ ticket \in Tickets => CallOf(ticket) = Len(calls) /\ Len(calls) # 0
  /\ spc = "join" => \A w \in Workers : w < sj => wpc[w] = "exited"
  /\ spc = "gone" => \A w \in Workers : wpc[w] = "exited"

\* The free queue of a context holds the work_t that were never used, in
\* order; those in use are used by one call each, and each call by one.
FreeUnused ==
  \A o \in Owners :
    /\ Len(free[o]) + Len(calls) >= MaxJobs
    /\ \A n \in 1..Len(free[o]) : free[o][n] = (MaxJobs - Len(free[o])) + (n - 1)
    /\ \A n \in 0..(MaxJobs - 1) : n >= MaxJobs - Len(free[o]) => work[<<o, n>>] = NoJob

CallsDiffer ==
  /\ \A t \in Tickets : CallOf(t) <= Len(calls)
  /\ \A t, u \in Tickets : CallOf(t) = CallOf(u) /\ CallOf(t) # 0 => t = u
  /\ \A c \in Made : \E t \in Tickets : CallOf(t) = c

\* A worker's ring never wraps around, is empty while the worker is not in a
\* batch, and takes no items while it is.
RingPlaced(w) ==
  /\ ring[w].reader <= First(w) /\ First(w) <= ring[w].writer
  /\ wpc[w] \in Outside => ring[w].reader = ring[w].writer
  /\ wpc[w] \notin Outside => batch[w].end = ring[w].writer
  /\ Length(w) <= Sent(w)
RingPlace == \A w \in Workers : RingPlaced(w)

\* A ticket worker w has in its line or in its hands belongs to a job that
\* worker w has already been posted.
Given(w, t) == CallOf(t) # 0 /\ (Due(w) => CallOf(t) < Len(calls))

\* What a worker has still to fetch: the calls go up along the line, and the
\* ticket the worker works on comes before all of it.
LineRises(w) ==
  /\ \A i \in InLine(w) : Line(w)[i] \in Entries
  /\ \A i \in InLine(w) : Line(w)[i] \in Tickets => Given(w, Line(w)[i])
  /\ \A i, j \in InLine(w) :
       i < j /\ Line(w)[i] \in Tickets /\ Line(w)[j] \in Tickets
         => CallOf(Line(w)[i]) < CallOf(Line(w)[j])
  /\ hand[w].ticket \in Tickets =>
       /\ Given(w, hand[w].ticket)
       /\ \A i \in InLine(w) :
            Line(w)[i] \in Tickets => CallOf(hand[w].ticket) < CallOf(Line(w)[i])

\* The quit comes after every job in the line of worker 0, whose jobs and quit
\* come through the same queue.
QuitPlace(w) ==
  /\ w # 0 /\ ~QuitSent(w) => boxes[w][0] = <<>>
  /\ \A i \in InLine(w) : Line(w)[i] = QuitWork => QuitSent(w)
  /\ wpc[w] \in {"quit", "exited"} => QuitSent(w)
  /\ w = 0 => \A i \in InLine(w) : Line(w)[i] = QuitWork => i = Length(w) - 1
  /\ w = 0 /\ wpc[w] \in {"quit", "exited"} => First(w) = Length(w)

Lines ==
  OwnBoxes /\ RingPlace /\ \A w \in Workers : LineRises(w) /\ QuitPlace(w)

\* The ticket being posted is t, and worker w has still to be posted it; t is
\* in the line of worker w; worker w may still come to touch t.
Announced(w, t) == ticket = t /\ spc = "post" /\ sj <= w
Queued(w, t) == \E i \in InLine(w) : Line(w)[i] = t
Holds(w, t) == Announced(w, t) \/ Queued(w, t) \/ hand[w].ticket = t

HoldersOf(t) == {w \in Workers : Holds(w, t)}

\* Worker w has a range of t in its hands: range k, or any.
Executing(w, t, k) == hand[w].ticket = t /\ hand[w].k = k /\ wpc[w] = "execute"
Working(w, t, k) == hand[w].ticket = t /\ hand[w].k = k /\ wpc[w] \in {"execute", "count"}
Leaving(w, t) == hand[w].ticket = t /\ wpc[w] = "unref"

\* The workers that have claimed a range beyond the last one of t, or will
\* never claim any.
Late(t) == {w \in Workers : ~Holds(w, t) \/ Leaving(w, t)}

Request(t) == calls[CallOf(t)]
Ranges(t) == NumRanges(Request(t))

ClaimsInRange(t) ==
  \A w \in Workers :
    /\ \A k \in Nat : Working(w, t, k) => k < work[t].next /\ k < Ranges(t)
    /\ Leaving(w, t) => work[t].next >= Ranges(t)

ClaimsDiffer(t) ==
  \A w, v \in Workers : \A k \in Nat : Working(w, t, k) /\ Working(v, t, k) => w = v

\* An iteration has run if its range was claimed and the claimer has executed it.
Executed(t, k) == k < work[t].next /\ \A w \in Workers : ~Executing(w, t, k)
IterationsRun(t) ==
  \A k \in 0..(Ranges(t) - 1) : \A i \in Iterations(k, Request(t)) :
    ran[CallOf(t)][i] = IF Executed(t, k) THEN 1 ELSE 0

CountedOf(t) ==
  {k \in Nat : k < work[t].next /\ k < Ranges(t) /\ \A w \in Workers : ~Working(w, t, k)}
TodoCounts(t) == work[t].todo = Ranges(t) - Cardinality(CountedOf(t))

RefCounts(t) ==
  /\ work[t].ref >= Cardinality(HoldersOf(t))
  /\ work[t].ref > Cardinality(HoldersOf(t)) => Quitting
  /\ work[t].ref < NumWorkers => work[t].next >= Ranges(t)

ClaimsBounded(t) == work[t].next <= Ranges(t) + Cardinality(Late(t))

\* Worker 0 leaves no job before every range of it is claimed.
FirstWorkerStays(t) == ~Holds(0, t) => work[t].next >= Ranges(t)

JobCounters(t) ==
  /\ ClaimsInRange(t) /\ ClaimsDiffer(t) /\ IterationsRun(t) /\ TodoCounts(t)
  /\ RefCounts(t) /\ ClaimsBounded(t) /\ FirstWorkerStays(t)

Counters == \A t \in Tickets : CallOf(t) # 0 => JobCounters(t)

IInv ==
  TypeOK /\ RanTyped /\ Phases /\ FreeUnused /\ CallsDiffer /\ Lines
    /\ WaitingWorkerIsFlagged /\ Counters
------------------------------------------------------------------------------
(* Lines.                                                                  *)

RingSize == NumWorkers * MaxJobs

(* What the assumptions say of the sizes.                                  *)
LEMMA Sizes ==
  /\ RingSize \in Nat /\ MaxJobs <= RingSize
  /\ 0 \in Workers /\ Workers \subseteq Nat
  /\ \A w \in Workers : w < NumWorkers
  /\ QuitWork \notin Tickets /\ NoWork \notin Tickets /\ NoWork # QuitWork
<1>1. \A a \in Nat, b \in Nat \ {0} : a * b \in Nat /\ a <= a * b
  BY Z3
<1>2. \A a, b \in Nat : a * b = b * a
  BY Z3
<1>3. RingSize \in Nat /\ MaxJobs <= RingSize
  BY <1>1, <1>2 DEF RingSize
<1>4. 0 \in Workers /\ Workers \subseteq Nat /\ \A w \in Workers : w < NumWorkers
  BY DEF Workers
<1>5. QuitWork \notin Tickets /\ NoWork \notin Tickets /\ NoWork # QuitWork
  BY DEF QuitWork, NoWork, Tickets
<1> QED
  BY <1>3, <1>4, <1>5

(* The parts of a worker's queue.                                          *)
LEMMA QueueParts ==
  ASSUME TypeOK, NEW w \in Workers
  PROVE  /\ ring[w].slots \in [0..RingSize -> Tickets \cup {QuitWork, NoWork}]
         /\ ring[w].capacity = RingSize + 1
         /\ ring[w].writer \in 0..RingSize /\ ring[w].reader \in 0..RingSize
         /\ \A p \in Workers : boxes[w][p] \in Seq(Entries)
         /\ batch[w].begin \in 0..RingSize /\ batch[w].i \in 0..RingSize /\ batch[w].end \in 0..RingSize
         /\ First(w) \in 0..RingSize
<1>1. ring[w] \in [slots    : [0..RingSize -> Tickets \cup {QuitWork, NoWork}],
                   capacity : {RingSize + 1},
                   writer   : 0..RingSize,
                   reader   : 0..RingSize]
  BY DEF TypeOK, RingSize
<1>2. \A p \in Workers : boxes[w][p] \in Seq(Entries)
  <2>1. boxes \in [Workers -> [Workers -> Seq(Entries)]]
    BY Zenon DEF TypeOK, Entries
  <2> QED
    BY <2>1
<1>3. batch[w] \in [{"begin", "i", "end"} -> 0..RingSize]
  BY DEF TypeOK, RingSize
<1>4. batch[w].begin \in 0..RingSize /\ batch[w].i \in 0..RingSize /\ batch[w].end \in 0..RingSize
  BY <1>3
<1> QED
  BY <1>1, <1>2, <1>4 DEF First

(* A worker's mail is what the quit's producer and its own have posted.    *)
MailOf(b) == FlattenSeq([n \in 1..NumWorkers |-> b[n - 1]])

(* A worker's mail, from the queues that anybody posts to.                 *)
LEMMA MailParts ==
  ASSUME NEW w \in Workers, NEW b \in [Workers -> Seq(Entries)],
         \A p \in Workers : p \notin {0, w} => b[p] = <<>>
  PROVE  /\ MailOf(b) = IF w = 0 THEN b[0] ELSE b[0] \o b[w]
         /\ MailOf(b) \in Seq(Entries)
<1> DEFINE s == [n \in 1..NumWorkers |-> b[n - 1]]
<1>1. s \in [1..NumWorkers -> Seq(Entries)]
  BY DEF Workers
<1>2. w + 1 \in 1..NumWorkers /\ 0 \in Workers
  BY DEF Workers
<1>3. \A n \in 1..NumWorkers : n \notin {1, w + 1} => s[n] = <<>>
  BY DEF Workers
<1>4. s[1] = b[0] /\ s[w + 1] = b[w]
  BY <1>2 DEF Workers
<1>5. MailOf(b) = FlattenSeq(s)
  BY DEF MailOf
<1> HIDE DEF s
<1>6. FlattenSeq(s) = IF w + 1 = 1 THEN s[1] ELSE s[1] \o s[w + 1]
  <2>1. PICK q \in [1..NumWorkers -> Seq(Entries)] : q = s
    BY <1>1
  <2>2. PICK m \in 1..NumWorkers : m = w + 1
    BY <1>2
  <2>3. \A i \in 1..NumWorkers : i = 1 \/ i = m \/ q[i] = <<>>
    BY <1>3, <2>1, <2>2
  <2>4. FlattenSeq(q) = IF m = 1 THEN q[1] ELSE q[1] \o q[m]
    BY <2>3, FlattenTwo, NumWorkersAssumption
  <2> QED
    BY <2>1, <2>2, <2>4
<1>7. b[0] \in Seq(Entries) /\ b[w] \in Seq(Entries)
  BY <1>2
<1>8. w + 1 = 1 <=> w = 0
  BY Sizes
<1> QED
  BY <1>4, <1>5, <1>6, <1>7, <1>8

(* The mail of a worker in a state of the system.                          *)
LEMMA MailIs ==
  ASSUME TypeOK, OwnBoxes, NEW w \in Workers
  PROVE  /\ Mail(w) = IF w = 0 THEN boxes[w][0] ELSE boxes[w][0] \o boxes[w][w]
         /\ Mail(w) \in Seq(Entries)
<1>1. boxes \in [Workers -> [Workers -> Seq(Entries)]]
  BY Zenon DEF TypeOK, Entries
<1>2. PICK b \in [Workers -> Seq(Entries)] : b = boxes[w]
  BY <1>1
<1>3. \A p \in Workers : p \notin {0, w} => b[p] = <<>>
  BY <1>2 DEF OwnBoxes, OwnBox
<1>4. Mail(w) = MailOf(b)
  BY <1>2 DEF Mail, MailOf
<1> QED
  BY <1>2, <1>3, <1>4, MailParts

(* The parts of a line.                                                    *)
LEMMA LineParts ==
  ASSUME TypeOK, OwnBoxes, NEW w \in Workers
  PROVE  /\ First(w) \in Nat /\ ring[w].writer \in Nat /\ Len(Mail(w)) \in Nat
         /\ Length(w) \in Nat /\ Length(w) = ring[w].writer + Len(Mail(w))
         /\ \A i \in 0..(Length(w) - 1) :
              /\ i < ring[w].writer => Line(w)[i] = ring[w].slots[i]
              /\ i >= ring[w].writer => /\ i - ring[w].writer + 1 \in 1..Len(Mail(w))
                                        /\ Line(w)[i] = Mail(w)[i - ring[w].writer + 1]
<1>1. PICK m \in Seq(Entries) : m = Mail(w)
  BY MailIs
<1>2. PICK v \in Nat : v = ring[w].writer
  BY QueueParts
<1>3. First(w) \in Nat
  BY QueueParts
<1>4. Length(w) = v + Len(m) /\ Len(m) \in Nat
  BY <1>1, <1>2 DEF Length
<1>5. \A i \in 0..((v + Len(m)) - 1) : i >= v => i - v + 1 \in 1..Len(m)
  BY <1>4
<1>6. Line(w) = [i \in 0..((v + Len(m)) - 1) |-> IF i < v THEN ring[w].slots[i] ELSE m[i - v + 1]]
  BY <1>1, <1>2, <1>4 DEF Line
<1>7. v + Len(m) \in Nat
  BY <1>4
<1> QED
  BY <1>1, <1>2, <1>3, <1>4, <1>5, <1>6, <1>7

(* Nothing wraps around: fewer tickets are ever posted to a worker than    *)
(* its ring holds.                                                         *)
LEMMA NoWrap ==
  ASSUME FewCalls, TypeOK, OwnBoxes, RingPlace, NEW w \in Workers
  PROVE  /\ Sent(w) \in Int /\ Length(w) <= Sent(w) /\ Sent(w) <= Len(calls) + 1
         /\ Len(calls) \in Nat /\ Len(calls) < MaxJobs
         /\ Length(w) <= RingSize
<1>1. PICK n \in Nat : n = Len(calls) /\ n <= MaxCalls
  BY DEF TypeOK
<1>2. Sent(w) \in Int /\ Sent(w) <= n + 1
  <2>1. Sent(w) = n + (IF Due(w) THEN -1 ELSE 0) + (IF QuitSent(w) THEN 1 ELSE 0)
    BY <1>1 DEF Sent
  <2> QED
    BY <2>1
<1>3. Length(w) <= Sent(w) /\ Length(w) \in Nat
  BY LineParts DEF RingPlace, RingPlaced
<1>4. n + 1 <= RingSize /\ RingSize \in Nat
  BY <1>1, Sizes DEF FewCalls
<1> QED
  BY <1>1, <1>2, <1>3, <1>4 DEF FewCalls

(* The parts of the state.                                                 *)
LEMMA StateParts ==
  ASSUME TypeOK
  PROVE  /\ Len(calls) \in Nat /\ Len(calls) <= MaxCalls
         /\ \A c \in Made : calls[c] \in Requests
         /\ sj \in Workers
         /\ ticket \in Tickets \cup {QuitWork, NoWork}
         /\ work \in [Tickets -> [call : 0..MaxCalls, next : Nat, todo : Int, ref : Int]]
         /\ \A t \in Tickets : /\ work[t].call \in Nat /\ work[t].call <= MaxCalls
                               /\ work[t].next \in Nat
                               /\ work[t].todo \in Int /\ work[t].ref \in Int
         /\ boxes \in [Workers -> [Workers -> Seq(Entries)]]
         /\ ring \in [Workers -> [slots    : [0..RingSize -> Tickets \cup {QuitWork, NoWork}],
                                  capacity : {RingSize + 1},
                                  writer   : 0..RingSize,
                                  reader   : 0..RingSize]]
         /\ batch \in [Workers -> [{"begin", "i", "end"} -> 0..RingSize]]
         /\ hand \in [Workers -> [ticket : Tickets \cup {NoWork}, k : Nat]]
         /\ \A w \in Workers : hand[w].ticket \in Tickets \cup {NoWork} /\ hand[w].k \in Nat
         /\ \A w \in Workers : wpc[w] \in {"claim", "execute", "count", "unref"}
                                 <=> hand[w].ticket \in Tickets
<1>1. /\ calls \in Seq(Requests) /\ Len(calls) <= MaxCalls
      /\ sj \in Workers
      /\ ticket \in Tickets \cup {QuitWork, NoWork}
      /\ \A w \in Workers : wpc[w] \in {"claim", "execute", "count", "unref"}
                              <=> hand[w].ticket \in Tickets
  BY Zenon DEF TypeOK
<1>2. /\ work \in [Tickets -> [call : 0..MaxCalls, next : Nat, todo : Int, ref : Int]]
      /\ boxes \in [Workers -> [Workers -> Seq(Entries)]]
      /\ ring \in [Workers -> [slots    : [0..RingSize -> Tickets \cup {QuitWork, NoWork}],
                               capacity : {RingSize + 1},
                               writer   : 0..RingSize,
                               reader   : 0..RingSize]]
      /\ batch \in [Workers -> [{"begin", "i", "end"} -> 0..RingSize]]
      /\ hand \in [Workers -> [ticket : Tickets \cup {NoWork}, k : Nat]]
  BY Zenon DEF TypeOK, Entries, RingSize
<1>3. Len(calls) \in Nat /\ \A c \in Made : calls[c] \in Requests
  BY <1>1 DEF Made
<1>4. \A t \in Tickets : /\ work[t].call \in Nat /\ work[t].call <= MaxCalls
                         /\ work[t].next \in Nat
                         /\ work[t].todo \in Int /\ work[t].ref \in Int
  BY <1>2
<1>5. \A w \in Workers : hand[w].ticket \in Tickets \cup {NoWork} /\ hand[w].k \in Nat
  BY <1>2
<1> QED
  BY <1>1, <1>2, <1>3, <1>4, <1>5

(* The model's set of holders, in the words of the line.                   *)
LEMMA HoldersAre ==
  ASSUME TypeOK, OwnBoxes, RingPlace, NEW t \in Tickets
  PROVE  Holders(t) = {w \in Workers : Holds(w, t)}
<1> SUFFICES ASSUME NEW w \in Workers
             PROVE  (\E p \in Workers : t \in ToSet(boxes[w][p])) \/ t \in ToSet(Taken(w))
                      <=> \E i \in InLine(w) : Line(w)[i] = t
  BY Zenon DEF Holders, Holds, Announced, Queued
<1>1. PICK f, v \in Nat : f = First(w) /\ v = ring[w].writer /\ f <= v
  BY LineParts DEF RingPlace, RingPlaced
<1>2. PICK m \in Seq(Entries) : m = Mail(w)
  BY MailIs
<1>3. v <= RingSize /\ ring[w].capacity = RingSize + 1
  BY <1>1, QueueParts
<1>4. (\E p \in Workers : t \in ToSet(boxes[w][p])) <=> \E j \in 1..Len(m) : m[j] = t
  <2>1. PICK a \in Seq(Entries), b \in Seq(Entries) :
          a = boxes[w][0] /\ b = boxes[w][w] /\ m = IF w = 0 THEN a ELSE a \o b
    BY <1>2, MailIs, QueueParts, Sizes
  <2>2. (\E p \in Workers : t \in ToSet(boxes[w][p])) <=> t \in ToSet(a) \/ t \in ToSet(b)
    BY <2>1, Sizes DEF OwnBoxes, OwnBox, ToSet
  <2>3. t \in ToSet(a) <=> \E j \in 1..Len(a) : a[j] = t
    BY DEF ToSet
  <2>4. t \in ToSet(b) <=> \E j \in 1..Len(b) : b[j] = t
    BY DEF ToSet
  <2>5. CASE w = 0
    BY <2>1, <2>2, <2>3, <2>4, <2>5
  <2>6. CASE w # 0
    <3>1. /\ Len(m) = Len(a) + Len(b)
          /\ \A j \in 1..Len(a) : m[j] = a[j]
          /\ \A j \in 1..Len(b) : m[Len(a) + j] = b[j]
          /\ Len(a) \in Nat /\ Len(b) \in Nat
      <4>1. m = a \o b
        BY <2>1, <2>6
      <4> QED
        BY <4>1
    <3>2. \A j \in 1..Len(m) : j \in 1..Len(a) \/ (j - Len(a) \in 1..Len(b) /\ j = Len(a) + (j - Len(a)))
      BY <3>1
    <3>3. \A j \in 1..Len(b) : Len(a) + j \in 1..Len(m)
      BY <3>1
    <3>4. 1..Len(a) \subseteq 1..Len(m)
      BY <3>1
    <3>5. ASSUME NEW j \in 1..Len(m), m[j] = t
          PROVE  t \in ToSet(a) \/ t \in ToSet(b)
      <4>1. CASE j \in 1..Len(a)
        BY <2>3, <3>1, <3>5, <4>1
      <4>2. CASE j \notin 1..Len(a)
        <5>1. PICK k \in 1..Len(b) : j = Len(a) + k
          BY <3>2, <4>2
        <5>2. b[k] = t
          BY <3>1, <3>5, <5>1
        <5> QED
          BY <2>4, <5>2
      <4> QED
        BY <4>1, <4>2
    <3>6. ASSUME t \in ToSet(a) PROVE \E j \in 1..Len(m) : m[j] = t
      BY <2>3, <3>1, <3>4, <3>6
    <3>7. ASSUME t \in ToSet(b) PROVE \E j \in 1..Len(m) : m[j] = t
      BY <2>4, <3>1, <3>3, <3>7
    <3> QED
      BY Zenon, <2>2, <3>5, <3>6, <3>7
  <2> QED
    BY <2>5, <2>6
<1>5. t \in ToSet(Taken(w)) <=> \E i \in f..(v - 1) : ring[w].slots[i] = t
  <2>1. CASE IsEmpty(ring[w])
    <3>1. ring[w].reader = v /\ ring[w].reader <= f
      BY <1>1, <2>1 DEF IsEmpty, RingPlace, RingPlaced
    <3>2. f = v
      BY <1>1, <3>1
    <3>3. f..(v - 1) = {}
      BY <3>2
    <3>4. Taken(w) = <<>>
      BY <2>1 DEF Taken
    <3> QED
      BY <3>3, <3>4 DEF ToSet
  <2>2. CASE ~IsEmpty(ring[w])
    <3>1. Taken(w) = RingFrom(ring[w], f)
      BY <1>1, <2>2 DEF Taken, First, Outside
    <3>2. Ahead(ring[w], f, ring[w].writer) = v - f
      BY <1>1 DEF Ahead
    <3>3. ASSUME NEW k \in 1..(v - f) PROVE Advance(ring[w], f, k - 1) = f + (k - 1)
      <4>1. PICK c \in Nat : c = ring[w].capacity /\ v < c
        BY <1>1, <1>3, Sizes
      <4>2. f + (k - 1) < c
        BY <1>1, <4>1
      <4> QED
        BY <1>1, <4>1, <4>2 DEF Advance
    <3>4. Taken(w) = [k \in 1..(v - f) |-> ring[w].slots[f + (k - 1)]]
      BY <3>1, <3>2, <3>3 DEF RingFrom
    <3>5. t \in ToSet(Taken(w)) <=> \E k \in 1..(v - f) : ring[w].slots[f + (k - 1)] = t
      BY <3>4 DEF ToSet
    <3>6. \A k \in 1..(v - f) : f + (k - 1) \in f..(v - 1)
      BY <1>1
    <3>7. \A i \in f..(v - 1) : i - f + 1 \in 1..(v - f) /\ f + ((i - f + 1) - 1) = i
      BY <1>1
    <3> QED
      BY <3>5, <3>6, <3>7
  <2> QED
    BY <2>1, <2>2
<1>6. (\E i \in InLine(w) : Line(w)[i] = t)
        <=> (\E i \in f..(v - 1) : ring[w].slots[i] = t) \/ (\E j \in 1..Len(m) : m[j] = t)
  <2>1. PICK n \in Nat : n = Len(m)
    BY <1>2, LineParts
  <2>2. Length(w) = v + n /\ First(w) = f
    BY <1>1, <1>2, <2>1, LineParts
  <2>3. InLine(w) = f..((v + n) - 1)
    BY <2>2 DEF InLine
  <2>4. \A i \in 0..((v + n) - 1) :
          /\ i < v => Line(w)[i] = ring[w].slots[i]
          /\ i >= v => i - v + 1 \in 1..n /\ Line(w)[i] = m[i - v + 1]
    <3>1. \A i \in 0..(Length(w) - 1) :
            /\ i < v => Line(w)[i] = ring[w].slots[i]
            /\ i >= v => i - v + 1 \in 1..Len(m) /\ Line(w)[i] = m[i - v + 1]
      BY <1>1, <1>2, LineParts
    <3>2. 0..(Length(w) - 1) = 0..((v + n) - 1) /\ 1..Len(m) = 1..n
      BY <2>1, <2>2
    <3> QED
      BY Zenon, <3>1, <3>2
  <2>5. ASSUME NEW i \in f..(v - 1)
        PROVE  i \in InLine(w) /\ Line(w)[i] = ring[w].slots[i]
    <3>1. i \in f..((v + n) - 1) /\ i \in 0..((v + n) - 1) /\ i < v
      BY <1>1
    <3> QED
      BY <2>3, <2>4, <3>1
  <2>6. ASSUME NEW j \in 1..n
        PROVE  \E i \in InLine(w) : Line(w)[i] = m[j]
    <3>1. PICK i \in Nat : i = v + (j - 1)
      BY <1>1
    <3>2. i \in 0..((v + n) - 1) /\ i \in f..((v + n) - 1) /\ i >= v /\ i - v + 1 = j
      <4>1. f <= v
        BY <1>1
      <4>2. i >= v /\ i - v + 1 = j /\ i <= (v + n) - 1
        BY <3>1
      <4> QED
        BY <4>1, <4>2
    <3>3. Line(w)[i] = m[i - v + 1]
      BY <2>4, <3>2
    <3>4. m[i - v + 1] = m[j] /\ i \in InLine(w)
      BY <2>3, <3>2
    <3> QED
      BY <3>3, <3>4, Zenon
  <2>7. ASSUME NEW i \in InLine(w)
        PROVE  i \in f..(v - 1) \/ (i - v + 1 \in 1..n /\ Line(w)[i] = m[i - v + 1])
    <3>1. i \in f..((v + n) - 1)
      BY <2>3
    <3>2. i \in 0..((v + n) - 1) /\ (i \in f..(v - 1) \/ i >= v)
      BY <1>1, <3>1
    <3> QED
      BY <2>4, <3>2
  <2>8. (\E i \in InLine(w) : Line(w)[i] = t)
          <=> (\E i \in f..(v - 1) : ring[w].slots[i] = t) \/ (\E j \in 1..n : m[j] = t)
    BY <2>5, <2>6, <2>7
  <2> QED
    BY <2>1, <2>8
<1> QED
  BY <1>4, <1>5, <1>6

------------------------------------------------------------------------------
(* What the steps do to the lines.                                         *)

(* A worker that a step leaves alone has the line it had.                  *)
LEMMA SameParts ==
  ASSUME NEW v \in Workers,
         boxes'[v] = boxes[v], ring'[v] = ring[v], batch'[v] = batch[v],
         wpc'[v] \in Outside <=> wpc[v] \in Outside
  PROVE  /\ (First(v))' = First(v) /\ (Length(v))' = Length(v) /\ (Mail(v))' = Mail(v)
         /\ (Line(v))' = Line(v) /\ (InLine(v))' = InLine(v)
<1>1. (First(v))' = First(v)
  BY DEF First
<1>2. (Mail(v))' = Mail(v)
  BY DEF Mail
<1>3. (Length(v))' = Length(v)
  BY <1>2 DEF Length
<1>4. (Line(v))' = Line(v)
  BY <1>2, <1>3 DEF Line
<1>5. (InLine(v))' = InLine(v)
  BY <1>1, <1>3 DEF InLine
<1> QED
  BY <1>1, <1>2, <1>3, <1>4, <1>5

\* A call keeps its work_t, and a job becomes due only when its call is made.
CallsKept == \A t \in Tickets : CallOf(t) # 0 => (CallOf(t))' = CallOf(t)
DueLater(w) == Due(w)' => (Due(w) /\ calls' = calls) \/ Len(calls') = Len(calls) + 1

(* A line stays in order when a step takes tickets off its front, the      *)
(* first of them into the worker's hands.                                  *)
LEMMA ShorterLine ==
  ASSUME TypeOK, CallsDiffer, CallsKept, NEW w \in Workers, LineRises(w), DueLater(w),
         \A i \in InLine(w)' : i \in InLine(w) /\ Line(w)'[i] = Line(w)[i],
         hand'[w].ticket \in Tickets =>
           \/ hand'[w].ticket = hand[w].ticket
           \/ /\ First(w) \in InLine(w) /\ hand'[w].ticket = Line(w)[First(w)]
              /\ \A i \in InLine(w)' : First(w) < i
  PROVE  LineRises(w)'
<1> DEFINE Ln == Line(w)
           In == InLine(w)
<1>1. PICK L, I : L = Line(w)' /\ I = InLine(w)'
  OBVIOUS
<1>2. \A i \in I : i \in In /\ L[i] = Ln[i]
  BY <1>1
<1>3. ASSUME NEW t \in Tickets, Given(w, t)
      PROVE  Given(w, t)' /\ (CallOf(t))' = CallOf(t) /\ CallOf(t) \in Nat
  <2>1. CallOf(t) # 0 /\ (CallOf(t))' = CallOf(t)
    BY <1>3 DEF Given, CallsKept
  <2>2. CallOf(t) \in Nat /\ Len(calls) \in Nat /\ CallOf(t) <= Len(calls)
    BY StateParts DEF CallsDiffer, CallOf
  <2>3. Due(w)' => CallOf(t) < Len(calls')
    BY <1>3, <2>2 DEF Given, DueLater
  <2> QED
    BY <2>1, <2>2, <2>3 DEF Given
<1>4. \A i \in In : Ln[i] \in Entries
  BY DEF LineRises
<1>5. \A i \in In : Ln[i] \in Tickets => Given(w, Ln[i])
  BY DEF LineRises
<1>6. \A i, j \in In : i < j /\ Ln[i] \in Tickets /\ Ln[j] \in Tickets => CallOf(Ln[i]) < CallOf(Ln[j])
  BY DEF LineRises
<1>7. hand[w].ticket \in Tickets =>
        /\ Given(w, hand[w].ticket)
        /\ \A i \in In : Ln[i] \in Tickets => CallOf(hand[w].ticket) < CallOf(Ln[i])
  BY DEF LineRises
<1>8. PICK h : h = hand'[w].ticket
  OBVIOUS
<1>9. PICK f : f = First(w)
  OBVIOUS
<1>10. h \in Tickets => h = hand[w].ticket \/ (f \in In /\ h = Ln[f] /\ \A i \in I : f < i)
  BY <1>1, <1>8, <1>9
<1> HIDE DEF Ln, In
<1>11. h \in Tickets => Given(w, h) /\ \A i \in I : Ln[i] \in Tickets => CallOf(h) < CallOf(Ln[i])
  BY <1>2, <1>5, <1>6, <1>7, <1>10
<1>12. /\ \A i \in I : L[i] \in Entries
       /\ \A i \in I : L[i] \in Tickets => Given(w, L[i])'
  BY <1>2, <1>3, <1>4, <1>5
<1>13. \A i \in I : L[i] \in Tickets => (CallOf(L[i]))' = CallOf(Ln[i])
  BY <1>2, <1>3, <1>5
<1>14. \A i, j \in I : i < j /\ L[i] \in Tickets /\ L[j] \in Tickets => (CallOf(L[i]))' < (CallOf(L[j]))'
  BY <1>2, <1>6, <1>13
<1>15. h \in Tickets =>
         /\ Given(w, h)'
         /\ \A i \in I : L[i] \in Tickets => (CallOf(h))' < (CallOf(L[i]))'
  BY <1>2, <1>3, <1>11, <1>13
<1> QED
  BY <1>1, <1>8, <1>12, <1>14, <1>15 DEF LineRises


LineOf(w) == OwnBox(w) /\ RingPlaced(w) /\ LineRises(w) /\ QuitPlace(w)

\* What the scheduling thread owes a worker never gets less.
SentGrows(w) ==
  /\ DueLater(w)
  /\ QuitSent(w) => QuitSent(w)'
  /\ Sent(w) \in Int /\ Sent(w)' \in Int /\ Sent(w) <= Sent(w)'

(* A worker whose queue and hand stay as they are keeps its line.          *)
LEMMA LineStays ==
  ASSUME TypeOK, CallsDiffer, CallsKept, OwnBoxes, NEW v \in Workers, LineOf(v), SentGrows(v),
         boxes'[v] = boxes[v], ring'[v] = ring[v], batch'[v] = batch[v],
         wpc'[v] \in Outside <=> wpc[v] \in Outside,
         wpc'[v] \in {"quit", "exited"} => wpc[v] \in {"quit", "exited"},
         hand'[v].ticket \in Tickets => hand'[v].ticket = hand[v].ticket
  PROVE  LineOf(v)'
<1>1. /\ (First(v))' = First(v) /\ (Length(v))' = Length(v)
      /\ (Line(v))' = Line(v) /\ (InLine(v))' = InLine(v)
  BY SameParts
<1>2. OwnBox(v)'
  BY DEF LineOf, OwnBox
<1>3. RingPlaced(v)'
  <2>1. PICK n \in Nat : n = Length(v)
    BY LineParts
  <2>2. n <= Sent(v)'
    BY <2>1 DEF LineOf, RingPlaced, SentGrows
  <2> QED
    BY <1>1, <2>1, <2>2 DEF LineOf, RingPlaced
<1>4. LineRises(v)'
  <2>1. LineRises(v) /\ DueLater(v)
    BY DEF LineOf, SentGrows
  <2>2. \A i \in InLine(v)' : i \in InLine(v) /\ Line(v)'[i] = Line(v)[i]
    BY <1>1
  <2> QED
    BY <2>1, <2>2, ShorterLine
<1>5. QuitPlace(v)'
  <2>1. QuitPlace(v) /\ (QuitSent(v) => QuitSent(v)')
    BY DEF LineOf, SentGrows
  <2> QED
    BY <1>1, <2>1 DEF QuitPlace
<1> QED
  BY <1>2, <1>3, <1>4, <1>5 DEF LineOf

(* A work_t that is taken is one that was never used: the free queue of a  *)
(* context is not empty and its head is the next work_t.                   *)
LEMMA FreshWork ==
  ASSUME FewCalls, TypeOK, FreeUnused, NEW req \in Requests, Schedule(req)
  PROVE  \E n \in 0..(MaxJobs - 1) :
           /\ req.owner \in Owners /\ free[req.owner] # <<>>
           /\ n = MaxJobs - Len(free[req.owner])
           /\ <<req.owner, n>> \in Tickets /\ ticket' = <<req.owner, n>>
           /\ work[<<req.owner, n>>] = NoJob
           /\ work' = [work EXCEPT ![<<req.owner, n>>] =
                         [call |-> Len(calls) + 1, next |-> 0,
                          todo |-> NumRanges(req), ref |-> NumWorkers]]
           /\ free' = [free EXCEPT ![req.owner] = Tail(@)]
           /\ Len(calls) \in Nat /\ Len(calls) < MaxCalls
<1>1. PICK o \in Owners : o = req.owner
  BY RequestParts
<1>2. PICK q \in Seq(0..(MaxJobs - 1)) : q = free[o]
  BY <1>1 DEF TypeOK
<1>3. Len(calls) \in Nat /\ Len(calls) < MaxCalls
  BY StateParts DEF Schedule
<1>4. Len(q) \in Nat /\ Len(q) + Len(calls) >= MaxJobs
  <2>1. Len(free[o]) + Len(calls) >= MaxJobs
    BY Zenon DEF FreeUnused
  <2> QED
    BY <1>2, <2>1
<1>5. Len(q) > 0 /\ q # <<>>
  BY <1>3, <1>4 DEF FewCalls
<1>6. PICK n \in 0..(MaxJobs - 1) : n = q[1] /\ n = Head(q)
  BY <1>2, <1>5
<1>7. n = MaxJobs - Len(q)
  <2>1. 1 \in 1..Len(q)
    BY <1>4, <1>5
  <2>2. \A i \in 1..Len(q) : q[i] = (MaxJobs - Len(q)) + (i - 1)
    BY <1>1, <1>2 DEF FreeUnused
  <2>3. q[1] = (MaxJobs - Len(q)) + (1 - 1)
    BY <2>1, <2>2
  <2> QED
    BY <1>4, <1>6, <2>3
<1>8. work[<<o, n>>] = NoJob
  <2>1. \A k \in 0..(MaxJobs - 1) : k >= MaxJobs - Len(free[o]) => work[<<o, k>>] = NoJob
    BY Zenon DEF FreeUnused
  <2>2. n >= MaxJobs - Len(free[o])
    BY <1>2, <1>4, <1>7
  <2> QED
    BY <2>1, <2>2
<1>9. <<o, n>> \in Tickets
  BY <1>1, <1>6 DEF Tickets
<1>10. /\ ticket' = <<o, n>>
       /\ work' = [work EXCEPT ![<<o, n>>] = [call |-> Len(calls) + 1, next |-> 0,
                                              todo |-> NumRanges(req), ref |-> NumWorkers]]
       /\ free' = [free EXCEPT ![o] = Tail(@)]
  BY <1>1, <1>2, <1>5, <1>6 DEF Schedule, WithoutFirst
<1> QED
  BY <1>1, <1>2, <1>3, <1>5, <1>6, <1>7, <1>8, <1>9, <1>10


(* The fields of a work_t that is counted on.                              *)
LEMMA WorkFields ==
  ASSUME TypeOK, NEW t \in Tickets, NEW x
  PROVE  /\ [work[t] EXCEPT !.next = x] =
              [call |-> work[t].call, next |-> x, todo |-> work[t].todo, ref |-> work[t].ref]
         /\ [work[t] EXCEPT !.todo = x] =
              [call |-> work[t].call, next |-> work[t].next, todo |-> x, ref |-> work[t].ref]
         /\ [work[t] EXCEPT !.ref = x] =
              [call |-> work[t].call, next |-> work[t].next, todo |-> work[t].todo, ref |-> x]
<1>1. work[t] \in [call : 0..MaxCalls, next : Nat, todo : Int, ref : Int]
  BY StateParts
<1> QED
  BY <1>1

(* What a worker's step does to a work_t, and to which.                    *)
LEMMA Counting ==
  ASSUME TypeOK, NEW w \in Workers, NEW t \in Tickets
  PROVE  /\ Claim(w) => work'[t] = IF t = hand[w].ticket
              THEN [call |-> work[t].call, next |-> work[t].next + 1,
                    todo |-> work[t].todo, ref |-> work[t].ref]
              ELSE work[t]
         /\ CountDone(w) => work'[t] = IF t = hand[w].ticket
              THEN [call |-> work[t].call, next |-> work[t].next,
                    todo |-> work[t].todo - 1, ref |-> work[t].ref]
              ELSE work[t]
         /\ Unref(w) => work'[t] = IF t = hand[w].ticket
              THEN [call |-> work[t].call, next |-> work[t].next,
                    todo |-> work[t].todo, ref |-> work[t].ref - 1]
              ELSE work[t]
         /\ Claim(w) \/ CountDone(w) \/ Unref(w) => (CallOf(t))' = CallOf(t)
<1>1. PICK f : f = work
  OBVIOUS
<1>2. PICK h : h = hand[w].ticket
  OBVIOUS
<1>3. f \in [Tickets -> [call : 0..MaxCalls, next : Nat, todo : Int, ref : Int]]
  BY <1>1, StateParts
<1>4. f[t] = [call |-> f[t].call, next |-> f[t].next, todo |-> f[t].todo, ref |-> f[t].ref]
  BY <1>3
<1>5. ASSUME Claim(w)
      PROVE  work'[t] = IF t = h THEN [f[t] EXCEPT !.next = f[t].next + 1] ELSE f[t]
  <2>1. work' = [f EXCEPT ![h].next = f[h].next + 1]
    BY <1>1, <1>2, <1>5 DEF Claim, Job
  <2> QED
    BY <1>3, <2>1
<1>6. ASSUME CountDone(w)
      PROVE  work'[t] = IF t = h THEN [f[t] EXCEPT !.todo = f[t].todo - 1] ELSE f[t]
  <2>1. work' = [f EXCEPT ![h].todo = @ - 1]
    BY <1>1, <1>2, <1>6 DEF CountDone
  <2> QED
    BY <1>3, <2>1
<1>7. ASSUME Unref(w)
      PROVE  work'[t] = IF t = h THEN [f[t] EXCEPT !.ref = f[t].ref - 1] ELSE f[t]
  <2>1. work' = [f EXCEPT ![h].ref = @ - 1]
    BY <1>1, <1>2, <1>7 DEF Unref
  <2> QED
    BY <1>3, <2>1
<1>8. /\ [f[t] EXCEPT !.next = f[t].next + 1] =
           [call |-> f[t].call, next |-> f[t].next + 1, todo |-> f[t].todo, ref |-> f[t].ref]
      /\ [f[t] EXCEPT !.todo = f[t].todo - 1] =
           [call |-> f[t].call, next |-> f[t].next, todo |-> f[t].todo - 1, ref |-> f[t].ref]
      /\ [f[t] EXCEPT !.ref = f[t].ref - 1] =
           [call |-> f[t].call, next |-> f[t].next, todo |-> f[t].todo, ref |-> f[t].ref - 1]
  BY <1>4
<1>9. /\ Claim(w) => work'[t] = IF t = h
             THEN [call |-> f[t].call, next |-> f[t].next + 1, todo |-> f[t].todo, ref |-> f[t].ref]
             ELSE f[t]
      /\ CountDone(w) => work'[t] = IF t = h
             THEN [call |-> f[t].call, next |-> f[t].next, todo |-> f[t].todo - 1, ref |-> f[t].ref]
             ELSE f[t]
      /\ Unref(w) => work'[t] = IF t = h
             THEN [call |-> f[t].call, next |-> f[t].next, todo |-> f[t].todo, ref |-> f[t].ref - 1]
             ELSE f[t]
  BY Zenon, <1>5, <1>6, <1>7, <1>8
<1>10. Claim(w) \/ CountDone(w) \/ Unref(w) => work'[t].call = f[t].call
  <2>1. CASE t = h
    BY <1>9, <2>1
  <2>2. CASE t # h
    BY <1>9, <2>2
  <2> QED
    BY <2>1, <2>2
<1>11. (CallOf(t))' = work'[t].call /\ CallOf(t) = f[t].call
  BY <1>1 DEF CallOf
<1> QED
  BY Zenon, <1>1, <1>2, <1>9, <1>10, <1>11

(* A worker's step leaves the scheduling thread's state, every call's      *)
(* work_t and the other workers alone.                                     *)
LEMMA WorkerFrame ==
  ASSUME TypeOK, NEW w \in Workers, Worker(w) \/ SpuriousWake(w)
  PROVE  /\ calls' = calls /\ spc' = spc /\ sj' = sj /\ ticket' = ticket /\ free' = free
         /\ \A t \in Tickets : (CallOf(t))' = CallOf(t)
         /\ \A v \in Workers : v # w =>
              /\ boxes'[v] = boxes[v] /\ ring'[v] = ring[v] /\ batch'[v] = batch[v]
              /\ wpc'[v] = wpc[v] /\ hand'[v] = hand[v] /\ sig'[v] = sig[v]
<1> DEFINE Others == \A v \in Workers : v # w =>
              /\ boxes'[v] = boxes[v] /\ ring'[v] = ring[v] /\ batch'[v] = batch[v]
              /\ wpc'[v] = wpc[v] /\ hand'[v] = hand[v] /\ sig'[v] = sig[v]
<1>0. /\ wpc \in [Workers -> {"inspect", "check", "block", "asleep", "reset", "fetch", "quit",
                              "claim", "execute", "count", "unref", "exited"}]
      /\ sig \in [Workers -> BOOLEAN]
  BY Zenon DEF TypeOK
<1>1. CASE Inspect(w)
  BY <1>0, <1>1, StateParts DEF Inspect, Goto, schedulerVars, workVars, CallOf
<1>2. CASE WaitCheck(w) \/ WaitBlock(w) \/ SpuriousWake(w)
  BY <1>0, <1>2, StateParts DEF WaitCheck, WaitBlock, SpuriousWake, Goto, schedulerVars, workVars, queueVars, CallOf
<1>3. CASE WaitReset(w)
  BY <1>0, <1>3, StateParts DEF WaitReset, Goto, schedulerVars, workVars, queueVars, CallOf
<1>4. CASE Fetch(w)
  BY <1>0, <1>4, StateParts DEF Fetch, Goto, schedulerVars, workVars, CallOf
<1>5. CASE Claim(w)
  <2>1. \A t \in Tickets : (CallOf(t))' = CallOf(t)
    BY <1>5, Counting
  <2> QED
    BY <1>0, <1>5, <2>1, StateParts DEF Claim, Goto, schedulerVars, queueVars
<1>6. CASE Execute(w)
  BY <1>0, <1>6, StateParts DEF Execute, Goto, schedulerVars, queueVars, CallOf
<1>7. CASE CountDone(w)
  <2>1. \A t \in Tickets : (CallOf(t))' = CallOf(t)
    BY <1>7, Counting
  <2> QED
    BY <1>0, <1>7, <2>1, StateParts DEF CountDone, Goto, schedulerVars, queueVars
<1>8. CASE Unref(w)
  <2>1. \A t \in Tickets : (CallOf(t))' = CallOf(t)
    BY <1>8, Counting
  <2>2. \A v \in Workers : v # w => hand'[v] = hand[v]
    BY <1>8, StateParts DEF Unref
  <2> QED
    BY <1>0, <1>8, <2>1, <2>2, StateParts DEF Unref, Goto, schedulerVars, queueVars
<1>9. CASE ReleaseBatch(w)
  BY <1>0, <1>9, StateParts DEF ReleaseBatch, Goto, schedulerVars, workVars, CallOf
<1> QED
  BY <1>1, <1>2, <1>3, <1>4, <1>5, <1>6, <1>7, <1>8, <1>9 DEF Worker

(* What the scheduling thread does after a request leaves the work_t and   *)
(* the rings alone.                                                        *)
LEMMA SchedulerFrame ==
  ASSUME Destroy \/ Scheduler \/ Terminated
  PROVE  /\ calls' = calls /\ free' = free /\ work' = work /\ done' = done
         /\ ran' = ran /\ finished' = finished
         /\ ring' = ring /\ batch' = batch /\ hand' = hand
         /\ ~Post => boxes' = boxes
BY DEF Destroy, Scheduler, Terminated, Post, SetRaise, SetAlready, SetNotify, Join, AfterSet,
       vars, schedulerVars, queueVars, workVars

(* What worker w is owed: with every step more has been posted, or the     *)
(* same.                                                                   *)
LEMMA WorkerSends ==
  ASSUME TypeOK, NEW w \in Workers, NEW v \in Workers, Worker(w) \/ SpuriousWake(w)
  PROVE  /\ SentGrows(v)
         /\ (Due(v))' = Due(v) /\ (QuitSent(v))' = QuitSent(v)
<1>1. calls' = calls /\ spc' = spc /\ sj' = sj /\ ticket' = ticket
  BY WorkerFrame
<1>2. (Due(v))' = Due(v) /\ (QuitSent(v))' = QuitSent(v)
  BY <1>1 DEF Due, Posting, QuitSent, Quitting
<1>3. (Sent(v))' = Sent(v)
  BY <1>1, <1>2 DEF Sent
<1>4. Sent(v) \in Int
  <2>1. PICK n \in Nat : n = Len(calls)
    BY StateParts
  <2>2. Sent(v) = n + (IF Due(v) THEN -1 ELSE 0) + (IF QuitSent(v) THEN 1 ELSE 0)
    BY <2>1 DEF Sent
  <2> QED
    BY <2>2
<1> QED
  BY <1>1, <1>2, <1>3, <1>4 DEF SentGrows, DueLater

(* What a step of the scheduling thread adds to what was sent to worker v. *)
LEMMA SchedulerSends ==
  ASSUME TypeOK, Phases, NEW v \in Workers, Destroy \/ Scheduler \/ Terminated
  PROVE  /\ SentGrows(v)
         /\ Post /\ v = sj => Sent(v)' = Sent(v) + 1 /\ ~Due(v)' /\ (Quitting => QuitSent(v)')
         /\ ~(Post /\ v = sj) => (Due(v)' <=> Due(v))
<1>1. calls' = calls
  BY SchedulerFrame
<1>2. PICK n \in Nat : n = Len(calls)
  BY StateParts
<1>3. sj \in Nat /\ v \in Nat /\ sj < NumWorkers /\ v < NumWorkers
  BY StateParts, Sizes
<1>4. /\ Due(v)' => Due(v)
      /\ QuitSent(v) => QuitSent(v)'
      /\ QuitSent(v) => ~Due(v)
      /\ Due(v) /\ ~Due(v)' => Post /\ v = sj
      /\ QuitSent(v)' /\ ~QuitSent(v) => Post /\ v = sj
      /\ Post /\ v = sj => \/ Due(v) /\ ~Due(v)' /\ ~QuitSent(v) /\ ~QuitSent(v)' /\ ~Quitting
                           \/ ~Due(v) /\ ~Due(v)' /\ ~QuitSent(v) /\ QuitSent(v)' /\ Quitting
  <2>1. CASE Destroy
    BY <2>1, <1>3, Sizes DEF Destroy, Due, Posting, QuitSent, Quitting, Phases, Post
  <2>2. CASE Post
    <3>1. CASE Quitting
      BY <2>2, <3>1, <1>3 DEF Post, Due, Posting, QuitSent, Quitting
    <3>2. CASE ~Quitting
      BY <2>2, <3>2, <1>3 DEF Post, Due, Posting, QuitSent, Quitting, NextWorker, LastWorker
    <3> QED
      BY <3>1, <3>2
  <2>3. CASE SetRaise
    BY <2>3, <1>3 DEF SetRaise, Post, Due, Posting, QuitSent, Quitting
  <2>4. CASE SetAlready
    BY <2>4, <1>3, Sizes DEF SetAlready, AfterSet, NextWorker, LastWorker, Post, Due, Posting, QuitSent, Quitting
  <2>5. CASE SetNotify
    BY <2>5, <1>3, Sizes DEF SetNotify, AfterSet, NextWorker, LastWorker, Post, Due, Posting, QuitSent, Quitting
  <2>6. CASE Join
    BY <2>6, <1>3 DEF Join, NextWorker, LastWorker, Post, Due, Posting, QuitSent, Quitting
  <2>7. CASE Terminated
    BY <2>7 DEF Terminated, Post, Due, Posting, QuitSent, Quitting, vars, schedulerVars
  <2> QED
    BY <2>1, <2>2, <2>3, <2>4, <2>5, <2>6, <2>7 DEF Scheduler
<1>5. Sent(v) = n + (IF Due(v) THEN -1 ELSE 0) + (IF QuitSent(v) THEN 1 ELSE 0)
  BY <1>2 DEF Sent
<1>6. Sent(v)' = n + (IF Due(v)' THEN -1 ELSE 0) + (IF QuitSent(v)' THEN 1 ELSE 0)
  BY <1>1, <1>2 DEF Sent
<1>7. /\ Sent(v) \in Int /\ Sent(v)' \in Int /\ Sent(v) <= Sent(v)'
      /\ Post /\ v = sj => Sent(v)' = Sent(v) + 1
  <2>1. PICK a, b : a = Sent(v) /\ b = Sent(v)'
    OBVIOUS
  <2>2. a = n + (IF Due(v) THEN -1 ELSE 0) + (IF QuitSent(v) THEN 1 ELSE 0)
    BY <1>5, <2>1
  <2>3. b = n + (IF Due(v)' THEN -1 ELSE 0) + (IF QuitSent(v)' THEN 1 ELSE 0)
    BY <1>6, <2>1
  <2>4. a \in Int /\ b \in Int /\ a <= b
    BY <1>4, <2>2, <2>3
  <2>5. Post /\ v = sj => b = a + 1
    BY <1>4, <2>2, <2>3
  <2> QED
    BY <2>1, <2>4, <2>5
<1>8. /\ Post /\ v = sj => ~Due(v)' /\ (Quitting => QuitSent(v)')
      /\ ~(Post /\ v = sj) => (Due(v)' <=> Due(v))
  BY <1>4
<1> QED
  BY <1>1, <1>4, <1>7, <1>8 DEF SentGrows, DueLater


(* A request: a fresh work_t, which every worker is owed.                  *)
LEMMA ScheduleSends ==
  ASSUME FewCalls, TypeOK, Phases, FreeUnused, CallsDiffer, NEW req \in Requests, Schedule(req)
  PROVE  /\ CallsKept
         /\ \A v \in Workers : SentGrows(v) /\ Due(v)' /\ ~Due(v)
         /\ Len(calls') = Len(calls) + 1 /\ calls' = Append(calls, req)
         /\ ticket' \in Tickets /\ work[ticket'] = NoJob /\ CallOf(ticket') = 0
         /\ work'[ticket'] = [call |-> Len(calls) + 1, next |-> 0,
                              todo |-> NumRanges(req), ref |-> NumWorkers]
         /\ \A t \in Tickets : t # ticket' => work'[t] = work[t]
         /\ calls'[Len(calls) + 1] = req
         /\ \A c \in Made : calls'[c] = calls[c]
<1>1. PICK t \in Tickets :
        /\ ticket' = t /\ work[t] = NoJob
        /\ work' = [work EXCEPT ![t] = [call |-> Len(calls) + 1, next |-> 0,
                                        todo |-> NumRanges(req), ref |-> NumWorkers]]
  BY FreshWork
<1>2. PICK n \in Nat : n = Len(calls)
  BY StateParts
<1>3. calls \in Seq(Requests) /\ calls' = Append(calls, req)
  BY DEF TypeOK, Schedule
<1>4. Len(calls') = n + 1 /\ calls'[n + 1] = req /\ \A c \in Made : calls'[c] = calls[c]
  BY <1>2, <1>3 DEF Made
<1>5. work'[t] = [call |-> n + 1, next |-> 0, todo |-> NumRanges(req), ref |-> NumWorkers]
  BY <1>1, <1>2, StateParts
<1>6. \A u \in Tickets : u # t => work'[u] = work[u]
  BY <1>1, StateParts
<1>7. CallOf(t) = 0
  BY <1>1 DEF CallOf, NoJob
<1>8. CallsKept
  BY <1>6, <1>7 DEF CallsKept, CallOf
<1>9. ASSUME NEW v \in Workers
      PROVE  SentGrows(v) /\ Due(v)' /\ ~Due(v)
  <2>1. spc = "idle" /\ spc' = "post" /\ sj' = 0 /\ ticket = NoWork
    BY DEF Schedule, Phases
  <2>2. ~Due(v) /\ ~QuitSent(v)
    BY <2>1, Sizes DEF Due, Posting, QuitSent, Quitting
  <2>3. ~Quitting'
    BY <1>1, Sizes DEF Quitting
  <2>4. Due(v)' /\ ~QuitSent(v)'
    BY <2>1, <2>3, Sizes DEF Due, Posting, QuitSent
  <2>5. Sent(v) = n /\ Sent(v)' = n
    BY <1>2, <1>4, <2>2, <2>4 DEF Sent
  <2> QED
    BY <1>2, <1>4, <2>2, <2>4, <2>5 DEF SentGrows, DueLater
<1> QED
  BY <1>1, <1>2, <1>3, <1>4, <1>5, <1>6, <1>7, <1>8, <1>9

\* How many items add_multiple adds, and what it does.
Added(r, items) == IF Len(items) <= Room(r) THEN Len(items) ELSE Room(r)

(* add_multiple, field by field.                                           *)
LEMMA AddMultipleIs ==
  ASSUME NEW r, NEW items
  PROVE  AddMultiple(r, items) =
           [r EXCEPT !.slots = [i \in DOMAIN r.slots |->
                                  IF Ahead(r, r.writer, i) < Added(r, items)
                                    THEN items[Ahead(r, r.writer, i) + 1]
                                    ELSE r.slots[i]],
                     !.writer = Advance(r, r.writer, Added(r, items))]
BY DEF AddMultiple, Added

\* A ring of which the slots from v on are filled with the n items of m.
Filled(S, v, n, m) ==
  [slots    |-> [i \in 0..RingSize |-> IF v <= i /\ i < v + n THEN m[i - v + 1] ELSE S[i]],
   capacity |-> RingSize + 1,
   writer   |-> v + n,
   reader   |-> v]

(* An inspect: the whole mail fits into the ring, which is empty.          *)
LEMMA InspectRing ==
  ASSUME FewCalls, TypeOK, OwnBoxes, RingPlace, NEW w \in Workers, Inspect(w)
  PROVE  \E v, n \in Nat, m \in Seq(Entries), S \in [0..RingSize -> Tickets \cup {QuitWork, NoWork}] :
           /\ v = ring[w].writer /\ v = ring[w].reader /\ v = First(w)
           /\ m = Mail(w) /\ n = Len(m) /\ v + n <= RingSize /\ Length(w) = v + n
           /\ S = ring[w].slots
           /\ ring' = [ring EXCEPT ![w] = Filled(S, v, n, m)]
           /\ boxes' = [boxes EXCEPT ![w] = [p \in Workers |-> <<>>]]
           /\ n = 0 => wpc' = [wpc EXCEPT ![w] = "check"] /\ batch' = batch
           /\ n # 0 => /\ wpc' = [wpc EXCEPT ![w] = "fetch"]
                       /\ batch' = [batch EXCEPT ![w] = [begin |-> v, i |-> v, end |-> v + n]]
<1>1. wpc[w] = "inspect" /\ wpc[w] \in Outside
  BY DEF Inspect, Outside
<1>2. PICK v \in Nat, S \in [0..RingSize -> Tickets \cup {QuitWork, NoWork}] :
        v = ring[w].writer /\ S = ring[w].slots /\ v <= RingSize
  BY QueueParts
<1>3. ring[w].reader = v /\ First(w) = v
  BY <1>1, <1>2 DEF RingPlace, RingPlaced, First
<1>4. PICK m \in Seq(Entries) : m = Mail(w)
  BY MailIs
<1>5. PICK n \in Nat : n = Len(m)
  BY <1>4
<1>6. Length(w) = v + n /\ v + n <= RingSize
  BY <1>2, <1>4, <1>5, LineParts, NoWrap
<1>7. ring[w] = [slots |-> S, capacity |-> RingSize + 1, writer |-> v, reader |-> v]
  <2>1. ring[w] \in [slots    : [0..RingSize -> Tickets \cup {QuitWork, NoWork}],
                     capacity : {RingSize + 1},
                     writer   : 0..RingSize,
                     reader   : 0..RingSize]
    BY StateParts
  <2> QED
    BY <1>2, <1>3, <2>1
<1> DEFINE old == [slots |-> S, capacity |-> RingSize + 1, writer |-> v, reader |-> v]
           new == Filled(S, v, n, m)
<1>8. RingSize \in Nat
  BY Sizes
<1>9. AddMultiple(old, m) = new
  <2>1. Room(old) = RingSize
    BY <1>8 DEF Room, Ahead
  <2>2. Advance(old, v, n) = v + n
    BY <1>6, <1>8 DEF Advance
  <2>3. \A i \in 0..RingSize : /\ Ahead(old, v, i) < n <=> v <= i /\ i < v + n
                               /\ v <= i => Ahead(old, v, i) = i - v
    BY <1>2, <1>6, <1>8 DEF Ahead
  <2> DEFINE added == Added(old, m)
             slots == [i \in DOMAIN old.slots |-> IF Ahead(old, old.writer, i) < added
                                                    THEN m[Ahead(old, old.writer, i) + 1]
                                                    ELSE old.slots[i]]
  <2>4. AddMultiple(old, m) = [old EXCEPT !.slots = slots, !.writer = Advance(old, old.writer, added)]
    <3> HIDE DEF old
    <3> QED
      BY AddMultipleIs
  <2>5. added = n
    <3>1. n <= RingSize
      BY <1>6, <1>8
    <3> HIDE DEF old
    <3> QED
      BY <1>5, <2>1, <3>1 DEF Added
  <2>6. old.writer = v /\ old.slots = S
    OBVIOUS
  <2>7. slots = [i \in 0..RingSize |-> IF v <= i /\ i < v + n THEN m[i - v + 1] ELSE S[i]]
    <3>1. DOMAIN S = 0..RingSize
      OBVIOUS
    <3>2. \A i \in 0..RingSize :
            (IF Ahead(old, v, i) < n THEN m[Ahead(old, v, i) + 1] ELSE S[i])
              = IF v <= i /\ i < v + n THEN m[i - v + 1] ELSE S[i]
      BY <2>3
    <3> HIDE DEF old, added
    <3> QED
      BY <2>5, <2>6, <3>1, <3>2
  <2> HIDE DEF slots, added
  <2>8. AddMultiple(old, m) = [old EXCEPT !.slots = slots, !.writer = v + n]
    BY <2>2, <2>4, <2>5, <2>6
  <2>9. AddMultiple(old, m) = [slots |-> slots, capacity |-> RingSize + 1, writer |-> v + n, reader |-> v]
    BY <2>8
  <2> QED
    BY <2>7, <2>9 DEF Filled
<1>10. IsEmpty(ring[w])
  BY <1>7 DEF IsEmpty
<1>11. IsEmpty(new) <=> n = 0
  BY DEF IsEmpty, Filled
<1>12. ring' = [ring EXCEPT ![w] = new]
  BY <1>4, <1>7, <1>9, <1>10 DEF Inspect
<1>13. boxes' = [boxes EXCEPT ![w] = [p \in Workers |-> <<>>]]
  BY <1>10 DEF Inspect
<1>14. IF IsEmpty(new) THEN Goto(w, "check") /\ UNCHANGED batch
       ELSE /\ Goto(w, "fetch")
            /\ batch' = [batch EXCEPT ![w] = [begin |-> new.reader, i |-> new.reader, end |-> new.writer]]
  BY <1>4, <1>7, <1>9, <1>10 DEF Inspect
<1>15. new.reader = v /\ new.writer = v + n
  BY DEF Filled
<1>16. /\ n = 0 => wpc' = [wpc EXCEPT ![w] = "check"] /\ batch' = batch
       /\ n # 0 => /\ wpc' = [wpc EXCEPT ![w] = "fetch"]
                   /\ batch' = [batch EXCEPT ![w] = [begin |-> v, i |-> v, end |-> v + n]]
  BY <1>11, <1>14, <1>15 DEF Goto
<1> QED
  BY <1>2, <1>3, <1>4, <1>5, <1>6, <1>12, <1>13, <1>16


(* A line lasts as long as its parts.                                      *)
LEMMA SameLine ==
  ASSUME NEW w \in Workers, boxes'[w] = boxes[w],
         ring'[w].slots = ring[w].slots, ring'[w].writer = ring[w].writer
  PROVE  (Length(w))' = Length(w) /\ (Line(w))' = Line(w)
<1>1. (Mail(w))' = Mail(w)
  BY DEF Mail
<1>2. (Length(w))' = Length(w)
  BY <1>1 DEF Length
<1> QED
  BY <1>1, <1>2 DEF Line

(* An inspect moves the mail into the ring; the line is what it was.       *)
LEMMA InspectLine ==
  ASSUME FewCalls, TypeOK, OwnBoxes, RingPlace, NEW w \in Workers, Inspect(w)
  PROVE  /\ (First(w))' = First(w) /\ (Length(w))' = Length(w)
         /\ (Line(w))' = Line(w) /\ (InLine(w))' = InLine(w)
         /\ boxes'[w] = [p \in Workers |-> <<>>]
         /\ ring'[w].reader = First(w) /\ ring'[w].writer = Length(w)
         /\ wpc'[w] \in Outside => First(w) = Length(w)
         /\ wpc'[w] \notin Outside => batch'[w].end = Length(w)
         /\ wpc'[w] \in {"check", "fetch"}
<1>1. PICK v \in Nat, n \in Nat, m \in Seq(Entries),
           S \in [0..RingSize -> Tickets \cup {QuitWork, NoWork}] :
           /\ v = ring[w].writer /\ v = ring[w].reader /\ v = First(w)
           /\ m = Mail(w) /\ n = Len(m) /\ v + n <= RingSize /\ Length(w) = v + n
           /\ S = ring[w].slots
           /\ ring' = [ring EXCEPT ![w] = Filled(S, v, n, m)]
           /\ boxes' = [boxes EXCEPT ![w] = [p \in Workers |-> <<>>]]
           /\ n = 0 => wpc' = [wpc EXCEPT ![w] = "check"] /\ batch' = batch
           /\ n # 0 => /\ wpc' = [wpc EXCEPT ![w] = "fetch"]
                       /\ batch' = [batch EXCEPT ![w] = [begin |-> v, i |-> v, end |-> v + n]]
  BY InspectRing
<1>2. ring'[w] = Filled(S, v, n, m) /\ boxes'[w] = [p \in Workers |-> <<>>]
  BY <1>1, StateParts
<1>3. wpc \in [Workers -> {"inspect", "check", "block", "asleep", "reset", "fetch", "quit",
                           "claim", "execute", "count", "unref", "exited"}]
  BY Zenon DEF TypeOK
<1>4. /\ n = 0 => wpc'[w] = "check"
      /\ n # 0 => wpc'[w] = "fetch" /\ batch'[w].i = v /\ batch'[w].end = v + n
  <2>1. n = 0 => wpc'[w] = "check"
    BY <1>1, <1>3
  <2>2. n # 0 => wpc'[w] = "fetch"
    BY <1>1, <1>3
  <2>3. n # 0 => batch'[w] = [begin |-> v, i |-> v, end |-> v + n]
    <3>1. DOMAIN batch = Workers
      BY StateParts
    <3>2. n # 0 => batch' = [batch EXCEPT ![w] = [begin |-> v, i |-> v, end |-> v + n]]
      BY <1>1
    <3> QED
      BY <3>1, <3>2
  <2> QED
    BY <2>1, <2>2, <2>3
<1>5. /\ ring'[w].writer = v + n /\ ring'[w].reader = v
      /\ ring'[w].slots = [i \in 0..RingSize |-> IF v <= i /\ i < v + n THEN m[i - v + 1] ELSE S[i]]
  BY <1>2 DEF Filled
<1>6. (Mail(w))' = <<>>
  <2>1. PICK b \in [Workers -> Seq(Entries)] : b = [p \in Workers |-> <<>>]
    <3>1. <<>> \in Seq(Entries)
      OBVIOUS
    <3> QED
      BY <3>1
  <2>2. \A p \in Workers : b[p] = <<>>
    BY <2>1
  <2>3. MailOf(b) = <<>>
    <3>1. <<>> \o <<>> = <<>>
      OBVIOUS
    <3>2. MailOf(b) = IF w = 0 THEN b[0] ELSE b[0] \o b[w]
      BY <2>2, MailParts
    <3> QED
      BY <2>2, <3>1, <3>2, Sizes
  <2> QED
    BY <1>2, <2>1, <2>3 DEF Mail, MailOf
<1>7. (First(w))' = v
  BY <1>4, <1>5 DEF First, Outside
<1>8. (Length(w))' = v + n
  BY <1>5, <1>6 DEF Length
<1>9. (Line(w))' = Line(w)
  <2>1. Line(w) = [i \in 0..((v + n) - 1) |-> IF i < v THEN S[i] ELSE m[i - v + 1]]
    BY <1>1 DEF Line
  <2>2. PICK S2 : S2 = ring'[w].slots
    OBVIOUS
  <2>3. \A i \in 0..((v + n) - 1) : S2[i] = IF i < v THEN S[i] ELSE m[i - v + 1]
    <3>1. \A i \in 0..((v + n) - 1) : i \in 0..RingSize /\ (v <= i /\ i < v + n <=> ~(i < v))
      BY <1>1, Sizes
    <3> QED
      BY <1>5, <2>2, <3>1
  <2>4. (Line(w))' = [i \in 0..((v + n) - 1) |-> IF i < v + n THEN S2[i] ELSE (Mail(w))'[i - (v + n) + 1]]
    BY <1>5, <1>8, <2>2 DEF Line
  <2>5. \A i \in 0..((v + n) - 1) : i < v + n
    OBVIOUS
  <2>6. (Line(w))' = [i \in 0..((v + n) - 1) |-> S2[i]]
    BY <2>4, <2>5
  <2> QED
    BY <2>1, <2>3, <2>6
<1>10. (InLine(w))' = InLine(w)
  BY <1>1, <1>7, <1>8 DEF InLine
<1> QED
  BY <1>1, <1>2, <1>4, <1>5, <1>7, <1>8, <1>9, <1>10 DEF Outside


(* A fetch takes the head off the line.                                    *)
LEMMA FetchLine ==
  ASSUME TypeOK, OwnBoxes, RingPlace, NEW w \in Workers, LineRises(w), Fetch(w)
  PROVE  /\ First(w) \in InLine(w) /\ First(w) < ring[w].writer
         /\ (First(w))' = First(w) + 1 /\ First(w) + 1 <= RingSize
         /\ (Length(w))' = Length(w) /\ (Line(w))' = Line(w)
         /\ (InLine(w))' = InLine(w) \ {First(w)}
         /\ Line(w)[First(w)] = QuitWork => wpc'[w] = "quit" /\ hand'[w] = hand[w]
         /\ Line(w)[First(w)] # QuitWork =>
              /\ Line(w)[First(w)] \in Tickets
              /\ wpc'[w] = "claim" /\ hand'[w] = [ticket |-> Line(w)[First(w)], k |-> 0]
         /\ ring' = ring /\ boxes' = boxes /\ batch'[w].end = batch[w].end
         /\ batch' = [batch EXCEPT ![w].i = First(w) + 1]
<1>1. PICK f \in Nat, v \in Nat, n \in Nat :
        f = First(w) /\ v = ring[w].writer /\ n = Length(w) /\ v <= n /\ v <= RingSize
  BY LineParts, QueueParts
<1>2. wpc[w] = "fetch" /\ batch[w].i < batch[w].end
  BY DEF Fetch
<1>3. f = batch[w].i /\ v = batch[w].end
  BY <1>1, <1>2 DEF First, Outside, RingPlace, RingPlaced
<1>4. f < v
  BY <1>2, <1>3
<1>5. RingSize \in Nat /\ ring[w].capacity = RingSize + 1
  BY Sizes, QueueParts
<1>6. RingNext(ring[w], f) = f + 1 /\ f + 1 <= RingSize
  BY <1>1, <1>4, <1>5 DEF RingNext
<1>7. ring' = ring /\ boxes' = boxes
  BY DEF Fetch
<1>8. batch' = [batch EXCEPT ![w].i = f + 1]
  BY <1>3, <1>6 DEF Fetch
<1>9. batch'[w].i = f + 1 /\ batch'[w].end = batch[w].end
  <2>1. batch[w] \in [{"begin", "i", "end"} -> 0..RingSize] /\ DOMAIN batch = Workers
    BY StateParts
  <2>2. batch'[w] = [batch[w] EXCEPT !.i = f + 1]
    BY <1>8, <2>1
  <2> QED
    BY <2>1, <2>2
<1>10. wpc \in [Workers -> {"inspect", "check", "block", "asleep", "reset", "fetch", "quit",
                            "claim", "execute", "count", "unref", "exited"}]
       /\ DOMAIN hand = Workers
  BY StateParts DEF TypeOK
<1>11. InLine(w) = f..(n - 1)
  BY <1>1 DEF InLine
<1>12. PICK t : t = Line(w)[f]
  OBVIOUS
<1>13. t = ring[w].slots[f]
  BY <1>1, <1>4, <1>12, LineParts
<1>14. /\ t = QuitWork => wpc' = [wpc EXCEPT ![w] = "quit"] /\ hand' = hand
       /\ t # QuitWork => wpc' = [wpc EXCEPT ![w] = "claim"]
                          /\ hand' = [hand EXCEPT ![w] = [ticket |-> t, k |-> 0]]
  BY <1>3, <1>13 DEF Fetch, Goto
<1>15. /\ t = QuitWork => wpc'[w] = "quit" /\ hand'[w] = hand[w]
       /\ t # QuitWork => wpc'[w] = "claim" /\ hand'[w] = [ticket |-> t, k |-> 0]
  BY <1>10, <1>14
<1>16. (First(w))' = f + 1
  <2>1. wpc'[w] \notin Outside
    BY <1>15 DEF Outside
  <2> QED
    BY <1>9, <2>1 DEF First
<1>17. (Length(w))' = Length(w) /\ (Line(w))' = Line(w)
  BY <1>7, SameLine
<1>18. (InLine(w))' = (f + 1)..(n - 1)
  BY <1>1, <1>16, <1>17 DEF InLine
<1>19. (f + 1)..(n - 1) = (f..(n - 1)) \ {f} /\ f \in f..(n - 1)
  BY <1>1, <1>4
<1>20. t \in Entries
  BY <1>11, <1>12, <1>19 DEF LineRises
<1>21. t # QuitWork => t \in Tickets
  BY <1>20 DEF Entries
<1> QED
  BY <1>1, <1>4, <1>6, <1>7, <1>8, <1>9, <1>11, <1>12, <1>15, <1>16, <1>17, <1>18, <1>19, <1>21

(* A release takes off the line what is left of the batch, which is        *)
(* nothing unless the worker quits.                                        *)
LEMMA ReleaseLine ==
  ASSUME TypeOK, OwnBoxes, RingPlace, NEW w \in Workers, ReleaseBatch(w)
  PROVE  /\ (First(w))' = ring[w].writer
         /\ wpc[w] = "fetch" => First(w) = ring[w].writer /\ wpc'[w] = "inspect"
         /\ wpc[w] # "fetch" => wpc[w] = "quit" /\ wpc'[w] = "exited"
         /\ (Length(w))' = Length(w) /\ (Line(w))' = Line(w)
         /\ (InLine(w))' \subseteq InLine(w)
         /\ First(w) = ring[w].writer => (InLine(w))' = InLine(w)
         /\ ring'[w] = [ring[w] EXCEPT !.reader = ring[w].writer]
         /\ ring'[w].reader = ring[w].writer /\ ring'[w].writer = ring[w].writer
         /\ boxes' = boxes /\ hand' = hand
<1>1. PICK f \in Nat, v \in Nat, n \in Nat :
        f = First(w) /\ v = ring[w].writer /\ n = Length(w) /\ f <= v /\ v <= n
  BY LineParts DEF RingPlace, RingPlaced
<1>2. wpc[w] \in {"fetch", "quit"} /\ wpc[w] \notin Outside
  BY DEF ReleaseBatch, Outside
<1>3. f = batch[w].i /\ v = batch[w].end
  BY <1>1, <1>2 DEF First, RingPlace, RingPlaced
<1>4. wpc[w] = "fetch" => f = v
  BY <1>1, <1>3 DEF ReleaseBatch
<1>5. wpc \in [Workers -> {"inspect", "check", "block", "asleep", "reset", "fetch", "quit",
                           "claim", "execute", "count", "unref", "exited"}]
      /\ DOMAIN ring = Workers
  BY StateParts DEF TypeOK
<1>6. ring'[w] = [ring[w] EXCEPT !.reader = v] /\ boxes' = boxes /\ hand' = hand
  BY <1>3, <1>5 DEF ReleaseBatch, Release
<1>7. /\ wpc[w] = "fetch" => wpc'[w] = "inspect"
      /\ wpc[w] # "fetch" => wpc[w] = "quit" /\ wpc'[w] = "exited"
  BY <1>2, <1>5 DEF ReleaseBatch, Goto
<1>8. ring'[w].reader = v /\ ring'[w].writer = v /\ ring'[w].slots = ring[w].slots
  <2>1. ring[w] \in [slots    : [0..RingSize -> Tickets \cup {QuitWork, NoWork}],
                     capacity : {RingSize + 1},
                     writer   : 0..RingSize,
                     reader   : 0..RingSize]
    BY StateParts
  <2> QED
    BY <1>1, <1>6, <2>1
<1>9. (First(w))' = v
  <2>1. wpc'[w] \in Outside
    BY <1>7 DEF Outside
  <2> QED
    BY <1>8, <2>1 DEF First
<1>10. (Length(w))' = Length(w) /\ (Line(w))' = Line(w)
  BY <1>1, <1>6, <1>8, SameLine
<1>11. InLine(w) = f..(n - 1) /\ (InLine(w))' = v..(n - 1)
  BY <1>1, <1>9, <1>10 DEF InLine
<1>12. v..(n - 1) \subseteq f..(n - 1)
  BY <1>1
<1> QED
  BY <1>1, <1>4, <1>6, <1>7, <1>8, <1>9, <1>10, <1>11, <1>12


(* A post puts the ticket into the line: at its end, or, if it is the quit *)
(* of a worker other than 0, before the jobs that are still in its own     *)
(* queue.                                                                  *)
LEMMA PostLine ==
  ASSUME FewCalls, TypeOK, OwnBoxes, RingPlace, Phases, NEW w \in Workers, w = sj, Post,
         QuitPlace(w)
  PROVE  /\ \E q \in Nat :
              /\ First(w) <= q /\ q <= Length(w)
              /\ ticket \in Tickets \/ w = 0 => q = Length(w)
              /\ \A i \in 0..(q - 1) : (Line(w))'[i] = Line(w)[i]
              /\ (Line(w))'[q] = ticket
              /\ \A i \in (q + 1)..Length(w) : (Line(w))'[i] = Line(w)[i - 1]
         /\ (First(w))' = First(w) /\ (Length(w))' = Length(w) + 1
         /\ ticket \in Entries
         /\ boxes'[w] = [boxes[w] EXCEPT ![IF Quitting THEN 0 ELSE w] = Append(@, ticket)]
         /\ \A v \in Workers : v # w => boxes'[v] = boxes[v]
<1>1. spc = "post" /\ ticket \in Entries
  BY DEF Post, Phases, Entries
<1>2. ring' = ring /\ batch' = batch /\ wpc' = wpc
  BY DEF Post
<1>3. boxes \in [Workers -> [Workers -> Seq(Entries)]]
  BY StateParts
<1>4. PICK p \in Workers : p = IF Quitting THEN 0 ELSE w
  BY Sizes
<1>5. PICK b \in [Workers -> Seq(Entries)] : b = boxes[w]
  BY <1>3
<1>6. PICK t \in Entries : t = ticket
  BY <1>1
<1>7. PICK v \in Nat, m \in Seq(Entries), n \in Nat, f \in Nat :
        /\ v = ring[w].writer /\ m = Mail(w) /\ n = Len(m) /\ f = First(w)
        /\ Length(w) = v + n /\ f <= v
  <2>1. Mail(w) \in Seq(Entries)
    BY MailIs
  <2>2. First(w) <= ring[w].writer
    BY DEF RingPlace, RingPlaced
  <2> QED
    BY <2>1, <2>2, LineParts
<1>8. m = IF w = 0 THEN b[0] ELSE b[0] \o b[w]
  BY <1>5, <1>7, MailIs
<1>9. p # w => b[0] = <<>> /\ p = 0 /\ w # 0
  <2>1. p # w => Quitting /\ w # 0 /\ p = 0
    BY <1>4
  <2>2. ~QuitSent(w)
    <3>1. w \in Nat
      BY Sizes
    <3> QED
      BY <1>1, <3>1 DEF QuitSent
  <2> QED
    BY <1>5, <2>1, <2>2 DEF QuitPlace
<1>10. Len(b[p]) <= n
  <2>1. b[0] \in Seq(Entries) /\ b[w] \in Seq(Entries) /\ 0 \in Workers
    BY Sizes
  <2>2. CASE p = 0 /\ w = 0
    BY <1>7, <1>8, <2>2
  <2>3. CASE p # 0 \/ w # 0
    <3>1. w # 0
      BY <1>9, <2>3
    <3>2. m = b[0] \o b[w]
      BY <1>8, <3>1
    <3>3. Len(m) = Len(b[0]) + Len(b[w]) /\ Len(b[0]) \in Nat /\ Len(b[w]) \in Nat
      BY <2>1, <3>2
    <3>4. p = 0 \/ p = w
      BY <1>4
    <3> QED
      BY <1>7, <3>3, <3>4
  <2> QED
    BY <2>2, <2>3
<1>11. Len(b[p]) < MaxJobs
  <2>1. PICK c \in Nat : c = Len(calls) /\ c < MaxJobs
    BY StateParts DEF FewCalls
  <2>2. Length(w) <= Sent(w)
    BY DEF RingPlace, RingPlaced
  <2>3. Sent(w) <= c
    <3>1. w \in Nat
      BY Sizes
    <3>2. ~QuitSent(w)
      BY <1>1, <3>1 DEF QuitSent
    <3>3. Sent(w) = c + (IF Due(w) THEN -1 ELSE 0)
      BY <2>1, <3>2 DEF Sent
    <3> QED
      BY <3>3
  <2>4. PICK k \in Int : k = Sent(w)
    <3>1. Sent(w) \in Int
      BY NoWrap
    <3> QED
      BY <3>1
  <2>5. v + n <= k /\ k <= c
    BY <1>7, <2>2, <2>3, <2>4
  <2>6. Len(b[p]) \in Nat
    OBVIOUS
  <2> QED
    BY <1>10, <2>1, <2>5, <2>6
<1>12. boxes' = [boxes EXCEPT ![w][p] = Append(@, t)]
  <2>1. boxes' = [boxes EXCEPT ![sj][p] = IF Len(@) < MaxJobs THEN Append(@, ticket) ELSE @]
    BY <1>4 DEF Post
  <2>2. boxes[sj][p] = b[p]
    BY <1>5
  <2> QED
    BY <1>6, <1>11, <2>1, <2>2
<1>13. PICK c : c = [b EXCEPT ![p] = Append(@, t)]
  OBVIOUS
<1>14. boxes'[w] = c /\ \A u \in Workers : u # w => boxes'[u] = boxes[u]
  BY <1>3, <1>5, <1>12, <1>13
<1>15. /\ c \in [Workers -> Seq(Entries)]
       /\ c[p] = Append(b[p], t) /\ \A u \in Workers : u # p => c[u] = b[u]
  BY <1>13
<1>16. \A u \in Workers : u \notin {0, w} => c[u] = <<>>
  BY <1>4, <1>5, <1>15 DEF OwnBoxes, OwnBox
<1>17. PICK d \in Seq(Entries) : d = MailOf(c) /\ d = IF w = 0 THEN c[0] ELSE c[0] \o c[w]
  BY <1>15, <1>16, MailParts
<1>18. (Mail(w))' = d
  BY <1>14, <1>17 DEF Mail, MailOf
<1>19. \/ p = w /\ d = Append(m, t)
       \/ p # w /\ d = <<t>> \o m
  <2>1. b[0] \in Seq(Entries) /\ b[w] \in Seq(Entries) /\ 0 \in Workers
    BY Sizes
  <2>2. CASE p # w
    <3>1. c[0] = Append(b[0], t) /\ c[w] = b[w]
      BY <1>9, <1>15, <2>2
    <3>2. m = b[0] \o b[w] /\ d = c[0] \o c[w]
      BY <1>8, <1>9, <1>17, <2>2
    <3>3. Append(<<>>, t) = <<t>>
      OBVIOUS
    <3>4. \A x \in Seq(Entries) : <<>> \o x = x
      OBVIOUS
    <3> QED
      BY <1>9, <2>1, <2>2, <3>1, <3>2, <3>3, <3>4
  <2>3. CASE p = w /\ w = 0
    BY <1>8, <1>15, <1>17, <2>3
  <2>4. CASE p = w /\ w # 0
    <3>1. c[0] = b[0] /\ c[w] = Append(b[w], t)
      BY <1>15, <2>1, <2>4
    <3>2. m = b[0] \o b[w] /\ d = c[0] \o c[w]
      BY <1>8, <1>17, <2>4
    <3>3. \A x, y \in Seq(Entries) : x \o Append(y, t) = Append(x \o y, t)
      OBVIOUS
    <3> QED
      BY <2>1, <2>4, <3>1, <3>2, <3>3
  <2> QED
    BY <2>2, <2>3, <2>4
<1>20. Len(d) = n + 1
  BY <1>7, <1>19
<1>21. (First(w))' = f
  BY <1>2, <1>7 DEF First
<1>22. (Length(w))' = v + (n + 1)
  BY <1>2, <1>7, <1>18, <1>20 DEF Length
<1>23. PICK S : S = ring[w].slots
  OBVIOUS
<1>24. Line(w) = [i \in 0..((v + n) - 1) |-> IF i < v THEN S[i] ELSE m[i - v + 1]]
  BY <1>7, <1>23 DEF Line
<1>25. (Line(w))' = [i \in 0..(v + n) |-> IF i < v THEN S[i] ELSE d[i - v + 1]]
  <2>1. (Line(w))' = [i \in 0..((v + (n + 1)) - 1) |-> IF i < v THEN S[i] ELSE d[i - v + 1]]
    BY <1>2, <1>7, <1>18, <1>22, <1>23 DEF Line
  <2>2. (v + (n + 1)) - 1 = v + n
    OBVIOUS
  <2> QED
    BY <2>1, <2>2
<1>26. PICK L, M : L = Line(w) /\ M = (Line(w))'
  OBVIOUS
<1>27. \E q \in Nat :
         /\ f <= q /\ q <= v + n
         /\ p = w => q = v + n
         /\ \A i \in 0..(q - 1) : M[i] = L[i]
         /\ M[q] = t
         /\ \A i \in (q + 1)..(v + n) : M[i] = L[i - 1]
  <2>1. CASE p = w /\ d = Append(m, t)
    <3>1. \A j \in 1..n : d[j] = m[j]
      BY <1>7, <2>1
    <3>2. d[n + 1] = t
      BY <1>7, <2>1
    <3>3. \A i \in 0..((v + n) - 1) : M[i] = L[i]
      <4>1. \A i \in 0..((v + n) - 1) : i \in 0..(v + n) /\ (~(i < v) => i - v + 1 \in 1..n)
        OBVIOUS
      <4> QED
        BY <1>24, <1>25, <1>26, <3>1, <4>1
    <3>4. M[v + n] = t
      <4>1. v + n \in 0..(v + n) /\ ~(v + n < v) /\ (v + n) - v + 1 = n + 1
        OBVIOUS
      <4> QED
        BY <1>25, <1>26, <3>2, <4>1
    <3>5. (v + n + 1)..(v + n) = {}
      OBVIOUS
    <3>6. v + n \in Nat /\ f <= v + n
      BY <1>7
    <3>7. \A i \in (v + n + 1)..(v + n) : M[i] = L[i - 1]
      BY Zenon, <3>5
    <3>8. v + n <= v + n
      BY <3>6
    <3> QED
      BY Zenon, <3>3, <3>4, <3>6, <3>7, <3>8
  <2>2. CASE p # w /\ d = <<t>> \o m
    <3>1. \A j \in 1..n : d[j + 1] = m[j]
      BY <1>7, <2>2
    <3>2. d[1] = t
      BY <2>2
    <3>3. \A i \in 0..(v - 1) : M[i] = L[i]
      <4>1. \A i \in 0..(v - 1) : i \in 0..(v + n) /\ i \in 0..((v + n) - 1) /\ i < v
        OBVIOUS
      <4> QED
        BY <1>24, <1>25, <1>26, <4>1
    <3>4. M[v] = t
      <4>1. v \in 0..(v + n) /\ ~(v < v) /\ v - v + 1 = 1
        OBVIOUS
      <4> QED
        BY <1>25, <1>26, <3>2, <4>1
    <3>5. ASSUME NEW i \in (v + 1)..(v + n)
          PROVE  M[i] = L[i - 1]
      <4>1. i \in 0..(v + n) /\ ~(i < v) /\ i - 1 \in 0..((v + n) - 1) /\ ~(i - 1 < v)
        OBVIOUS
      <4>2. PICK j \in 1..n : j = i - v
        OBVIOUS
      <4>3. i - v + 1 = j + 1 /\ (i - 1) - v + 1 = j
        BY <4>2
      <4> QED
        BY <1>24, <1>25, <1>26, <3>1, <4>1, <4>3
    <3>6. f <= v /\ v <= v + n
      BY <1>7
    <3> QED
      BY <2>2, <3>3, <3>4, <3>5, <3>6
  <2> QED
    BY <1>19, <2>1, <2>2
<1>28. ticket \in Tickets \/ w = 0 => p = w
  BY <1>4, Sizes DEF Quitting
<1>29. boxes'[w] = [boxes[w] EXCEPT ![IF Quitting THEN 0 ELSE w] = Append(@, ticket)]
  BY <1>4, <1>5, <1>6, <1>13, <1>14
<1>30. v + (n + 1) = (v + n) + 1
  OBVIOUS
<1>31. PICK e \in Nat : e = v + n
  OBVIOUS
<1>32. \E q \in Nat :
         /\ First(w) <= q /\ q <= Length(w)
         /\ ticket \in Tickets \/ w = 0 => q = Length(w)
         /\ \A i \in 0..(q - 1) : (Line(w))'[i] = Line(w)[i]
         /\ (Line(w))'[q] = ticket
         /\ \A i \in (q + 1)..Length(w) : (Line(w))'[i] = Line(w)[i - 1]
  <2>1. e = Length(w) /\ f = First(w)
    BY <1>7, <1>31
  <2>2. PICK q \in Nat :
         /\ f <= q /\ q <= e
         /\ p = w => q = e
         /\ \A i \in 0..(q - 1) : M[i] = L[i]
         /\ M[q] = t
         /\ \A i \in (q + 1)..e : M[i] = L[i - 1]
    BY <1>27, <1>31
  <2>3. ticket \in Tickets \/ w = 0 => q = e
    BY <1>28, <2>2
  <2>4. /\ \A i \in 0..(q - 1) : (Line(w))'[i] = Line(w)[i]
        /\ (Line(w))'[q] = ticket
        /\ \A i \in (q + 1)..e : (Line(w))'[i] = Line(w)[i - 1]
    BY <1>6, <1>26, <2>2
  <2> QED
    BY <2>1, <2>2, <2>3, <2>4
<1> QED
  BY <1>1, <1>7, <1>14, <1>21, <1>22, <1>29, <1>30, <1>32


(* Which is a line again.                                                  *)
LEMMA PostKeeps ==
  ASSUME FewCalls, TypeOK, Phases, CallsDiffer, Lines, NEW w \in Workers, w = sj, Post
  PROVE  LineOf(w)'
<1>1. OwnBoxes /\ RingPlace /\ OwnBox(w) /\ RingPlaced(w) /\ LineRises(w) /\ QuitPlace(w)
  BY DEF Lines, OwnBoxes, RingPlace
<1>2. /\ calls' = calls /\ work' = work /\ ring' = ring /\ batch' = batch /\ hand' = hand
      /\ wpc' = wpc /\ ticket' = ticket
  BY DEF Post, workVars
<1>3. /\ SentGrows(w) /\ Sent(w)' = Sent(w) + 1 /\ ~Due(w)' /\ (Quitting => QuitSent(w)')
  BY SchedulerSends DEF Scheduler
<1>4. PICK q \in Nat, f \in Nat, e \in Nat :
        /\ f = First(w) /\ e = Length(w) /\ f <= q /\ q <= e
        /\ ticket \in Tickets \/ w = 0 => q = e
        /\ \A i \in 0..(q - 1) : (Line(w))'[i] = Line(w)[i]
        /\ (Line(w))'[q] = ticket
        /\ \A i \in (q + 1)..e : (Line(w))'[i] = Line(w)[i - 1]
        /\ (First(w))' = f /\ (Length(w))' = e + 1
  <2>1. First(w) \in Nat /\ Length(w) \in Nat
    BY <1>1, LineParts
  <2> QED
    BY <1>1, <2>1, PostLine
<1>5. ticket \in Entries /\ boxes'[w] = [boxes[w] EXCEPT ![IF Quitting THEN 0 ELSE w] = Append(@, ticket)]
  BY <1>1, PostLine
<1>6. PICK L, M : L = Line(w) /\ M = (Line(w))'
  OBVIOUS
<1>7. PICK I : I = InLine(w) /\ I = f..(e - 1)
  BY <1>4 DEF InLine
<1>8. PICK J : J = (InLine(w))' /\ J = f..e
  <2>1. (InLine(w))' = f..((e + 1) - 1)
    BY <1>4 DEF InLine
  <2> QED
    BY <2>1
<1> DEFINE from(i) == IF i < q THEN i ELSE i - 1
<1>9. ASSUME NEW i \in J, i # q
      PROVE  from(i) \in I /\ M[i] = L[from(i)]
  <2>1. CASE i < q
    <3>1. i \in 0..(q - 1) /\ i \in f..(e - 1)
      BY <1>4, <1>8, <2>1
    <3> QED
      BY <1>4, <1>6, <1>7, <2>1, <3>1
  <2>2. CASE ~(i < q)
    <3>1. i \in (q + 1)..e /\ i - 1 \in f..(e - 1)
      BY <1>4, <1>8, <1>9, <2>2
    <3> QED
      BY <1>4, <1>6, <1>7, <2>2, <3>1
  <2> QED
    BY <2>1, <2>2
<1>10. \A i, j \in J : i # q /\ j # q /\ i < j => from(i) < from(j)
  BY <1>4, <1>8
<1>11. \A i \in J : ticket \in Tickets => i = q \/ i < q
  BY <1>4, <1>8
<1> HIDE DEF from
<1>12. M[q] = ticket /\ q \in J
  BY <1>4, <1>6, <1>8
<1>13. PICK n \in Nat : n = Len(calls)
  BY StateParts
<1>14. \A t \in Tickets : (CallOf(t))' = CallOf(t) /\ CallOf(t) \in Nat
  BY <1>2, StateParts DEF CallOf
<1>15. ticket \in Tickets => /\ CallOf(ticket) = n /\ n # 0 /\ Due(w) /\ ~Quitting
  <2>1. ticket \in Tickets => CallOf(ticket) = n /\ n # 0
    BY <1>13 DEF Phases
  <2>2. ticket \in Tickets => ~Quitting
    BY Sizes DEF Quitting
  <2>3. w \in Nat
    BY Sizes
  <2> QED
    BY <2>1, <2>2, <2>3 DEF Due, Posting, Post
<1>16. \A t \in Tickets : Given(w, t) => Given(w, t)' /\ (ticket \in Tickets => CallOf(t) < CallOf(ticket))
  BY <1>3, <1>13, <1>14, <1>15 DEF Given
<1>0. PICK t \in Entries : t = ticket
  BY <1>5
<1>17. t \in Tickets => Given(w, t)'
  <2>1. t \in Tickets => CallOf(t) # 0
    BY <1>0, <1>15
  <2> QED
    BY <1>3, <1>14, <2>1 DEF Given
<1>18. /\ \A i \in I : L[i] \in Entries
       /\ \A i \in I : L[i] \in Tickets => Given(w, L[i])
       /\ \A i, j \in I : i < j /\ L[i] \in Tickets /\ L[j] \in Tickets => CallOf(L[i]) < CallOf(L[j])
       /\ hand[w].ticket \in Tickets =>
            /\ Given(w, hand[w].ticket)
            /\ \A i \in I : L[i] \in Tickets => CallOf(hand[w].ticket) < CallOf(L[i])
  BY <1>1, <1>6, <1>7 DEF LineRises
<1>19. LineRises(w)'
  <2>1. \A i \in J : M[i] \in Entries
    BY <1>5, <1>9, <1>12, <1>18
  <2>2. \A i \in J : M[i] \in Tickets => Given(w, M[i])'
    BY <1>0, <1>9, <1>12, <1>16, <1>17, <1>18
  <2>3. ASSUME NEW i \in J, NEW j \in J, i < j, M[i] \in Tickets, M[j] \in Tickets
        PROVE  (CallOf(M[i]))' < (CallOf(M[j]))'
    <3>1. CASE i # q /\ j # q
      BY <1>9, <1>10, <1>14, <1>18, <2>3, <3>1
    <3>2. CASE i # q /\ j = q
      BY <1>9, <1>12, <1>14, <1>16, <1>18, <2>3, <3>2
    <3>3. i # q
      <4>1. i = q => ticket \in Tickets
        BY <1>12, <2>3
      <4>2. i \in Int /\ j \in Int
        BY <1>8
      <4> QED
        BY <1>11, <2>3, <4>1, <4>2
    <3> QED
      BY <3>1, <3>2, <3>3
  <2>4. PICK h : h = hand[w].ticket /\ h = hand'[w].ticket
    BY <1>2
  <2>5. ASSUME h \in Tickets
        PROVE  Given(w, h)' /\ \A i \in J : M[i] \in Tickets => (CallOf(h))' < (CallOf(M[i]))'
    <3>1. Given(w, h) /\ \A i \in I : L[i] \in Tickets => CallOf(h) < CallOf(L[i])
      BY <1>18, <2>4, <2>5
    <3>2. \A i \in J : M[i] \in Tickets => CallOf(h) < CallOf(M[i])
      BY <1>9, <1>12, <1>16, <2>5, <3>1
    <3> QED
      BY <1>14, <1>16, <2>5, <3>1, <3>2
  <2> QED
    BY <1>6, <1>8, <2>1, <2>2, <2>3, <2>4, <2>5 DEF LineRises
<1>20. QuitPlace(w)'
  <2>1. ~QuitSent(w)
    <3>1. w \in Nat
      BY Sizes
    <3> QED
      BY <3>1 DEF Post, QuitSent
  <2>2. wpc[w] \notin {"quit", "exited"}
    BY <1>1, <2>1 DEF QuitPlace
  <2>3. \A i \in I : L[i] # QuitWork
    BY <1>1, <1>6, <1>7, <2>1 DEF QuitPlace
  <2>4. \A i \in J : M[i] = QuitWork => i = q /\ Quitting
    BY <1>9, <1>12, <2>3 DEF Quitting
  <2>5. w # 0 /\ ~QuitSent(w)' => boxes'[w][0] = <<>>
    <3>1. w # 0 /\ ~QuitSent(w)' => ~Quitting /\ boxes[w][0] = <<>>
      BY <1>1, <1>3, <2>1 DEF QuitPlace
    <3>2. ~Quitting /\ w # 0 => boxes'[w][0] = boxes[w][0]
      BY <1>5, StateParts, Sizes
    <3> QED
      BY <3>1, <3>2
  <2>6. w = 0 => \A i \in J : M[i] = QuitWork => i = (Length(w))' - 1
    <3>1. w = 0 => q = (Length(w))' - 1
      BY <1>4
    <3> QED
      BY <2>4, <3>1
  <2>7. wpc'[w] \notin {"quit", "exited"}
    BY <1>2, <2>2
  <2>8. \A i \in J : M[i] = QuitWork => QuitSent(w)'
    BY <1>3, <2>4
  <2> QED
    BY <1>6, <1>8, <2>5, <2>6, <2>7, <2>8 DEF QuitPlace
<1>21. OwnBox(w)'
  <2>1. boxes[w] \in [Workers -> Seq(Entries)]
    BY StateParts
  <2>2. PICK c : c = boxes'[w]
    OBVIOUS
  <2>3. \A p \in Workers : p \notin {0, w} => c[p] = boxes[w][p]
    BY <1>5, <2>1, <2>2
  <2> QED
    BY <1>1, <2>2, <2>3 DEF OwnBox
<1>22. RingPlaced(w)'
  <2>1. PICK k \in Int : k = Sent(w) /\ e <= k /\ Sent(w)' = k + 1
    BY <1>1, <1>3, <1>4 DEF RingPlaced, SentGrows
  <2>2. /\ ring[w].reader <= f /\ f <= ring[w].writer
        /\ wpc[w] \in Outside => ring[w].reader = ring[w].writer
        /\ wpc[w] \notin Outside => batch[w].end = ring[w].writer
    BY <1>1, <1>4 DEF RingPlaced
  <2>3. e + 1 <= k + 1
    BY <2>1
  <2> QED
    BY <1>2, <1>4, <2>1, <2>2, <2>3 DEF RingPlaced
<1> QED
  BY <1>19, <1>20, <1>21, <1>22 DEF LineOf


(* A worker's own steps keep its line in order.                            *)
LEMMA WorkerKeeps ==
  ASSUME FewCalls, TypeOK, CallsDiffer, Lines, NEW w \in Workers, Worker(w) \/ SpuriousWake(w)
  PROVE  LineOf(w)'
<1>1. OwnBoxes /\ RingPlace /\ LineOf(w)
      /\ OwnBox(w) /\ RingPlaced(w) /\ LineRises(w) /\ QuitPlace(w)
  BY DEF Lines, OwnBoxes, RingPlace, LineOf
<1>2. SentGrows(w) /\ (Due(w))' = Due(w) /\ (QuitSent(w))' = QuitSent(w)
  BY WorkerSends
<1>3. CallsKept
  BY WorkerFrame DEF CallsKept
<1>4. wpc \in [Workers -> {"inspect", "check", "block", "asleep", "reset", "fetch", "quit",
                           "claim", "execute", "count", "unref", "exited"}]
  BY Zenon DEF TypeOK
<1>5. DueLater(w) /\ (QuitSent(w) => QuitSent(w)') /\ Sent(w) <= Sent(w)'
  BY <1>2 DEF SentGrows
<1>6. PICK k \in Int, l \in Int, n \in Nat : k = Sent(w) /\ l = Sent(w)' /\ n = Length(w) /\ n <= k /\ k <= l
  <2>1. Length(w) \in Nat
    BY <1>1, LineParts
  <2> QED
    BY <1>1, <1>2, <2>1 DEF SentGrows, RingPlaced
<1>7. CASE Inspect(w)
  <2>1. /\ (First(w))' = First(w) /\ (Length(w))' = Length(w)
        /\ (Line(w))' = Line(w) /\ (InLine(w))' = InLine(w)
        /\ boxes'[w] = [p \in Workers |-> <<>>]
        /\ ring'[w].reader = First(w) /\ ring'[w].writer = Length(w)
        /\ wpc'[w] \in Outside => First(w) = Length(w)
        /\ wpc'[w] \notin Outside => batch'[w].end = Length(w)
        /\ wpc'[w] \in {"check", "fetch"}
    BY <1>1, <1>7, InspectLine
  <2>2. hand' = hand /\ wpc[w] = "inspect"
    BY <1>7 DEF Inspect
  <2>3. PICK f \in Nat : f = First(w) /\ f <= n
    <3>1. PICK f \in Nat, v \in Nat : f = First(w) /\ v = ring[w].writer /\ f <= v /\ v <= n
      BY <1>1, <1>6, LineParts DEF RingPlaced
    <3> QED
      BY <3>1
  <2>4. RingPlaced(w)'
    <3>1. f <= f /\ n <= l
      BY <1>6, <2>3
    <3> QED
      BY <1>6, <2>1, <2>3, <3>1 DEF RingPlaced
  <2>5. LineRises(w)'
    <3>1. \A i \in InLine(w)' : i \in InLine(w) /\ Line(w)'[i] = Line(w)[i]
      BY <2>1
    <3> QED
      BY <1>1, <1>3, <1>5, <2>2, <3>1, ShorterLine
  <2>6. QuitPlace(w)'
    <3>1. \A p \in Workers : boxes'[w][p] = <<>>
      BY <2>1
    <3>2. wpc'[w] \notin {"quit", "exited"}
      BY <2>1
    <3> QED
      BY <1>1, <1>2, <2>1, <3>1, <3>2, Sizes DEF QuitPlace
  <2>7. OwnBox(w)'
    BY <2>1 DEF OwnBox
  <2> QED
    BY <2>4, <2>5, <2>6, <2>7 DEF LineOf
<1>8. CASE Fetch(w)
  <2>1. /\ First(w) \in InLine(w) /\ First(w) < ring[w].writer
        /\ (First(w))' = First(w) + 1
        /\ (Length(w))' = Length(w) /\ (Line(w))' = Line(w)
        /\ (InLine(w))' = InLine(w) \ {First(w)}
        /\ Line(w)[First(w)] = QuitWork => wpc'[w] = "quit" /\ hand'[w] = hand[w]
        /\ Line(w)[First(w)] # QuitWork =>
             /\ Line(w)[First(w)] \in Tickets
             /\ wpc'[w] = "claim" /\ hand'[w] = [ticket |-> Line(w)[First(w)], k |-> 0]
        /\ ring' = ring /\ boxes' = boxes /\ batch'[w].end = batch[w].end
    BY <1>1, <1>8, FetchLine
  <2>2. PICK f \in Nat, v \in Nat, rd \in Nat :
          f = First(w) /\ v = ring[w].writer /\ rd = ring[w].reader /\ rd <= f /\ f < v
    BY <1>1, <2>1, QueueParts, LineParts DEF RingPlaced
  <2>3. wpc[w] = "fetch" /\ wpc[w] \notin Outside /\ wpc'[w] \in {"quit", "claim"} /\ wpc'[w] \notin Outside
    BY <1>8, <2>1 DEF Fetch, Outside
  <2>4. RingPlaced(w)'
    <3>1. rd <= f + 1 /\ f + 1 <= v /\ n <= l
      BY <1>6, <2>2
    <3>2. batch[w].end = v
      BY <1>1, <2>2, <2>3 DEF RingPlaced
    <3> QED
      BY <1>6, <2>1, <2>2, <2>3, <3>1, <3>2 DEF RingPlaced
  <2>5. LineRises(w)'
    <3>1. \A i \in InLine(w)' : i \in InLine(w) /\ Line(w)'[i] = Line(w)[i]
      BY <2>1
    <3>2. \A i \in InLine(w)' : First(w) < i
      <4>1. InLine(w) = f..(n - 1)
        BY <1>6, <2>2 DEF InLine
      <4>2. \A i \in (f..(n - 1)) \ {f} : f < i
        OBVIOUS
      <4> QED
        BY <2>1, <2>2, <4>1, <4>2
    <3>3. hand'[w].ticket = hand[w].ticket \/ hand'[w].ticket = Line(w)[First(w)]
      BY <2>1
    <3> QED
      BY <1>1, <1>3, <1>5, <2>1, <3>1, <3>2, <3>3, ShorterLine
  <2>6. QuitPlace(w)'
    <3>1. wpc'[w] \in {"quit", "exited"} => Line(w)[First(w)] = QuitWork
      BY <2>1, <2>3
    <3>2. Line(w)[First(w)] = QuitWork => QuitSent(w) /\ (w = 0 => First(w) = Length(w) - 1)
      BY <1>1, <2>1 DEF QuitPlace
    <3>3. Line(w)[First(w)] = QuitWork /\ w = 0 => f = n - 1
      BY <1>6, <2>2, <3>2
    <3>4. Line(w)[First(w)] = QuitWork /\ w = 0 => (First(w))' = (Length(w))'
      BY <1>6, <2>1, <2>2, <3>3
    <3> QED
      BY <1>1, <1>2, <2>1, <3>1, <3>2, <3>4 DEF QuitPlace
  <2>7. OwnBox(w)'
    BY <1>1, <2>1 DEF OwnBox
  <2> QED
    BY <2>4, <2>5, <2>6, <2>7 DEF LineOf
<1>9. CASE ReleaseBatch(w)
  <2>1. /\ (First(w))' = ring[w].writer
        /\ wpc[w] = "fetch" => First(w) = ring[w].writer /\ wpc'[w] = "inspect"
        /\ wpc[w] # "fetch" => wpc[w] = "quit" /\ wpc'[w] = "exited"
        /\ (Length(w))' = Length(w) /\ (Line(w))' = Line(w)
        /\ (InLine(w))' \subseteq InLine(w)
        /\ ring'[w].reader = ring[w].writer /\ ring'[w].writer = ring[w].writer
        /\ boxes' = boxes /\ hand' = hand
    BY <1>1, <1>9, ReleaseLine
  <2>2. wpc'[w] \in Outside
    BY <2>1 DEF Outside
  <2>3. PICK v \in Nat : v = ring[w].writer
    BY QueueParts
  <2>4. RingPlaced(w)'
    <3>1. v <= v /\ n <= l
      BY <1>6
    <3> QED
      BY <1>6, <2>1, <2>2, <2>3, <3>1 DEF RingPlaced
  <2>5. LineRises(w)'
    <3>1. \A i \in InLine(w)' : i \in InLine(w) /\ Line(w)'[i] = Line(w)[i]
      BY <2>1
    <3> QED
      BY <1>1, <1>3, <1>5, <2>1, <3>1, ShorterLine
  <2>6. QuitPlace(w)'
    <3>1. wpc'[w] \in {"quit", "exited"} => wpc[w] = "quit" /\ QuitSent(w)
      BY <1>1, <2>1 DEF QuitPlace
    <3>2. w = 0 /\ wpc[w] = "quit" => (First(w))' = (Length(w))'
      <4>1. w = 0 /\ wpc[w] = "quit" => First(w) = Length(w)
        BY <1>1 DEF QuitPlace
      <4>2. PICK f \in Nat : f = First(w) /\ f <= v /\ v <= n
        BY <1>1, <1>6, <2>3, LineParts DEF RingPlaced
      <4>3. w = 0 /\ wpc[w] = "quit" => v = n
        BY <1>6, <4>1, <4>2
      <4> QED
        BY <1>6, <2>1, <2>3, <4>3
    <3> QED
      BY <1>1, <1>2, <2>1, <3>1, <3>2 DEF QuitPlace
  <2>7. OwnBox(w)'
    BY <1>1, <2>1 DEF OwnBox
  <2> QED
    BY <2>4, <2>5, <2>6, <2>7 DEF LineOf
<1>10. CASE \/ WaitCheck(w) \/ WaitBlock(w) \/ SpuriousWake(w) \/ WaitReset(w)
            \/ Claim(w) \/ Execute(w) \/ CountDone(w) \/ Unref(w)
  <2>1. boxes' = boxes /\ ring' = ring /\ batch' = batch
    BY <1>10 DEF WaitCheck, WaitBlock, SpuriousWake, WaitReset, Claim, Execute, CountDone, Unref, queueVars
  <2>2. /\ wpc'[w] \in Outside <=> wpc[w] \in Outside
        /\ wpc'[w] \notin {"quit", "exited"}
    <3>1. CASE WaitCheck(w) \/ WaitBlock(w) \/ SpuriousWake(w) \/ WaitReset(w)
      BY <1>4, <3>1 DEF WaitCheck, WaitBlock, SpuriousWake, WaitReset, Goto, Outside
    <3>2. CASE Claim(w) \/ Execute(w) \/ CountDone(w) \/ Unref(w)
      BY <1>4, <3>2 DEF Claim, Execute, CountDone, Unref, AfterUnref, Goto, Outside
    <3> QED
      BY <1>10, <3>1, <3>2
  <2>3. hand'[w].ticket \in Tickets => hand'[w].ticket = hand[w].ticket
    <3>1. CASE WaitCheck(w) \/ WaitBlock(w) \/ SpuriousWake(w) \/ WaitReset(w) \/ Execute(w) \/ CountDone(w)
      BY <3>1 DEF WaitCheck, WaitBlock, SpuriousWake, WaitReset, Execute, CountDone
    <3>2. CASE Claim(w)
      <4>1. hand[w] \in [ticket : Tickets \cup {NoWork}, k : Nat] /\ DOMAIN hand = Workers
        BY StateParts
      <4>2. hand'[w] = [hand[w] EXCEPT !.k = Job(w).next]
        BY <3>2, <4>1 DEF Claim
      <4> QED
        BY <4>1, <4>2
    <3>3. CASE Unref(w)
      <4>1. hand'[w] = NoHand
        BY <3>3, StateParts DEF Unref, AfterUnref
      <4> QED
        BY <4>1, Sizes DEF NoHand
    <3> QED
      BY <1>10, <3>1, <3>2, <3>3
  <2> QED
    BY <1>1, <1>2, <1>3, <2>1, <2>2, <2>3, LineStays
<1> QED
  BY <1>7, <1>8, <1>9, <1>10 DEF Worker


(* Every step keeps every line in order.                                   *)
LEMMA CallsStay ==
  ASSUME FewCalls, TypeOK, Phases, FreeUnused, CallsDiffer, [Next]_vars
  PROVE  CallsKept
<1>1. CASE \E req \in Requests : Schedule(req)
  BY <1>1, ScheduleSends
<1>2. CASE Destroy \/ Scheduler \/ Terminated
  BY <1>2, SchedulerFrame DEF CallsKept, CallOf
<1>3. CASE \E w \in Workers : Worker(w) \/ SpuriousWake(w)
  BY <1>3, WorkerFrame DEF CallsKept
<1>4. CASE UNCHANGED vars
  BY <1>4 DEF vars, workVars, CallsKept, CallOf
<1> QED
  BY <1>1, <1>2, <1>3, <1>4 DEF Next

(* Every step keeps the lines of all workers.                              *)
LEMMA LinesStep ==
  ASSUME FewCalls, TypeOK, Phases, FreeUnused, CallsDiffer, Lines, [Next]_vars
  PROVE  Lines'
<1>1. OwnBoxes /\ RingPlace /\ \A v \in Workers : LineOf(v)
  BY DEF Lines, OwnBoxes, RingPlace, LineOf
<1>2. CallsKept
  BY CallsStay
<1>3. wpc \in [Workers -> {"inspect", "check", "block", "asleep", "reset", "fetch", "quit",
                           "claim", "execute", "count", "unref", "exited"}]
  BY Zenon DEF TypeOK
<1>4. SUFFICES ASSUME NEW v \in Workers
               PROVE  LineOf(v)'
  BY DEF Lines, OwnBoxes, RingPlace, LineOf
<1>5. ASSUME NEW req \in Requests, Schedule(req)
      PROVE  LineOf(v)'
  <2>1. SentGrows(v)
    BY <1>5, ScheduleSends
  <2>2. boxes' = boxes /\ ring' = ring /\ batch' = batch /\ wpc' = wpc /\ hand' = hand
    BY <1>5 DEF Schedule, queueVars
  <2> QED
    BY <1>1, <1>2, <2>1, <2>2, LineStays
<1>6. CASE (Destroy \/ Scheduler \/ Terminated) /\ ~(Post /\ v = sj)
  <2>1. SentGrows(v)
    BY <1>6, SchedulerSends
  <2>2. ring' = ring /\ batch' = batch /\ hand' = hand
    BY <1>6, SchedulerFrame
  <2>3. boxes'[v] = boxes[v]
    <3>1. CASE Post
      <4>1. QuitPlace(sj) /\ sj \in Workers
        BY StateParts DEF Lines
      <4>2. PICK u \in Workers : u = sj
        BY <4>1
      <4>3. \A x \in Workers : x # u => boxes'[x] = boxes[x]
        BY <1>1, <3>1, <4>1, <4>2, PostLine
      <4> QED
        BY <1>6, <3>1, <4>2, <4>3
    <3> QED
      BY <1>6, <3>1, SchedulerFrame
  <2>4. /\ wpc'[v] \in Outside <=> wpc[v] \in Outside
        /\ wpc'[v] \in {"quit", "exited"} => wpc[v] \in {"quit", "exited"}
    <3>1. CASE SetNotify
      BY <1>3, <3>1 DEF SetNotify, Outside
    <3>2. CASE ~SetNotify
      <4>1. wpc' = wpc
        BY <1>6, <3>2 DEF Destroy, Scheduler, Terminated, Post, SetRaise, SetAlready, Join, vars
      <4> QED
        BY <4>1
    <3> QED
      BY <3>1, <3>2
  <2> QED
    BY <1>1, <1>2, <2>1, <2>2, <2>3, <2>4, LineStays
<1>7. CASE Post /\ v = sj
  BY <1>7, PostKeeps
<1>8. ASSUME NEW w \in Workers, Worker(w) \/ SpuriousWake(w)
      PROVE  LineOf(v)'
  <2>1. CASE v = w
    BY <1>8, <2>1, WorkerKeeps
  <2>2. CASE v # w
    <3>1. SentGrows(v)
      BY <1>8, WorkerSends
    <3>2. /\ boxes'[v] = boxes[v] /\ ring'[v] = ring[v] /\ batch'[v] = batch[v]
          /\ wpc'[v] = wpc[v] /\ hand'[v] = hand[v]
      BY <1>8, <2>2, WorkerFrame
    <3> QED
      BY <1>1, <1>2, <3>1, <3>2, LineStays
  <2> QED
    BY <2>1, <2>2
<1>9. CASE UNCHANGED vars
  <2>1. /\ boxes' = boxes /\ ring' = ring /\ batch' = batch /\ wpc' = wpc /\ hand' = hand
        /\ calls' = calls /\ spc' = spc /\ sj' = sj /\ ticket' = ticket
    BY <1>9 DEF vars, queueVars, schedulerVars
  <2>2. (Due(v))' = Due(v) /\ (QuitSent(v))' = QuitSent(v)
    BY <2>1 DEF Due, Posting, QuitSent, Quitting
  <2>3. (Sent(v))' = Sent(v)
    BY <2>1, <2>2 DEF Sent
  <2>4. Sent(v) \in Int
    BY <1>1, NoWrap
  <2>5. SentGrows(v)
    BY <2>1, <2>2, <2>3, <2>4 DEF SentGrows, DueLater
  <2> QED
    BY <1>1, <1>2, <2>1, <2>5, LineStays
<1> QED
  BY <1>5, <1>6, <1>7, <1>8, <1>9 DEF Next, Scheduler

------------------------------------------------------------------------------
(* The types, and the histories of the calls.                              *)

Locations == {"inspect", "check", "block", "asleep", "reset", "fetch", "quit",
              "claim", "execute", "count", "unref", "exited"}

(* Which steps change which variable.                                      *)
LEMMA Touched ==
  ASSUME [Next]_vars
  PROVE  /\ (calls' = calls /\ free' = free) \/ \E req \in Requests : Schedule(req)
         /\ \/ spc' = spc /\ sj' = sj /\ ticket' = ticket
            \/ (\E req \in Requests : Schedule(req)) \/ Destroy \/ Scheduler
         /\ done' = done \/ \E w \in Workers : Unref(w)
         /\ \/ work' = work
            \/ \E req \in Requests : Schedule(req)
            \/ \E w \in Workers : Claim(w) \/ CountDone(w) \/ Unref(w)
         /\ boxes' = boxes \/ Post \/ \E w \in Workers : Inspect(w)
         /\ ring' = ring \/ \E w \in Workers : Inspect(w) \/ ReleaseBatch(w)
         /\ sig' = sig \/ SetRaise \/ \E w \in Workers : WaitReset(w)
         /\ wpc' = wpc \/ SetNotify \/ \E w \in Workers : Worker(w) \/ SpuriousWake(w)
         /\ batch' = batch \/ \E w \in Workers : Inspect(w) \/ Fetch(w) \/ ReleaseBatch(w)
         /\ hand' = hand \/ \E w \in Workers : Fetch(w) \/ Claim(w) \/ Unref(w)
         /\ \/ ran' = ran
            \/ \E req \in Requests : Schedule(req)
            \/ \E w \in Workers : Execute(w)
         /\ finished' = finished \/ \E w \in Workers : CountDone(w)
<1>1. CASE \E req \in Requests : Schedule(req)
  BY <1>1 DEF Schedule, queueVars
<1>2. CASE Destroy
  BY <1>2 DEF Destroy, queueVars, workVars
<1>3. CASE Scheduler
  <2>1. CASE Post
    BY <2>1, <1>3 DEF Post, workVars
  <2>2. CASE SetRaise
    BY <2>2, <1>3 DEF SetRaise, queueVars, workVars
  <2>3. CASE SetAlready
    BY <2>3, <1>3 DEF SetAlready, queueVars, workVars
  <2>4. CASE SetNotify
    BY <2>4, <1>3 DEF SetNotify, queueVars, workVars
  <2>5. CASE Join
    BY <2>5, <1>3 DEF Join, queueVars, workVars
  <2> QED
    BY <1>3, <2>1, <2>2, <2>3, <2>4, <2>5 DEF Scheduler
<1>4. CASE Terminated \/ UNCHANGED vars
  BY <1>4 DEF Terminated, vars, schedulerVars, queueVars, workVars
<1>5. ASSUME NEW w \in Workers, Worker(w) \/ SpuriousWake(w)
      PROVE  /\ calls' = calls /\ free' = free /\ spc' = spc /\ sj' = sj /\ ticket' = ticket
             /\ done' = done \/ Unref(w)
             /\ work' = work \/ Claim(w) \/ CountDone(w) \/ Unref(w)
             /\ boxes' = boxes \/ Inspect(w)
             /\ ring' = ring \/ Inspect(w) \/ ReleaseBatch(w)
             /\ sig' = sig \/ WaitReset(w)
             /\ batch' = batch \/ Inspect(w) \/ Fetch(w) \/ ReleaseBatch(w)
             /\ hand' = hand \/ Fetch(w) \/ Claim(w) \/ Unref(w)
             /\ ran' = ran \/ Execute(w)
             /\ finished' = finished \/ CountDone(w)
  <2>1. CASE Inspect(w)
    BY <2>1 DEF Inspect, schedulerVars, workVars
  <2>2. CASE WaitCheck(w) \/ WaitBlock(w) \/ SpuriousWake(w)
    BY <2>2 DEF WaitCheck, WaitBlock, SpuriousWake, schedulerVars, queueVars, workVars
  <2>3. CASE WaitReset(w)
    BY <2>3 DEF WaitReset, schedulerVars, queueVars, workVars
  <2>4. CASE Fetch(w)
    BY <2>4 DEF Fetch, schedulerVars, workVars
  <2>5. CASE Claim(w)
    BY <2>5 DEF Claim, schedulerVars, queueVars
  <2>6. CASE Execute(w)
    BY <2>6 DEF Execute, schedulerVars, queueVars
  <2>7. CASE CountDone(w)
    BY <2>7 DEF CountDone, schedulerVars, queueVars
  <2>8. CASE Unref(w)
    BY <2>8 DEF Unref, schedulerVars, queueVars
  <2>9. CASE ReleaseBatch(w)
    BY <2>9 DEF ReleaseBatch, schedulerVars, workVars
  <2> QED
    BY <1>5, <2>1, <2>2, <2>3, <2>4, <2>5, <2>6, <2>7, <2>8, <2>9 DEF Worker
<1>6. CASE \E w \in Workers : Worker(w) \/ SpuriousWake(w)
  BY <1>5, <1>6
<1> QED
  BY <1>1, <1>2, <1>3, <1>4, <1>6 DEF Next


(* The type invariant as a list.                                           *)
LEMMA TypeParts ==
  TypeOK <=>
    /\ calls \in Seq(Requests) /\ Len(calls) <= MaxCalls
    /\ spc \in {"idle", "post", "set", "notify", "join", "gone"}
    /\ sj \in Workers
    /\ ticket \in Tickets \cup {QuitWork, NoWork}
    /\ free \in [Owners -> Seq(0..(MaxJobs - 1))]
    /\ done \in [Owners -> Seq(0..(MaxJobs - 1))]
    /\ work \in [Tickets -> [call : 0..MaxCalls, next : Nat, todo : Int, ref : Int]]
    /\ boxes \in [Workers -> [Workers -> Seq(Entries)]]
    /\ ring \in [Workers -> [slots    : [0..RingSize -> Tickets \cup {QuitWork, NoWork}],
                             capacity : {RingSize + 1},
                             writer   : 0..RingSize,
                             reader   : 0..RingSize]]
    /\ sig \in [Workers -> BOOLEAN]
    /\ wpc \in [Workers -> Locations]
    /\ batch \in [Workers -> [{"begin", "i", "end"} -> 0..RingSize]]
    /\ hand \in [Workers -> [ticket : Tickets \cup {NoWork}, k : Nat]]
    /\ \A w \in Workers : wpc[w] \in {"claim", "execute", "count", "unref"}
                            <=> hand[w].ticket \in Tickets
    /\ finished \in [Calls -> Nat]
BY Zenon DEF TypeOK, Entries, RingSize, Locations

(* What the scheduling thread has in its hands.                            *)
LEMMA SchedulerTypes ==
  ASSUME FewCalls, TypeOK, Phases, FreeUnused, CallsDiffer, [Next]_vars
  PROVE  /\ calls' \in Seq(Requests) /\ Len(calls') <= MaxCalls
         /\ spc' \in {"idle", "post", "set", "notify", "join", "gone"}
         /\ sj' \in Workers
         /\ ticket' \in Tickets \cup {QuitWork, NoWork}
         /\ free' \in [Owners -> Seq(0..(MaxJobs - 1))]
<1>1. /\ calls \in Seq(Requests) /\ Len(calls) <= MaxCalls /\ Len(calls) \in Nat
      /\ spc \in {"idle", "post", "set", "notify", "join", "gone"}
      /\ sj \in Workers
      /\ ticket \in Tickets \cup {QuitWork, NoWork}
      /\ free \in [Owners -> Seq(0..(MaxJobs - 1))]
  BY TypeParts
<1>2. ASSUME NEW req \in Requests, Schedule(req)
      PROVE  /\ calls' \in Seq(Requests) /\ Len(calls') <= MaxCalls
             /\ spc' = "post" /\ sj' = 0 /\ ticket' \in Tickets
             /\ free' \in [Owners -> Seq(0..(MaxJobs - 1))]
  <2>1. calls' = Append(calls, req) /\ Len(calls') = Len(calls) + 1 /\ ticket' \in Tickets
    BY <1>2, ScheduleSends
  <2>2. Len(calls) < MaxCalls /\ spc' = "post" /\ sj' = 0
    BY <1>2 DEF Schedule
  <2>3. free' \in [Owners -> Seq(0..(MaxJobs - 1))]
    <3>1. free[req.owner] # <<>> /\ free' = [free EXCEPT ![req.owner] = Tail(@)]
      BY <1>2, FreshWork
    <3>2. req.owner \in Owners
      BY RequestParts
    <3>3. Tail(free[req.owner]) \in Seq(0..(MaxJobs - 1))
      <4>1. PICK q \in Seq(0..(MaxJobs - 1)) : q = free[req.owner] /\ q # <<>>
        BY <1>1, <3>1, <3>2
      <4>2. Tail(q) \in Seq(0..(MaxJobs - 1))
        BY <4>1, HeadTailProperties
      <4> QED
        BY <4>1, <4>2
    <3> QED
      BY <1>1, <3>1, <3>2, <3>3
  <2> QED
    BY <1>1, <2>1, <2>2, <2>3
<1>3. ASSUME Destroy \/ Scheduler
      PROVE  /\ spc' \in {"idle", "post", "set", "notify", "join", "gone"}
             /\ sj' \in Workers
             /\ ticket' \in Tickets \cup {QuitWork, NoWork}
             /\ free' = free /\ calls' = calls
  <2>1. free' = free /\ calls' = calls
    BY <1>3, SchedulerFrame
  <2>2. ~LastWorker => sj + 1 \in Workers
    BY <1>1 DEF Workers, LastWorker
  <2>3. 0 \in Workers
    BY Sizes
  <2>4. CASE Destroy
    BY <2>1, <2>3, <2>4 DEF Destroy
  <2>5. CASE Post
    BY <1>1, <2>1, <2>2, <2>3, <2>5 DEF Post, NextWorker
  <2>6. CASE SetRaise
    BY <1>1, <2>1, <2>6 DEF SetRaise
  <2>7. CASE SetAlready \/ SetNotify
    BY <1>1, <2>1, <2>2, <2>3, <2>7 DEF SetAlready, SetNotify, AfterSet, NextWorker
  <2>8. CASE Join
    BY <1>1, <2>1, <2>2, <2>3, <2>8 DEF Join, NextWorker
  <2> QED
    BY <1>3, <2>4, <2>5, <2>6, <2>7, <2>8 DEF Scheduler
<1>4. CASE \E req \in Requests : Schedule(req)
  BY <1>2, <1>4, Sizes
<1>5. CASE Destroy \/ Scheduler
  BY <1>1, <1>3, <1>5
<1>6. CASE ~(Destroy \/ Scheduler) /\ ~(\E req \in Requests : Schedule(req))
  <2>1. calls' = calls /\ free' = free /\ spc' = spc /\ sj' = sj /\ ticket' = ticket
    BY <1>6, Touched
  <2> QED
    BY <1>1, <2>1
<1> QED
  BY <1>4, <1>5, <1>6

(* The work_t and the queues of those that are done.                       *)
LEMMA WorkTypes ==
  ASSUME FewCalls, TypeOK, Phases, FreeUnused, CallsDiffer, [Next]_vars
  PROVE  /\ done' \in [Owners -> Seq(0..(MaxJobs - 1))]
         /\ work' \in [Tickets -> [call : 0..MaxCalls, next : Nat, todo : Int, ref : Int]]
         /\ finished' \in [Calls -> Nat]
<1>1. /\ done \in [Owners -> Seq(0..(MaxJobs - 1))]
      /\ work \in [Tickets -> [call : 0..MaxCalls, next : Nat, todo : Int, ref : Int]]
      /\ finished \in [Calls -> Nat]
  BY TypeParts
<1>2. done' \in [Owners -> Seq(0..(MaxJobs - 1))]
  <2>1. CASE done' = done
    BY <1>1, <2>1
  <2>2. ASSUME NEW w \in Workers, Unref(w)
        PROVE  done' \in [Owners -> Seq(0..(MaxJobs - 1))]
    <3>1. hand[w].ticket \in Tickets
      BY <2>2, StateParts DEF Unref
    <3>2. PICK o \in Owners, n \in 0..(MaxJobs - 1) : hand[w].ticket[1] = o /\ hand[w].ticket[2] = n
      BY <3>1 DEF Tickets
    <3>3. done' = [done EXCEPT ![o] = IF Job(w).ref = 0 THEN Append(@, n) ELSE @]
      BY <2>2, <3>2 DEF Unref
    <3>4. PICK d \in Seq(0..(MaxJobs - 1)) : d = done[o]
      BY <1>1
    <3>5. Append(d, n) \in Seq(0..(MaxJobs - 1))
      OBVIOUS
    <3>6. done' = [done EXCEPT ![o] = d] \/ done' = [done EXCEPT ![o] = Append(d, n)]
      BY <3>3, <3>4
    <3> QED
      BY <1>1, <3>5, <3>6
  <2> QED
    BY <2>1, <2>2, Touched
<1>3. work' \in [Tickets -> [call : 0..MaxCalls, next : Nat, todo : Int, ref : Int]]
  <2>1. CASE work' = work
    BY <1>1, <2>1
  <2>2. ASSUME NEW req \in Requests, Schedule(req)
        PROVE  work' \in [Tickets -> [call : 0..MaxCalls, next : Nat, todo : Int, ref : Int]]
    <3>1. PICK t \in Tickets :
            work' = [work EXCEPT ![t] = [call |-> Len(calls) + 1, next |-> 0,
                                         todo |-> NumRanges(req), ref |-> NumWorkers]]
      BY <2>2, FreshWork
    <3>2. NumRanges(req) \in Int /\ NumWorkers \in Int
      BY RangeCount
    <3>3. Len(calls) + 1 \in 0..MaxCalls
      <4>1. PICK c \in Nat : c = Len(calls) /\ c < MaxCalls
        BY <2>2, StateParts DEF Schedule
      <4> QED
        BY <4>1
    <3> QED
      BY <1>1, <3>1, <3>2, <3>3
  <2>3. ASSUME NEW w \in Workers, Claim(w) \/ CountDone(w) \/ Unref(w)
        PROVE  work' \in [Tickets -> [call : 0..MaxCalls, next : Nat, todo : Int, ref : Int]]
    <3>1. DOMAIN work' = Tickets /\ work' = [t \in Tickets |-> work'[t]]
      BY <1>1, <2>3 DEF Claim, CountDone, Unref
    <3>2. ASSUME NEW t \in Tickets
          PROVE  work'[t] \in [call : 0..MaxCalls, next : Nat, todo : Int, ref : Int]
      <4>1. work[t] \in [call : 0..MaxCalls, next : Nat, todo : Int, ref : Int]
        BY <1>1
      <4>2. /\ work[t].call \in 0..MaxCalls /\ work[t].next \in Nat
            /\ work[t].todo \in Int /\ work[t].ref \in Int
        BY <4>1
      <4>3. work[t].next + 1 \in Nat /\ work[t].todo - 1 \in Int /\ work[t].ref - 1 \in Int
        BY <4>2
      <4>4. \/ work'[t] = work[t]
            \/ work'[t] = [call |-> work[t].call, next |-> work[t].next + 1,
                           todo |-> work[t].todo, ref |-> work[t].ref]
            \/ work'[t] = [call |-> work[t].call, next |-> work[t].next,
                           todo |-> work[t].todo - 1, ref |-> work[t].ref]
            \/ work'[t] = [call |-> work[t].call, next |-> work[t].next,
                           todo |-> work[t].todo, ref |-> work[t].ref - 1]
        BY <2>3, Counting
      <4> QED
        BY <4>1, <4>2, <4>3, <4>4
    <3> QED
      BY <3>1, <3>2
  <2> QED
    BY <2>1, <2>2, <2>3, Touched
<1>4. finished' \in [Calls -> Nat]
  <2>1. CASE finished' = finished
    BY <1>1, <2>1
  <2>2. ASSUME NEW w \in Workers, CountDone(w)
        PROVE  finished' \in [Calls -> Nat]
    <3>1. PICK c : c = Job(w).call
      OBVIOUS
    <3>2. finished' = [finished EXCEPT ![c] = IF Job(w).todo = 0 THEN @ + 1 ELSE @]
      BY <2>2, <3>1 DEF CountDone
    <3>3. finished' = [d \in Calls |-> finished'[d]]
      BY <1>1, <3>2
    <3>4. ASSUME NEW d \in Calls
          PROVE  finished'[d] \in Nat
      <4>1. finished[d] \in Nat
        BY <1>1
      <4>2. finished'[d] = finished[d] \/ finished'[d] = finished[d] + 1
        BY <1>1, <3>2
      <4> QED
        BY <4>1, <4>2
    <3> QED
      BY <3>3, <3>4
  <2> QED
    BY <2>1, <2>2, Touched
<1> QED
  BY <1>2, <1>3, <1>4


(* The worker's queues.                                                    *)
LEMMA QueueTypes ==
  ASSUME FewCalls, TypeOK, Phases, CallsDiffer, Lines, [Next]_vars
  PROVE  /\ boxes' \in [Workers -> [Workers -> Seq(Entries)]]
         /\ ring' \in [Workers -> [slots    : [0..RingSize -> Tickets \cup {QuitWork, NoWork}],
                                   capacity : {RingSize + 1},
                                   writer   : 0..RingSize,
                                   reader   : 0..RingSize]]
         /\ batch' \in [Workers -> [{"begin", "i", "end"} -> 0..RingSize]]
<1>1. /\ boxes \in [Workers -> [Workers -> Seq(Entries)]]
      /\ ring \in [Workers -> [slots    : [0..RingSize -> Tickets \cup {QuitWork, NoWork}],
                               capacity : {RingSize + 1},
                               writer   : 0..RingSize,
                               reader   : 0..RingSize]]
      /\ batch \in [Workers -> [{"begin", "i", "end"} -> 0..RingSize]]
  BY StateParts
<1>2. OwnBoxes /\ RingPlace /\ \A w \in Workers : LineRises(w)
  BY DEF Lines
<1>3. ASSUME NEW w \in Workers, Inspect(w)
      PROVE  /\ boxes' \in [Workers -> [Workers -> Seq(Entries)]]
             /\ ring' \in [Workers -> [slots    : [0..RingSize -> Tickets \cup {QuitWork, NoWork}],
                                       capacity : {RingSize + 1},
                                       writer   : 0..RingSize,
                                       reader   : 0..RingSize]]
             /\ batch' \in [Workers -> [{"begin", "i", "end"} -> 0..RingSize]]
  <2>1. PICK v \in Nat, n \in Nat, m \in Seq(Entries),
             S \in [0..RingSize -> Tickets \cup {QuitWork, NoWork}] :
           /\ n = Len(m) /\ v + n <= RingSize
           /\ ring' = [ring EXCEPT ![w] = Filled(S, v, n, m)]
           /\ boxes' = [boxes EXCEPT ![w] = [p \in Workers |-> <<>>]]
           /\ n = 0 => batch' = batch
           /\ n # 0 => batch' = [batch EXCEPT ![w] = [begin |-> v, i |-> v, end |-> v + n]]
    BY <1>2, <1>3, InspectRing
  <2>2. boxes' \in [Workers -> [Workers -> Seq(Entries)]]
    <3>1. <<>> \in Seq(Entries)
      OBVIOUS
    <3>2. [p \in Workers |-> <<>>] \in [Workers -> Seq(Entries)]
      BY <3>1
    <3> QED
      BY <1>1, <2>1, <3>2
  <2>3. v \in 0..RingSize /\ v + n \in 0..RingSize
    BY <2>1, Sizes
  <2>4. Filled(S, v, n, m) \in [slots    : [0..RingSize -> Tickets \cup {QuitWork, NoWork}],
                                capacity : {RingSize + 1},
                                writer   : 0..RingSize,
                                reader   : 0..RingSize]
    <3>1. \A i \in 0..RingSize : v <= i /\ i < v + n => m[i - v + 1] \in Entries
      <4>1. \A i \in 0..RingSize : v <= i /\ i < v + n => i - v + 1 \in 1..Len(m)
        BY <2>1, <2>3
      <4> QED
        BY <4>1
    <3>2. Entries \subseteq Tickets \cup {QuitWork, NoWork}
      BY DEF Entries
    <3>3. [i \in 0..RingSize |-> IF v <= i /\ i < v + n THEN m[i - v + 1] ELSE S[i]]
            \in [0..RingSize -> Tickets \cup {QuitWork, NoWork}]
      BY <3>1, <3>2
    <3> QED
      BY <2>3, <3>3 DEF Filled
  <2>5. batch' \in [Workers -> [{"begin", "i", "end"} -> 0..RingSize]]
    <3>1. PICK bt : bt = [begin |-> v, i |-> v, end |-> v + n]
      OBVIOUS
    <3>2. bt \in [{"begin", "i", "end"} -> 0..RingSize]
      BY <2>3, <3>1
    <3>3. batch' = batch \/ batch' = [batch EXCEPT ![w] = bt]
      BY <2>1, <3>1
    <3> QED
      BY <1>1, <3>2, <3>3
  <2> QED
    BY <1>1, <2>1, <2>2, <2>4, <2>5
<1>4. ASSUME Post
      PROVE  boxes' \in [Workers -> [Workers -> Seq(Entries)]]
  <2>1. ticket \in Entries
    BY <1>4 DEF Post, Phases, Entries
  <2>2. PICK u \in Workers, p \in Workers : u = sj /\ p = IF Quitting THEN 0 ELSE sj
    BY StateParts, Sizes
  <2>3. boxes' = [boxes EXCEPT ![u][p] = IF Len(@) < MaxJobs THEN Append(@, ticket) ELSE @]
    BY <1>4, <2>2 DEF Post
  <2>4. PICK x \in Seq(Entries) : x = IF Len(boxes[u][p]) < MaxJobs THEN Append(boxes[u][p], ticket) ELSE boxes[u][p]
    <3>1. PICK b \in Seq(Entries) : b = boxes[u][p]
      BY <1>1
    <3>2. Append(b, ticket) \in Seq(Entries)
      BY <2>1
    <3> QED
      BY <3>1, <3>2
  <2>5. boxes' = [boxes EXCEPT ![u][p] = x]
    BY <2>3, <2>4
  <2> QED
    BY <1>1, <2>5
<1>5. ASSUME NEW w \in Workers, ReleaseBatch(w)
      PROVE  /\ ring' \in [Workers -> [slots    : [0..RingSize -> Tickets \cup {QuitWork, NoWork}],
                                       capacity : {RingSize + 1},
                                       writer   : 0..RingSize,
                                       reader   : 0..RingSize]]
             /\ batch' \in [Workers -> [{"begin", "i", "end"} -> 0..RingSize]]
  <2>1. PICK e \in 0..RingSize : e = batch[w].end
    BY QueueParts
  <2>2. ring' = [ring EXCEPT ![w] = [ring[w] EXCEPT !.reader = e]]
    BY <1>1, <1>5, <2>1 DEF ReleaseBatch, Release
  <2>3. PICK r : r = [ring[w] EXCEPT !.reader = e]
    OBVIOUS
  <2>4. r \in [slots    : [0..RingSize -> Tickets \cup {QuitWork, NoWork}],
               capacity : {RingSize + 1},
               writer   : 0..RingSize,
               reader   : 0..RingSize]
    <3>1. ring[w] \in [slots    : [0..RingSize -> Tickets \cup {QuitWork, NoWork}],
                       capacity : {RingSize + 1},
                       writer   : 0..RingSize,
                       reader   : 0..RingSize]
      BY <1>1
    <3> QED
      BY <2>3, <3>1
  <2>5. NoBatch \in [{"begin", "i", "end"} -> 0..RingSize]
    <3>1. 0 \in 0..RingSize
      BY Sizes
    <3> QED
      BY <3>1 DEF NoBatch
  <2>6. batch' = [batch EXCEPT ![w] = NoBatch]
    BY <1>5 DEF ReleaseBatch
  <2> QED
    BY <1>1, <2>2, <2>3, <2>4, <2>5, <2>6
<1>6. ASSUME NEW w \in Workers, Fetch(w)
      PROVE  batch' \in [Workers -> [{"begin", "i", "end"} -> 0..RingSize]]
  <2>1. batch' = [batch EXCEPT ![w].i = First(w) + 1] /\ First(w) + 1 <= RingSize /\ First(w) \in Nat
    BY <1>2, <1>6, FetchLine, LineParts
  <2>2. PICK x \in 0..RingSize : x = First(w) + 1
    BY <2>1
  <2>3. batch' = [batch EXCEPT ![w] = [batch[w] EXCEPT !.i = x]]
    BY <1>1, <2>1, <2>2
  <2>4. PICK bt : bt = [batch[w] EXCEPT !.i = x]
    OBVIOUS
  <2>5. bt \in [{"begin", "i", "end"} -> 0..RingSize]
    BY <1>1, <2>4
  <2> QED
    BY <1>1, <2>3, <2>4, <2>5
<1>7. boxes' \in [Workers -> [Workers -> Seq(Entries)]]
  BY <1>1, <1>3, <1>4, Touched
<1>8. ring' \in [Workers -> [slots    : [0..RingSize -> Tickets \cup {QuitWork, NoWork}],
                             capacity : {RingSize + 1},
                             writer   : 0..RingSize,
                             reader   : 0..RingSize]]
  <2>1. CASE ring' = ring
    BY <1>1, <2>1
  <2>2. CASE \E w \in Workers : Inspect(w) \/ ReleaseBatch(w)
    BY <1>3, <1>5, <2>2
  <2> QED
    BY <2>1, <2>2, Touched
<1>9. batch' \in [Workers -> [{"begin", "i", "end"} -> 0..RingSize]]
  <2>1. CASE batch' = batch
    BY <1>1, <2>1
  <2>2. CASE \E w \in Workers : Inspect(w) \/ Fetch(w) \/ ReleaseBatch(w)
    BY <1>3, <1>5, <1>6, <2>2
  <2> QED
    BY <2>1, <2>2, Touched
<1> QED
  BY <1>7, <1>8, <1>9

(* Where the workers are and what they have in their hands.                *)
LEMMA WorkerTypes ==
  ASSUME FewCalls, TypeOK, Phases, CallsDiffer, Lines, [Next]_vars
  PROVE  /\ sig' \in [Workers -> BOOLEAN]
         /\ wpc' \in [Workers -> Locations]
         /\ hand' \in [Workers -> [ticket : Tickets \cup {NoWork}, k : Nat]]
         /\ \A v \in Workers : wpc'[v] \in {"claim", "execute", "count", "unref"}
                                 <=> hand'[v].ticket \in Tickets
<1>1. /\ sig \in [Workers -> BOOLEAN]
      /\ wpc \in [Workers -> Locations]
      /\ hand \in [Workers -> [ticket : Tickets \cup {NoWork}, k : Nat]]
      /\ \A v \in Workers : wpc[v] \in {"claim", "execute", "count", "unref"}
                              <=> hand[v].ticket \in Tickets
  BY TypeParts
<1>2. OwnBoxes /\ RingPlace /\ \A w \in Workers : LineRises(w)
  BY DEF Lines
<1>3. sig' \in [Workers -> BOOLEAN]
  BY <1>1, Touched DEF SetRaise, Raised, WaitReset
<1> DEFINE Busy == {"claim", "execute", "count", "unref"}
<1>4. ASSUME NEW w \in Workers, Worker(w) \/ SpuriousWake(w)
      PROVE  /\ \E l \in Locations : wpc' = [wpc EXCEPT ![w] = l]
             /\ \/ hand' = hand /\ (wpc'[w] \in Busy <=> wpc[w] \in Busy)
                \/ \E h \in [ticket : Tickets \cup {NoWork}, k : Nat] :
                     hand' = [hand EXCEPT ![w] = h] /\ (wpc'[w] \in Busy <=> h.ticket \in Tickets)
  <2>1. CASE Inspect(w)
    <3>1. wpc' = [wpc EXCEPT ![w] = "check"] \/ wpc' = [wpc EXCEPT ![w] = "fetch"]
      BY <2>1 DEF Inspect, Goto
    <3>2. hand' = hand /\ wpc[w] = "inspect"
      BY <2>1 DEF Inspect
    <3> QED
      BY <1>1, <3>1, <3>2 DEF Locations
  <2>2. CASE WaitCheck(w) \/ WaitBlock(w) \/ SpuriousWake(w) \/ WaitReset(w)
    BY <1>1, <2>2 DEF WaitCheck, WaitBlock, SpuriousWake, WaitReset, Goto, Locations
  <2>3. CASE Fetch(w)
    <3>1. CASE Line(w)[First(w)] = QuitWork
      <4>1. wpc'[w] = "quit"
        BY <1>2, <2>3, <3>1, FetchLine
      <4>2. \/ wpc' = [wpc EXCEPT ![w] = "quit"] /\ hand' = hand
            \/ wpc' = [wpc EXCEPT ![w] = "claim"]
        BY <2>3 DEF Fetch, Goto
      <4>3. wpc[w] = "fetch"
        BY <2>3 DEF Fetch
      <4> QED
        BY <1>1, <4>1, <4>2, <4>3 DEF Locations
    <3>2. CASE Line(w)[First(w)] # QuitWork
      <4>1. PICK t \in Tickets : t = Line(w)[First(w)] /\ wpc'[w] = "claim" /\ hand'[w] = [ticket |-> t, k |-> 0]
        BY <1>2, <2>3, <3>2, FetchLine
      <4>2. \/ wpc' = [wpc EXCEPT ![w] = "quit"]
            \/ /\ wpc' = [wpc EXCEPT ![w] = "claim"]
               /\ \E x : hand' = [hand EXCEPT ![w] = x]
        BY <2>3 DEF Fetch, Goto
      <4>3. PICK x : hand' = [hand EXCEPT ![w] = x] /\ wpc' = [wpc EXCEPT ![w] = "claim"]
        BY <1>1, <4>1, <4>2
      <4>4. x = [ticket |-> t, k |-> 0]
        BY <1>1, <4>1, <4>3
      <4>5. x \in [ticket : Tickets \cup {NoWork}, k : Nat] /\ x.ticket = t
        BY <4>4
      <4> QED
        BY <4>1, <4>3, <4>5 DEF Locations
    <3> QED
      BY <3>1, <3>2
  <2>4. CASE Claim(w)
    <3>1. wpc[w] = "claim" /\ hand[w].ticket \in Tickets
      BY <1>1, <2>4 DEF Claim
    <3>2. PICK k \in Nat : k = Job(w).next
      BY <3>1, StateParts DEF Job
    <3>3. hand' = [hand EXCEPT ![w] = [hand[w] EXCEPT !.k = k]]
      BY <1>1, <2>4, <3>2 DEF Claim
    <3>4. PICK h : h = [hand[w] EXCEPT !.k = k]
      OBVIOUS
    <3>5. h \in [ticket : Tickets \cup {NoWork}, k : Nat] /\ h.ticket = hand[w].ticket
      <4>1. hand[w] \in [ticket : Tickets \cup {NoWork}, k : Nat]
        BY <1>1
      <4> QED
        BY <3>4, <4>1
    <3>6. wpc' = [wpc EXCEPT ![w] = "execute"] \/ wpc' = [wpc EXCEPT ![w] = "unref"]
      BY <2>4 DEF Claim, Goto
    <3>7. hand' = [hand EXCEPT ![w] = h]
      BY <3>3, <3>4
    <3> QED
      BY <1>1, <3>1, <3>5, <3>6, <3>7 DEF Locations
  <2>5. CASE Execute(w) \/ CountDone(w)
    BY <1>1, <2>5 DEF Execute, CountDone, Goto, Locations
  <2>6. CASE Unref(w)
    <3>1. wpc' = [wpc EXCEPT ![w] = "fetch"] /\ hand' = [hand EXCEPT ![w] = NoHand]
      BY <2>6 DEF Unref, AfterUnref, Goto
    <3>2. NoHand \in [ticket : Tickets \cup {NoWork}, k : Nat] /\ NoHand.ticket \notin Tickets
      BY Sizes DEF NoHand
    <3> QED
      BY <1>1, <3>1, <3>2 DEF Locations
  <2>7. CASE ReleaseBatch(w)
    BY <1>1, <2>7 DEF ReleaseBatch, Goto, Locations
  <2> QED
    BY <1>4, <2>1, <2>2, <2>3, <2>4, <2>5, <2>6, <2>7 DEF Worker
<1>5. ASSUME SetNotify
      PROVE  /\ wpc' \in [Workers -> Locations] /\ hand' = hand
             /\ \A v \in Workers : wpc'[v] \in Busy <=> wpc[v] \in Busy
  BY <1>1, <1>5 DEF SetNotify, Locations
<1>6. ASSUME wpc' = wpc, hand' = hand
      PROVE  /\ wpc' \in [Workers -> Locations]
             /\ hand' \in [Workers -> [ticket : Tickets \cup {NoWork}, k : Nat]]
             /\ \A v \in Workers : wpc'[v] \in Busy <=> hand'[v].ticket \in Tickets
  BY <1>1, <1>6
<1>7. ASSUME NEW w \in Workers, Worker(w) \/ SpuriousWake(w)
      PROVE  /\ wpc' \in [Workers -> Locations]
             /\ hand' \in [Workers -> [ticket : Tickets \cup {NoWork}, k : Nat]]
             /\ \A v \in Workers : wpc'[v] \in Busy <=> hand'[v].ticket \in Tickets
  <2>1. PICK l \in Locations : wpc' = [wpc EXCEPT ![w] = l]
    BY <1>4, <1>7
  <2>2. CASE hand' = hand /\ (wpc'[w] \in Busy <=> wpc[w] \in Busy)
    BY <1>1, <2>1, <2>2
  <2>3. ASSUME NEW h \in [ticket : Tickets \cup {NoWork}, k : Nat],
               hand' = [hand EXCEPT ![w] = h], wpc'[w] \in Busy <=> h.ticket \in Tickets
        PROVE  /\ wpc' \in [Workers -> Locations]
               /\ hand' \in [Workers -> [ticket : Tickets \cup {NoWork}, k : Nat]]
               /\ \A v \in Workers : wpc'[v] \in Busy <=> hand'[v].ticket \in Tickets
    BY <1>1, <2>1, <2>3
  <2> QED
    BY <1>4, <1>7, <2>2, <2>3
<1>8. CASE SetNotify
  <2>1. /\ wpc' \in [Workers -> Locations] /\ hand' = hand
        /\ \A v \in Workers : wpc'[v] \in Busy <=> wpc[v] \in Busy
    BY <1>5, <1>8
  <2>2. hand' \in [Workers -> [ticket : Tickets \cup {NoWork}, k : Nat]]
    BY <1>1, <2>1
  <2>3. \A v \in Workers : wpc'[v] \in Busy <=> hand'[v].ticket \in Tickets
    BY <1>1, <2>1
  <2> QED
    BY <1>3, <2>1, <2>2, <2>3
<1>9. CASE ~SetNotify /\ ~(\E w \in Workers : Worker(w) \/ SpuriousWake(w))
  <2>1. wpc' = wpc /\ hand' = hand
    BY <1>9, Touched DEF Worker
  <2> QED
    BY <1>3, <1>6, <2>1
<1> QED
  BY <1>3, <1>7, <1>8, <1>9

(* Every step keeps the types.                                             *)
LEMMA TypeStep ==
  ASSUME FewCalls, TypeOK, Phases, FreeUnused, CallsDiffer, Lines, [Next]_vars
  PROVE  TypeOK'
<1>1. /\ calls' \in Seq(Requests) /\ Len(calls') <= MaxCalls
      /\ spc' \in {"idle", "post", "set", "notify", "join", "gone"}
      /\ sj' \in Workers
      /\ ticket' \in Tickets \cup {QuitWork, NoWork}
      /\ free' \in [Owners -> Seq(0..(MaxJobs - 1))]
  BY SchedulerTypes
<1>2. /\ done' \in [Owners -> Seq(0..(MaxJobs - 1))]
      /\ work' \in [Tickets -> [call : 0..MaxCalls, next : Nat, todo : Int, ref : Int]]
      /\ finished' \in [Calls -> Nat]
  BY WorkTypes
<1>3. /\ boxes' \in [Workers -> [Workers -> Seq(Entries)]]
      /\ ring' \in [Workers -> [slots    : [0..RingSize -> Tickets \cup {QuitWork, NoWork}],
                                capacity : {RingSize + 1},
                                writer   : 0..RingSize,
                                reader   : 0..RingSize]]
      /\ batch' \in [Workers -> [{"begin", "i", "end"} -> 0..RingSize]]
  BY QueueTypes
<1>4. /\ sig' \in [Workers -> BOOLEAN]
      /\ wpc' \in [Workers -> Locations]
      /\ hand' \in [Workers -> [ticket : Tickets \cup {NoWork}, k : Nat]]
      /\ \A v \in Workers : wpc'[v] \in {"claim", "execute", "count", "unref"}
                              <=> hand'[v].ticket \in Tickets
  BY WorkerTypes
<1> QED
  BY <1>1, <1>2, <1>3, <1>4, Zenon DEF TypeOK, Entries, RingSize, Locations


(* A worker that has left its loop stays out of it.                        *)
LEMMA ExitedStays ==
  ASSUME TypeOK, [Next]_vars, NEW v \in Workers, wpc[v] = "exited"
  PROVE  wpc'[v] = "exited"
<1>1. wpc \in [Workers -> Locations] /\ sj \in Workers
  BY TypeParts
<1>2. CASE wpc' = wpc
  BY <1>2
<1>3. CASE SetNotify
  BY <1>1, <1>3 DEF SetNotify
<1>4. ASSUME NEW w \in Workers, Worker(w) \/ SpuriousWake(w)
      PROVE  wpc'[v] = "exited"
  <2>1. wpc[w] # "exited"
    BY <1>4 DEF Worker, SpuriousWake, Inspect, WaitCheck, WaitBlock, WaitReset, Fetch, Claim, Execute,
                CountDone, Unref, ReleaseBatch
  <2> QED
    BY <1>4, <2>1, WorkerFrame
<1> QED
  BY <1>2, <1>3, <1>4, Touched

(* Every step leaves the scheduling thread in one of its phases.           *)
LEMMA PhasesStep ==
  ASSUME FewCalls, TypeOK, Phases, FreeUnused, CallsDiffer, [Next]_vars
  PROVE  Phases'
<1>1. /\ sj \in Workers /\ sj \in Nat /\ sj < NumWorkers
      /\ \A w \in Workers : w \in Nat /\ w < NumWorkers
  BY StateParts, Sizes
<1>2. \A v \in Workers : wpc[v] = "exited" => wpc'[v] = "exited"
  BY ExitedStays
<1>3. ASSUME NEW req \in Requests, Schedule(req)
      PROVE  Phases'
  <2>1. spc' = "post" /\ ticket' \in Tickets /\ Len(calls') = Len(calls) + 1 /\ Len(calls) \in Nat
        /\ work'[ticket'].call = Len(calls) + 1
    <3>1. spc' = "post" /\ Len(calls) \in Nat
      BY <1>3, StateParts DEF Schedule
    <3>2. ticket' \in Tickets /\ Len(calls') = Len(calls) + 1
          /\ work'[ticket'] = [call |-> Len(calls) + 1, next |-> 0,
                               todo |-> NumRanges(req), ref |-> NumWorkers]
      BY <1>3, ScheduleSends
    <3> QED
      BY <3>1, <3>2
  <2>2. (CallOf(ticket))' = Len(calls') /\ Len(calls') # 0
    BY <2>1 DEF CallOf
  <2> QED
    BY <2>1, <2>2, Sizes DEF Phases, Quitting
<1>4. ASSUME calls' = calls, \A t \in Tickets : (CallOf(t))' = CallOf(t), ticket' \in {ticket, NoWork, QuitWork}
      PROVE  ticket' \in Tickets => (CallOf(ticket))' = Len(calls') /\ Len(calls') # 0
  <2> SUFFICES ASSUME ticket' \in Tickets
               PROVE  (CallOf(ticket))' = Len(calls') /\ Len(calls') # 0
    OBVIOUS
  <2>1. PICK t \in Tickets : t = ticket /\ t = ticket'
    BY <1>4, Sizes
  <2>2. CallOf(t) = Len(calls) /\ Len(calls) # 0
    BY <2>1 DEF Phases
  <2>3. (CallOf(ticket))' = (CallOf(t))'
    BY <2>1 DEF CallOf
  <2> QED
    BY <1>4, <2>2, <2>3
<1>5. ASSUME Destroy \/ Scheduler
      PROVE  Phases'
  <2>1. calls' = calls /\ \A t \in Tickets : (CallOf(t))' = CallOf(t)
    BY <1>5, SchedulerFrame DEF CallOf
  <2>2. CASE Destroy
    <3>1. spc' = "post" /\ ticket' = QuitWork
      BY <2>2 DEF Destroy
    <3> QED
      BY <2>1, <3>1, <1>4, Sizes DEF Phases
  <2>3. CASE Post
    <3>1. /\ spc = "post" /\ ticket' = ticket
          /\ spc' \in {"post", "set"}
      BY <2>3 DEF Post, NextWorker
    <3> QED
      BY <2>1, <3>1, <1>4 DEF Phases
  <2>4. CASE SetRaise
    <3>1. spc = "set" /\ ticket' = ticket /\ spc' = "notify"
      BY <2>4 DEF SetRaise
    <3> QED
      BY <2>1, <3>1, <1>4 DEF Phases
  <2>5. CASE SetAlready \/ SetNotify
    <3>1. spc \in {"set", "notify"}
      BY <2>5 DEF SetAlready, SetNotify
    <3>2. \/ ~Quitting /\ spc' = "idle" /\ ticket' = NoWork
          \/ ~Quitting /\ spc' = "set" /\ ticket' = ticket
          \/ Quitting /\ spc' = "join" /\ sj' = 0 /\ ticket' = ticket
          \/ Quitting /\ spc' = "post" /\ ticket' = ticket
      BY <2>5 DEF SetAlready, SetNotify, AfterSet, NextWorker
    <3>3. \A w \in Workers : ~(w < 0)
      BY <1>1
    <3>4. (ticket' \in Tickets => (CallOf(ticket))' = Len(calls') /\ Len(calls') # 0)
      BY <2>1, <3>2, <1>4
    <3> QED
      BY <2>1, <3>1, <3>2, <3>3, <3>4, Sizes DEF Phases, Quitting
  <2>6. CASE Join
    <3>1. spc = "join" /\ ticket' = ticket /\ wpc[sj] = "exited" /\ wpc' = wpc
      BY <2>6 DEF Join, Joinable
    <3>2. \/ spc' = "join" /\ sj' = sj + 1
          \/ spc' = "gone" /\ sj + 1 = NumWorkers
      BY <2>6 DEF Join, NextWorker, LastWorker
    <3>3. \A w \in Workers : w < sj => wpc[w] = "exited"
      BY <3>1 DEF Phases
    <3>4. \A w \in Workers : w < sj + 1 => wpc[w] = "exited"
      BY <1>1, <3>1, <3>3
    <3>5. spc' = "gone" => \A w \in Workers : wpc[w] = "exited"
      BY <1>1, <3>2, <3>4
    <3>6. ticket = QuitWork
      BY <3>1 DEF Phases, Quitting
    <3>7. (spc' = "join" => sj' = sj + 1) /\ spc' \in {"join", "gone"}
      BY <3>2
    <3>8. spc' = "join" => \A w \in Workers : w < sj' => wpc'[w] = "exited"
      BY <3>1, <3>4, <3>7
    <3>9. spc' = "gone" => \A w \in Workers : wpc'[w] = "exited"
      BY <3>1, <3>5
    <3> QED
      BY <3>1, <3>6, <3>7, <3>8, <3>9, Sizes DEF Phases, Quitting
  <2> QED
    BY <1>5, <2>2, <2>3, <2>4, <2>5, <2>6 DEF Scheduler
<1>6. ASSUME calls' = calls, spc' = spc, sj' = sj, ticket' = ticket, \A t \in Tickets : (CallOf(t))' = CallOf(t)
      PROVE  Phases'
  BY <1>2, <1>4, <1>6 DEF Phases, Quitting
<1>7. ASSUME NEW w \in Workers, Worker(w) \/ SpuriousWake(w)
      PROVE  Phases'
  BY <1>6, <1>7, WorkerFrame
<1>8. CASE Terminated \/ UNCHANGED vars
  BY <1>6, <1>8 DEF Terminated, vars, schedulerVars, workVars, CallOf
<1> QED
  BY <1>3, <1>5, <1>7, <1>8 DEF Next

(* Every call has a work_t of its own.                                     *)
LEMMA CallsStep ==
  ASSUME FewCalls, TypeOK, Phases, FreeUnused, CallsDiffer, Lines, [Next]_vars
  PROVE  FreeUnused' /\ CallsDiffer'
<1>1. ASSUME NEW req \in Requests, Schedule(req)
      PROVE  FreeUnused' /\ CallsDiffer'
  <2>1. PICK n \in 0..(MaxJobs - 1), c \in Nat, o \in Owners :
           /\ o = req.owner /\ free[o] # <<>> /\ n = MaxJobs - Len(free[o])
           /\ <<o, n>> \in Tickets /\ ticket' = <<o, n>>
           /\ free' = [free EXCEPT ![o] = Tail(@)]
           /\ c = Len(calls) /\ c < MaxCalls
    BY <1>1, FreshWork
  <2>2. PICK t \in Tickets : t = <<o, n>> /\ t = ticket'
    BY <2>1
  <2>3. /\ Len(calls') = c + 1 /\ CallOf(t) = 0
        /\ work'[t] = [call |-> c + 1, next |-> 0, todo |-> NumRanges(req), ref |-> NumWorkers]
        /\ \A u \in Tickets : u # t => work'[u] = work[u]
    BY <1>1, <2>1, <2>2, ScheduleSends
  <2>4. (CallOf(t))' = c + 1 /\ \A u \in Tickets : u # t => (CallOf(u))' = CallOf(u)
    BY <2>3 DEF CallOf
  <2>5. \A u \in Tickets : CallOf(u) \in Nat /\ CallOf(u) <= c
    BY <2>1, StateParts DEF CallsDiffer, CallOf
  <2>6. CallsDiffer'
    <3>1. \A u \in Tickets : (CallOf(u))' <= c + 1
      BY <2>4, <2>5
    <3>2. \A u, v \in Tickets : (CallOf(u))' = (CallOf(v))' /\ (CallOf(u))' # 0 => u = v
      BY <2>4, <2>5 DEF CallsDiffer
    <3>3. ASSUME NEW d \in 1..(c + 1)
          PROVE  \E u \in Tickets : (CallOf(u))' = d
      <4>1. CASE d = c + 1
        BY <2>4, <4>1
      <4>2. CASE d # c + 1
        <5>1. d \in Made
          BY <2>1, <4>2 DEF Made
        <5>2. PICK u \in Tickets : CallOf(u) = d
          BY <5>1 DEF CallsDiffer
        <5>3. u # t
          BY <2>3, <5>2
        <5> QED
          BY <2>4, <5>2, <5>3
      <4> QED
        BY <4>1, <4>2
    <3> QED
      BY <2>3, <3>1, <3>2, <3>3 DEF CallsDiffer, Made
  <2>7. FreeUnused'
    <3> SUFFICES ASSUME NEW p \in Owners
                 PROVE  /\ Len(free'[p]) + Len(calls') >= MaxJobs
                        /\ \A i \in 1..Len(free'[p]) : free'[p][i] = (MaxJobs - Len(free'[p])) + (i - 1)
                        /\ \A i \in 0..(MaxJobs - 1) :
                             i >= MaxJobs - Len(free'[p]) => work'[<<p, i>>] = NoJob
      BY DEF FreeUnused
    <3>0. \A i \in 0..(MaxJobs - 1) : <<p, i>> \in Tickets
      BY DEF Tickets
    <3>1. PICK q \in Seq(0..(MaxJobs - 1)), l \in Nat : q = free[p] /\ l = Len(q)
      BY TypeParts
    <3>2. l + c >= MaxJobs
      <4>1. Len(free[p]) + Len(calls) >= MaxJobs
        BY Zenon DEF FreeUnused
      <4> QED
        BY <2>1, <3>1, <4>1
    <3>3. \A i \in 1..l : q[i] = (MaxJobs - l) + (i - 1)
      <4>1. \A i \in 1..Len(free[p]) : free[p][i] = (MaxJobs - Len(free[p])) + (i - 1)
        BY Zenon DEF FreeUnused
      <4> QED
        BY <3>1, <4>1
    <3>4. \A i \in 0..(MaxJobs - 1) : i >= MaxJobs - l => work[<<p, i>>] = NoJob
      <4>1. \A i \in 0..(MaxJobs - 1) : i >= MaxJobs - Len(free[p]) => work[<<p, i>>] = NoJob
        BY Zenon DEF FreeUnused
      <4> QED
        BY <3>1, <4>1
    <3>5. CASE p # o
      <4>1. free'[p] = q
        BY <2>1, <3>1, <3>5, TypeParts
      <4>2. \A i \in 0..(MaxJobs - 1) : work'[<<p, i>>] = work[<<p, i>>]
        BY <2>2, <2>3, <3>0, <3>5
      <4>3. \A i \in 0..(MaxJobs - 1) : i >= MaxJobs - l => work'[<<p, i>>] = NoJob
        BY <3>4, <4>2
      <4>4. l + (c + 1) >= MaxJobs
        BY <3>2
      <4> QED
        BY <2>3, <3>1, <3>3, <4>1, <4>3, <4>4
    <3>6. CASE p = o
      <4>1. q # <<>> /\ n = MaxJobs - l
        BY <2>1, <3>1, <3>6
      <4>2. PICK r : r = Tail(q)
        OBVIOUS
      <4>3. Len(r) = l - 1 /\ l >= 1 /\ \A i \in 1..(l - 1) : r[i] = q[i + 1]
        BY <3>1, <4>1, <4>2
      <4>4. free'[p] = r
        BY <2>1, <3>1, <3>6, <4>2, TypeParts
      <4>5. (l - 1) + (c + 1) >= MaxJobs
        BY <3>2
      <4>6. \A i \in 1..(l - 1) : r[i] = (MaxJobs - (l - 1)) + (i - 1)
        <5>1. \A i \in 1..(l - 1) : i + 1 \in 1..l /\ (MaxJobs - l) + ((i + 1) - 1) = (MaxJobs - (l - 1)) + (i - 1)
          OBVIOUS
        <5> QED
          BY <3>3, <4>3, <5>1
      <4>7. \A i \in 0..(MaxJobs - 1) : i >= MaxJobs - (l - 1) => i # n /\ i >= MaxJobs - l
        BY <4>1
      <4>8. \A i \in 0..(MaxJobs - 1) : i # n => work'[<<p, i>>] = work[<<p, i>>]
        BY <2>2, <2>3, <3>0, <3>6
      <4>9. \A i \in 0..(MaxJobs - 1) : i >= MaxJobs - (l - 1) => work'[<<p, i>>] = NoJob
        BY <3>4, <4>7, <4>8
      <4> QED
        BY <2>3, <4>3, <4>4, <4>5, <4>6, <4>9
    <3> QED
      BY <3>5, <3>6
  <2> QED
    BY <2>6, <2>7
<1>2. ASSUME calls' = calls, \A t \in Tickets : (CallOf(t))' = CallOf(t)
      PROVE  CallsDiffer'
  BY <1>2 DEF CallsDiffer, Made
<1>3. ASSUME calls' = calls, free' = free,
             \A t \in Tickets : CallOf(t) = 0 => work'[t] = work[t]
      PROVE  FreeUnused'
  <2>1. \A o \in Owners, n \in 0..(MaxJobs - 1) : <<o, n>> \in Tickets
    BY DEF Tickets
  <2>2. \A o \in Owners, n \in 0..(MaxJobs - 1) : work[<<o, n>>] = NoJob => work'[<<o, n>>] = NoJob
    BY <1>3, <2>1 DEF NoJob, CallOf
  <2> QED
    BY <1>3, <2>2 DEF FreeUnused
<1>4. ASSUME ~(\E req \in Requests : Schedule(req))
      PROVE  calls' = calls /\ free' = free /\ \A t \in Tickets : (CallOf(t))' = CallOf(t)
  <2>1. calls' = calls /\ free' = free
    BY <1>4, Touched
  <2>2. CASE \E w \in Workers : Worker(w) \/ SpuriousWake(w)
    BY <2>1, <2>2, WorkerFrame
  <2>3. CASE work' = work
    BY <2>1, <2>3 DEF CallOf
  <2> QED
    BY <1>4, <2>2, <2>3, Touched DEF Worker
<1>5. ASSUME ~(\E req \in Requests : Schedule(req)), NEW t \in Tickets, CallOf(t) = 0
      PROVE  work'[t] = work[t]
  <2>1. ASSUME NEW w \in Workers, Claim(w) \/ CountDone(w) \/ Unref(w)
        PROVE  work'[t] = work[t]
    <3>1. hand[w].ticket \in Tickets
      BY <2>1, StateParts DEF Claim, CountDone, Unref
    <3>2. LineRises(w)
      BY DEF Lines
    <3>3. CallOf(hand[w].ticket) # 0
      BY <3>1, <3>2 DEF LineRises, Given
    <3> QED
      BY <1>5, <2>1, <3>3, Counting
  <2> QED
    BY <1>5, <2>1, Touched
<1>6. CASE \E req \in Requests : Schedule(req)
  BY <1>1, <1>6
<1>7. CASE ~(\E req \in Requests : Schedule(req))
  <2>1. calls' = calls /\ free' = free /\ \A t \in Tickets : (CallOf(t))' = CallOf(t)
    BY <1>4, <1>7
  <2>2. \A t \in Tickets : CallOf(t) = 0 => work'[t] = work[t]
    BY <1>5, <1>7
  <2> QED
    BY <1>2, <1>3, <2>1, <2>2
<1> QED
  BY <1>6, <1>7

------------------------------------------------------------------------------
(* The counters.                                                           *)

(* Sets of workers can be counted.                                         *)
LEMMA WorkersFinite ==
  /\ IsFiniteSet(Workers) /\ Cardinality(Workers) = NumWorkers
  /\ \A S \in SUBSET Workers : /\ IsFiniteSet(S)
                               /\ Cardinality(S) \in Nat /\ Cardinality(S) <= NumWorkers
<1>1. IsFiniteSet(Workers) /\ Cardinality(Workers) = NumWorkers
  <2>1. 0 \in Int /\ NumWorkers - 1 \in Int /\ 0 <= NumWorkers - 1
    OBVIOUS
  <2>2. (NumWorkers - 1) - 0 + 1 = NumWorkers
    OBVIOUS
  <2> QED
    BY <2>1, <2>2, FS_Interval DEF Workers
<1>2. ASSUME NEW S \in SUBSET Workers
      PROVE  IsFiniteSet(S) /\ Cardinality(S) \in Nat /\ Cardinality(S) <= NumWorkers
  BY <1>1, FS_Subset, FS_CardinalityType
<1> QED
  BY <1>1, <1>2

(* The types of what is known of a job.                                    *)
LEMMA JobParts ==
  ASSUME TypeOK, CallsDiffer, NEW t \in Tickets, CallOf(t) # 0
  PROVE  /\ CallOf(t) \in Made /\ Request(t) \in Requests
         /\ Ranges(t) \in Nat /\ work[t].next \in Nat
<1>1. CallOf(t) \in Made
  BY StateParts DEF CallsDiffer, CallOf, Made
<1>2. Request(t) \in Requests
  BY <1>1, StateParts DEF Request
<1>3. Ranges(t) \in Nat
  BY <1>2, RangeCount DEF Ranges
<1> QED
  BY <1>1, <1>2, <1>3, StateParts

\* A step that means nothing to the claims of worker v on t.
SameHand(v, t) ==
  \/ hand'[v] = hand[v] /\ wpc'[v] = wpc[v]
  \/ /\ hand[v].ticket = t => wpc[v] = "claim"
     /\ hand'[v].ticket = t => wpc'[v] = "claim"

(* A worker that does nothing to a job keeps what it has of it.            *)
LEMMA ClaimsStay ==
  ASSUME NEW v \in Workers, NEW t \in Tickets, SameHand(v, t)
  PROVE  /\ \A k \in Nat : (Working(v, t, k))' <=> Working(v, t, k)
         /\ \A k \in Nat : (Executing(v, t, k))' <=> Executing(v, t, k)
         /\ (Leaving(v, t))' <=> Leaving(v, t)
BY DEF SameHand, Working, Executing, Leaving

(* What the counters of a job are about changes only in the steps of a     *)
(* worker on that job; a worker that quits ceases to hold it.              *)
LEMMA CountersStay ==
  ASSUME TypeOK, CallsDiffer, NEW t \in Tickets, CallOf(t) # 0, JobCounters(t),
         work'[t] = work[t], calls'[CallOf(t)] = calls[CallOf(t)],
         ran'[CallOf(t)] = ran[CallOf(t)],
         \A v \in Workers : SameHand(v, t),
         \A v \in Workers : (Holds(v, t))' => Holds(v, t),
         (\A v \in Workers : (Holds(v, t))' <=> Holds(v, t)) \/ ticket' = QuitWork,
         Quitting => ticket' = QuitWork,
         (Holds(0, t))' <=> Holds(0, t)
  PROVE  (JobCounters(t))'
<1>1. (CallOf(t))' = CallOf(t) /\ (Request(t))' = Request(t) /\ (Ranges(t))' = Ranges(t)
  <2>1. (CallOf(t))' = CallOf(t)
    BY DEF CallOf
  <2>2. (Request(t))' = Request(t)
    BY <2>1 DEF Request
  <2> QED
    BY <2>1, <2>2 DEF Ranges
<1>2. /\ \A v \in Workers : \A k \in Nat : (Working(v, t, k))' <=> Working(v, t, k)
      /\ \A v \in Workers : \A k \in Nat : (Executing(v, t, k))' <=> Executing(v, t, k)
      /\ \A v \in Workers : (Leaving(v, t))' <=> Leaving(v, t)
  BY ClaimsStay
<1>3. PICK n \in Nat : n = work[t].next /\ n = work'[t].next
  BY JobParts
<1>4. PICK q \in Nat : q = Ranges(t) /\ q = (Ranges(t))'
  BY <1>1, JobParts
<1>5. (ClaimsInRange(t))'
  <2>1. ClaimsInRange(t)
    BY DEF JobCounters
  <2>2. \A w \in Workers : /\ \A k \in Nat : Working(w, t, k) => k < n /\ k < q
                           /\ Leaving(w, t) => n >= q
    BY <1>3, <1>4, <2>1 DEF ClaimsInRange
  <2> QED
    BY <1>2, <1>3, <1>4, <2>2 DEF ClaimsInRange
<1>6. (ClaimsDiffer(t))'
  BY <1>2 DEF ClaimsDiffer, JobCounters
<1>7. (IterationsRun(t))'
  <2>1. \A k \in Nat : (Executed(t, k))' <=> Executed(t, k)
    BY <1>2, <1>3 DEF Executed
  <2>2. IterationsRun(t)
    BY DEF JobCounters
  <2>3. \A k \in 0..(q - 1) : \A i \in Iterations(k, Request(t)) :
          ran[CallOf(t)][i] = IF Executed(t, k) THEN 1 ELSE 0
    BY <1>4, <2>2 DEF IterationsRun
  <2>4. \A k \in 0..(q - 1) : \A i \in Iterations(k, (Request(t))') :
          ran'[(CallOf(t))'][i] = IF (Executed(t, k))' THEN 1 ELSE 0
    BY <1>1, <2>1, <2>3
  <2> QED
    BY <1>4, <2>4 DEF IterationsRun
<1>8. (TodoCounts(t))'
  <2>1. (CountedOf(t))' = CountedOf(t)
    BY <1>2, <1>3, <1>4 DEF CountedOf
  <2> QED
    BY <1>1, <2>1 DEF TodoCounts, JobCounters
<1>9. PICK H \in SUBSET Workers : H = HoldersOf(t)
  BY DEF HoldersOf
<1>10. PICK G \in SUBSET Workers : G = (HoldersOf(t))'
  BY DEF HoldersOf
<1>11. (RefCounts(t))'
  <2>1. G \subseteq H
    BY <1>9, <1>10 DEF HoldersOf
  <2>2. Cardinality(G) <= Cardinality(H) /\ Cardinality(G) \in Nat /\ Cardinality(H) \in Nat
    BY <1>9, <2>1, WorkersFinite, FS_Subset
  <2>3. G = H \/ ticket' = QuitWork
    BY <1>9, <1>10 DEF HoldersOf
  <2>4. PICK r \in Int : r = work[t].ref /\ r = work'[t].ref
    BY StateParts
  <2>5. r >= Cardinality(H) /\ (r > Cardinality(H) => Quitting) /\ (r < NumWorkers => n >= q)
    BY <1>3, <1>4, <1>9, <2>4 DEF JobCounters, RefCounts
  <2>6. r >= Cardinality(G)
    BY <2>2, <2>5
  <2>7. r > Cardinality(G) => Quitting'
    BY <2>3, <2>5 DEF Quitting
  <2> QED
    BY <1>3, <1>4, <1>10, <2>4, <2>5, <2>6, <2>7 DEF RefCounts
<1>12. (ClaimsBounded(t))'
  <2>1. PICK L \in SUBSET Workers : L = Late(t)
    BY DEF Late
  <2>2. PICK M \in SUBSET Workers : M = (Late(t))'
    BY DEF Late
  <2>3. L \subseteq M
    BY <1>2, <2>1, <2>2 DEF Late
  <2>4. Cardinality(L) <= Cardinality(M) /\ Cardinality(L) \in Nat /\ Cardinality(M) \in Nat
    BY <2>2, <2>3, WorkersFinite, FS_Subset
  <2>5. n <= q + Cardinality(L)
    BY <1>3, <1>4, <2>1 DEF JobCounters, ClaimsBounded
  <2>6. n <= q + Cardinality(M)
    BY <2>4, <2>5
  <2> QED
    BY <1>3, <1>4, <2>2, <2>6 DEF ClaimsBounded
<1>13. (FirstWorkerStays(t))'
  BY <1>3, <1>4 DEF FirstWorkerStays, JobCounters
<1> QED
  BY <1>5, <1>6, <1>7, <1>8, <1>11, <1>12, <1>13 DEF JobCounters

(* The step of a worker on the job of t leaves the other workers alone.    *)
LEMMA OthersStay ==
  ASSUME TypeOK, NEW w \in Workers, NEW t \in Tickets, Worker(w), NEW v \in Workers, v # w
  PROVE  /\ \A k \in Nat : (Working(v, t, k))' <=> Working(v, t, k)
         /\ \A k \in Nat : (Executing(v, t, k))' <=> Executing(v, t, k)
         /\ (Leaving(v, t))' <=> Leaving(v, t)
<1>1. hand'[v] = hand[v] /\ wpc'[v] = wpc[v]
  BY WorkerFrame
<1> QED
  BY <1>1, ClaimsStay DEF SameHand

(* A worker does not change which call a work_t is for.                    *)
LEMMA JobStays ==
  ASSUME TypeOK, CallsDiffer, NEW w \in Workers, NEW t \in Tickets, CallOf(t) # 0, Worker(w)
  PROVE  (CallOf(t))' = CallOf(t) /\ (Request(t))' = Request(t) /\ (Ranges(t))' = Ranges(t)
<1>1. calls' = calls /\ (CallOf(t))' = CallOf(t)
  BY WorkerFrame
<1>2. (Request(t))' = Request(t)
  BY <1>1 DEF Request
<1> QED
  BY <1>1, <1>2 DEF Ranges

(* What a claim does.                                                      *)
LEMMA ClaimIs ==
  ASSUME TypeOK, CallsDiffer, NEW w \in Workers, NEW t \in Tickets, CallOf(t) # 0,
         hand[w].ticket = t, Claim(w)
  PROVE  /\ wpc[w] = "claim" /\ hand'[w].ticket = t /\ hand'[w].k = work[t].next
         /\ work'[t].next = work[t].next + 1 /\ work'[t].todo = work[t].todo
         /\ work'[t].ref = work[t].ref /\ ran' = ran
         /\ work[t].next < Ranges(t) => wpc'[w] = "execute"
         /\ work[t].next >= Ranges(t) => wpc'[w] = "unref"
<1>1. PICK n \in Nat : n = work[t].next
  BY JobParts
<1>2. PICK q \in Nat : q = Ranges(t)
  BY JobParts
<1>3. Job(w).next = n /\ Req(w) = Request(t)
  BY <1>1 DEF Job, Req, Request, CallOf
<1>4. WorkBegin(n, Req(w)) < WorkEnd(n, Req(w)) <=> n < q
  BY <1>2, <1>3, JobParts, RangeOf DEF Ranges
<1>5. wpc[w] = "claim" /\ hand' = [hand EXCEPT ![w].k = n] /\ ran' = ran
  BY <1>3 DEF Claim
<1>6. wpc' = [wpc EXCEPT ![w] = IF n < q THEN "execute" ELSE "unref"]
  BY <1>3, <1>4 DEF Claim, Goto
<1>7. wpc'[w] = IF n < q THEN "execute" ELSE "unref"
  BY <1>6, TypeParts
<1>8. hand'[w].ticket = t /\ hand'[w].k = n
  BY <1>5, StateParts
<1>9. work'[t] = [call |-> work[t].call, next |-> work[t].next + 1,
                  todo |-> work[t].todo, ref |-> work[t].ref]
  BY Counting
<1> QED
  BY <1>1, <1>2, <1>5, <1>7, <1>8, <1>9

(* A claim takes the next range, if there is one, or begins the farewell.  *)
LEMMA ClaimCounts ==
  ASSUME TypeOK, CallsDiffer, NEW w \in Workers, NEW t \in Tickets, CallOf(t) # 0,
         hand[w].ticket = t, Claim(w), JobCounters(t),
         \A v \in Workers : (Holds(v, t))' <=> Holds(v, t)
  PROVE  (JobCounters(t))'
<1>1. PICK n \in Nat : n = work[t].next
  BY JobParts
<1>2. PICK q \in Nat : q = Ranges(t) /\ q = (Ranges(t))'
  BY JobParts, JobStays DEF Worker
<1>3. /\ wpc[w] = "claim" /\ hand'[w].ticket = t /\ hand'[w].k = n
      /\ work'[t].next = n + 1 /\ work'[t].todo = work[t].todo
      /\ work'[t].ref = work[t].ref /\ ran' = ran
      /\ n < q => wpc'[w] = "execute"
      /\ n >= q => wpc'[w] = "unref"
  BY <1>1, <1>2, ClaimIs
<1>4. /\ \A k \in Nat : ~Working(w, t, k) /\ ((Working(w, t, k))' <=> k = n /\ n < q)
      /\ \A k \in Nat : ~Executing(w, t, k) /\ ((Executing(w, t, k))' <=> k = n /\ n < q)
      /\ ~Leaving(w, t) /\ ((Leaving(w, t))' <=> n >= q)
  BY <1>3 DEF Working, Executing, Leaving
<1>5. \A v \in Workers : v # w =>
        /\ \A k \in Nat : (Working(v, t, k))' <=> Working(v, t, k)
        /\ \A k \in Nat : (Executing(v, t, k))' <=> Executing(v, t, k)
        /\ (Leaving(v, t))' <=> Leaving(v, t)
  BY OthersStay DEF Worker
<1>6. \A v \in Workers : /\ \A k \in Nat : Working(v, t, k) => k < n /\ k < q
                         /\ Leaving(v, t) => n >= q
  BY <1>1, <1>2 DEF JobCounters, ClaimsInRange
<1>7. (ClaimsInRange(t))'
  <2>1. \A v \in Workers : /\ \A k \in Nat : (Working(v, t, k))' => k < n + 1 /\ k < q
                           /\ (Leaving(v, t))' => n + 1 >= q
    BY <1>4, <1>5, <1>6
  <2> QED
    BY <1>2, <1>3, <2>1 DEF ClaimsInRange
<1>8. (ClaimsDiffer(t))'
  <2>1. ClaimsDiffer(t)
    BY DEF JobCounters
  <2>2. \A v \in Workers : ~Working(v, t, n)
    BY <1>6
  <2>3. ASSUME NEW u \in Workers, NEW v \in Workers, NEW k \in Nat,
               (Working(u, t, k))', (Working(v, t, k))'
        PROVE  u = v
    <3>1. CASE u # w /\ v # w
      BY <1>5, <2>1, <2>3, <3>1 DEF ClaimsDiffer
    <3>2. CASE u = w /\ v # w
      BY <1>4, <1>5, <2>2, <2>3, <3>2
    <3>3. CASE u # w /\ v = w
      BY <1>4, <1>5, <2>2, <2>3, <3>3
    <3> QED
      BY <3>1, <3>2, <3>3
  <2> QED
    BY <2>3 DEF ClaimsDiffer
<1>9. (IterationsRun(t))'
  <2>1. \A k \in 0..(q - 1) : (Executed(t, k))' <=> Executed(t, k)
    <3> SUFFICES ASSUME NEW k \in 0..(q - 1)
                 PROVE  (Executed(t, k))' <=> Executed(t, k)
      OBVIOUS
    <3>1. CASE k = n
      <4>1. ~Executed(t, k)
        BY <1>1, <3>1 DEF Executed
      <4>2. (Executing(w, t, k))'
        BY <1>4, <3>1
      <4>3. ~(Executed(t, k))'
        BY <4>2 DEF Executed
      <4> QED
        BY <4>1, <4>3
    <3>2. CASE k # n
      <4>1. \A v \in Workers : (Executing(v, t, k))' <=> Executing(v, t, k)
        BY <1>4, <1>5, <3>2
      <4>2. k < n + 1 <=> k < n
        BY <3>2
      <4> QED
        BY <1>1, <1>3, <4>1, <4>2 DEF Executed
    <3> QED
      BY <3>1, <3>2
  <2>2. \A k \in 0..(q - 1) : \A i \in Iterations(k, Request(t)) :
          ran[CallOf(t)][i] = IF Executed(t, k) THEN 1 ELSE 0
    BY <1>2 DEF JobCounters, IterationsRun
  <2>3. (CallOf(t))' = CallOf(t) /\ (Request(t))' = Request(t)
    BY JobStays DEF Worker
  <2>4. \A k \in 0..(q - 1) : \A i \in Iterations(k, (Request(t))') :
          ran'[(CallOf(t))'][i] = IF (Executed(t, k))' THEN 1 ELSE 0
    BY <1>3, <2>1, <2>2, <2>3
  <2> QED
    BY <1>2, <2>4 DEF IterationsRun
<1>10. (TodoCounts(t))'
  <2>1. \A k \in Nat : k < q /\ k < n + 1 /\ (\A v \in Workers : ~(Working(v, t, k))')
                         <=> k < q /\ k < n /\ (\A v \in Workers : ~Working(v, t, k))
    <3> SUFFICES ASSUME NEW k \in Nat, k < q
                 PROVE  k < n + 1 /\ (\A v \in Workers : ~(Working(v, t, k))')
                          <=> k < n /\ (\A v \in Workers : ~Working(v, t, k))
      OBVIOUS
    <3>1. CASE k = n
      BY <1>4, <3>1
    <3>2. CASE k # n
      <4>1. \A v \in Workers : (Working(v, t, k))' <=> Working(v, t, k)
        BY <1>4, <1>5, <3>2
      <4>2. k < n + 1 <=> k < n
        BY <3>2
      <4> QED
        BY <4>1, <4>2
    <3> QED
      BY <3>1, <3>2
  <2>2. (CountedOf(t))' = CountedOf(t)
    BY <1>1, <1>2, <1>3, <2>1 DEF CountedOf
  <2> QED
    BY <1>2, <1>3, <2>2 DEF TodoCounts, JobCounters
<1>11. (HoldersOf(t))' = HoldersOf(t)
  BY DEF HoldersOf
<1>12. (RefCounts(t))'
  <2>1. Quitting' = Quitting
    BY WorkerFrame DEF Worker, Quitting
  <2>2. RefCounts(t)
    BY DEF JobCounters
  <2>3. work[t].ref < NumWorkers => n + 1 >= q
    BY <1>1, <1>2, <2>2 DEF RefCounts
  <2> QED
    BY <1>2, <1>3, <1>11, <2>1, <2>2, <2>3 DEF RefCounts
<1>13. (ClaimsBounded(t))'
  <2>1. PICK L \in SUBSET Workers : L = Late(t)
    BY DEF Late
  <2>2. PICK M \in SUBSET Workers : M = (Late(t))'
    BY DEF Late
  <2>3. IsFiniteSet(L) /\ IsFiniteSet(M) /\ Cardinality(L) \in Nat /\ Cardinality(M) \in Nat
    BY WorkersFinite
  <2>4. n <= q + Cardinality(L)
    BY <1>1, <1>2, <2>1 DEF JobCounters, ClaimsBounded
  <2>5. n + 1 <= q + Cardinality(M)
    <3>1. CASE n < q
      BY <2>3, <3>1
    <3>2. CASE n >= q
      <4>1. w \notin L
        BY <1>4, <2>1 DEF Late, Holds
      <4>2. M = L \cup {w}
        BY <1>4, <1>5, <2>1, <2>2, <3>2 DEF Late
      <4>3. Cardinality(M) = Cardinality(L) + 1
        BY <2>3, <4>1, <4>2, FS_AddElement
      <4> QED
        BY <2>3, <2>4, <4>3
    <3> QED
      BY <3>1, <3>2
  <2> QED
    BY <1>2, <1>3, <2>2, <2>5 DEF ClaimsBounded
<1>14. (FirstWorkerStays(t))'
  <2>1. ~Holds(0, t) => n >= q
    BY <1>1, <1>2 DEF FirstWorkerStays, JobCounters
  <2>2. ~(Holds(0, t))' => n + 1 >= q
    BY <2>1, Sizes
  <2> QED
    BY <1>2, <1>3, <2>2 DEF FirstWorkerStays
<1> QED
  BY <1>7, <1>8, <1>9, <1>10, <1>12, <1>13, <1>14 DEF JobCounters

(* What running a range does.                                              *)
LEMMA ExecuteIs ==
  ASSUME TypeOK, RanTyped, CallsDiffer, NEW w \in Workers, NEW t \in Tickets, CallOf(t) # 0,
         hand[w].ticket = t, Execute(w)
  PROVE  /\ wpc[w] = "execute" /\ wpc'[w] = "count" /\ hand' = hand /\ work' = work
         /\ ran' = [c \in Calls |-> ran'[c]]
         /\ \A d \in Calls : d # CallOf(t) => ran'[d] = ran[d]
         /\ ran'[CallOf(t)] = [i \in 0..(Request(t).total - 1) |->
              IF i \in Iterations(hand[w].k, Request(t))
                THEN ran[CallOf(t)][i] + 1 ELSE ran[CallOf(t)][i]]
<1>1. PICK c \in Made : c = CallOf(t) /\ c \in Calls /\ calls[c] = Request(t)
  <2>1. CallOf(t) \in Made
    BY JobParts
  <2>2. Made \subseteq Calls
    BY StateParts DEF Made, Calls
  <2> QED
    BY <2>1, <2>2 DEF Request
<1>2. Job(w).call = c /\ Req(w) = Request(t)
  BY <1>1 DEF Job, Req, CallOf
<1>3. /\ wpc[w] = "execute" /\ hand' = hand /\ work' = work
      /\ ran' = [ran EXCEPT ![c] = [i \in DOMAIN @ |->
                   IF i \in Iterations(hand[w].k, Request(t)) THEN @[i] + 1 ELSE @[i]]]
  BY <1>2 DEF Execute
<1>4. wpc'[w] = "count"
  BY TypeParts DEF Execute, Goto
<1>5. ran = [d \in Calls |-> ran[d]] /\ DOMAIN ran[c] = 0..(Request(t).total - 1)
  BY <1>1 DEF RanTyped
<1>6. DOMAIN ran = Calls
  BY <1>5
<1>7. ran' = [d \in Calls |-> ran'[d]] /\ \A d \in Calls : d # c => ran'[d] = ran[d]
  BY <1>3, <1>6
<1>8. ran'[c] = [i \in DOMAIN ran[c] |->
                   IF i \in Iterations(hand[w].k, Request(t)) THEN ran[c][i] + 1 ELSE ran[c][i]]
  BY <1>1, <1>3, <1>6
<1> QED
  BY <1>1, <1>3, <1>4, <1>5, <1>7, <1>8

(* Nobody has run the range a worker is about to execute.                  *)
LEMMA RangeFresh ==
  ASSUME TypeOK, CallsDiffer, NEW w \in Workers, NEW t \in Tickets, CallOf(t) # 0,
         hand[w].ticket = t, wpc[w] = "execute", JobCounters(t)
  PROVE  /\ hand[w].k \in Nat /\ hand[w].k < work[t].next /\ hand[w].k < Ranges(t)
         /\ \A i \in Iterations(hand[w].k, Request(t)) : ran[CallOf(t)][i] = 0
<1>1. PICK k \in Nat : k = hand[w].k
  BY StateParts
<1>2. Working(w, t, k) /\ Executing(w, t, k)
  BY <1>1 DEF Working, Executing
<1>3. k < work[t].next /\ k < Ranges(t)
  BY <1>2 DEF JobCounters, ClaimsInRange
<1>4. ~Executed(t, k)
  BY <1>2 DEF Executed
<1>5. k \in 0..(Ranges(t) - 1)
  BY <1>3, JobParts
<1>6. \A i \in Iterations(k, Request(t)) : ran[CallOf(t)][i] = 0
  BY <1>4, <1>5 DEF JobCounters, IterationsRun
<1> QED
  BY <1>1, <1>3, <1>6

(* Running the range it has claimed, a worker keeps the counters right:    *)
(* the range was claimed by nobody else.                                   *)
LEMMA ExecuteCounts ==
  ASSUME TypeOK, RanTyped, CallsDiffer, NEW w \in Workers, NEW t \in Tickets, CallOf(t) # 0,
         hand[w].ticket = t, Execute(w), JobCounters(t),
         \A v \in Workers : (Holds(v, t))' <=> Holds(v, t)
  PROVE  (JobCounters(t))'
<1>1. PICK n \in Nat : n = work[t].next /\ n = work'[t].next
  BY JobParts, ExecuteIs
<1>2. PICK q \in Nat : q = Ranges(t) /\ q = (Ranges(t))'
  BY JobParts, JobStays DEF Worker
<1>3. PICK k \in Nat : k = hand[w].k /\ k < n /\ k < q
  <2>1. wpc[w] = "execute"
    BY DEF Execute
  <2>2. hand[w].k \in Nat /\ hand[w].k < work[t].next /\ hand[w].k < Ranges(t)
    BY <2>1, RangeFresh
  <2> QED
    BY <1>1, <1>2, <2>2
<1>4. /\ wpc[w] = "execute" /\ wpc'[w] = "count" /\ hand'[w].ticket = t /\ hand'[w].k = k
      /\ work'[t] = work[t]
  BY <1>3, ExecuteIs
<1>5. /\ \A j \in Nat : (Working(w, t, j) <=> j = k) /\ ((Working(w, t, j))' <=> j = k)
      /\ \A j \in Nat : (Executing(w, t, j) <=> j = k) /\ ~(Executing(w, t, j))'
      /\ ~Leaving(w, t) /\ ~(Leaving(w, t))'
  BY <1>3, <1>4 DEF Working, Executing, Leaving
<1>6. \A v \in Workers : v # w =>
        /\ \A j \in Nat : (Working(v, t, j))' <=> Working(v, t, j)
        /\ \A j \in Nat : (Executing(v, t, j))' <=> Executing(v, t, j)
        /\ (Leaving(v, t))' <=> Leaving(v, t)
  BY OthersStay DEF Worker
<1>7. \A v \in Workers : /\ \A j \in Nat : (Working(v, t, j))' <=> Working(v, t, j)
                         /\ (Leaving(v, t))' <=> Leaving(v, t)
  BY <1>5, <1>6
<1>8. (ClaimsInRange(t))'
  <2>1. ClaimsInRange(t)
    BY DEF JobCounters
  <2>2. \A v \in Workers : /\ \A j \in Nat : Working(v, t, j) => j < n /\ j < q
                           /\ Leaving(v, t) => n >= q
    BY <1>1, <1>2, <2>1 DEF ClaimsInRange
  <2> QED
    BY <1>1, <1>2, <1>7, <2>2 DEF ClaimsInRange
<1>9. (ClaimsDiffer(t))'
  BY <1>7 DEF ClaimsDiffer, JobCounters
<1>10. (IterationsRun(t))'
  <2>1. PICK c : c = CallOf(t)
    OBVIOUS
  <2>2. (CallOf(t))' = c /\ (Request(t))' = Request(t)
    BY <2>1, JobStays DEF Worker
  <2>3. PICK r \in Requests : r = Request(t)
    BY JobParts
  <2>4. \A j \in Nat : \A i \in Iterations(j, r) :
          ran'[c][i] = IF i \in Iterations(k, r) THEN ran[c][i] + 1 ELSE ran[c][i]
    <3>1. \A j \in Nat : \A i \in Iterations(j, r) : i \in 0..(r.total - 1)
      BY DEF Iterations
    <3>2. ran'[c] = [i \in 0..(r.total - 1) |->
                       IF i \in Iterations(k, r) THEN ran[c][i] + 1 ELSE ran[c][i]]
      BY <1>3, <2>1, <2>3, ExecuteIs
    <3> QED
      BY <3>1, <3>2
  <2>5. \A j \in 0..(q - 1) : \A i \in Iterations(j, r) :
          ran[c][i] = IF Executed(t, j) THEN 1 ELSE 0
    BY <1>2, <2>1, <2>3 DEF JobCounters, IterationsRun
  <2>6. ASSUME NEW j \in 0..(q - 1), NEW i \in Iterations(j, r)
        PROVE  ran'[c][i] = IF (Executed(t, j))' THEN 1 ELSE 0
    <3>1. CASE j = k
      <4>1. ran[c][i] = 0
        BY <1>3, <1>4, <2>1, <2>3, <2>6, <3>1, RangeFresh
      <4>2. ran'[c][i] = 1
        BY <2>4, <2>6, <3>1, <4>1
      <4>3. ASSUME NEW v \in Workers
            PROVE  ~(Executing(v, t, k))'
        <5>1. CASE v = w
          BY <1>5, <5>1
        <5>2. CASE v # w
          <6>1. ~Working(v, t, k)
            BY <1>5, <5>2 DEF JobCounters, ClaimsDiffer
          <6>2. ~Executing(v, t, k)
            BY <6>1 DEF Working, Executing
          <6> QED
            BY <1>6, <5>2, <6>2
        <5> QED
          BY <5>1, <5>2
      <4>4. (Executed(t, k))'
        BY <1>1, <1>3, <4>3 DEF Executed
      <4> QED
        BY <3>1, <4>2, <4>4
    <3>2. CASE j # k
      <4>1. j \in Nat
        BY <1>2
      <4>2. i \notin Iterations(k, r)
        BY <2>6, <3>2, <4>1, RangesDisjoint
      <4>3. ran'[c][i] = ran[c][i]
        BY <2>4, <2>6, <4>1, <4>2
      <4>4. \A v \in Workers : (Executing(v, t, j))' <=> Executing(v, t, j)
        BY <1>5, <1>6, <3>2, <4>1
      <4>5. (Executed(t, j))' <=> Executed(t, j)
        BY <1>1, <4>4 DEF Executed
      <4> QED
        BY <2>5, <2>6, <4>3, <4>5
    <3> QED
      BY <3>1, <3>2
  <2> QED
    BY <1>2, <2>2, <2>3, <2>6 DEF IterationsRun
<1>11. (TodoCounts(t))'
  <2>1. (CountedOf(t))' = CountedOf(t)
    BY <1>1, <1>2, <1>7 DEF CountedOf
  <2> QED
    BY <1>2, <1>4, <2>1 DEF TodoCounts, JobCounters
<1>12. (RefCounts(t))'
  <2>1. Quitting' = Quitting
    BY WorkerFrame DEF Worker, Quitting
  <2>2. (HoldersOf(t))' = HoldersOf(t)
    BY DEF HoldersOf
  <2> QED
    BY <1>2, <1>4, <2>1, <2>2 DEF RefCounts, JobCounters
<1>13. (ClaimsBounded(t))'
  <2>1. (Late(t))' = Late(t)
    BY <1>7 DEF Late
  <2> QED
    BY <1>2, <1>4, <2>1 DEF ClaimsBounded, JobCounters
<1>14. (FirstWorkerStays(t))'
  <2>1. 0 \in Workers
    BY Sizes
  <2> QED
    BY <1>2, <1>4, <2>1 DEF FirstWorkerStays, JobCounters
<1> QED
  BY <1>8, <1>9, <1>10, <1>11, <1>12, <1>13, <1>14 DEF JobCounters

(* The ranges that were counted off can be counted.                        *)
LEMMA CountedFinite ==
  ASSUME TypeOK, CallsDiffer, NEW t \in Tickets, CallOf(t) # 0
  PROVE  /\ CountedOf(t) \subseteq 0..(Ranges(t) - 1) /\ IsFiniteSet(CountedOf(t))
         /\ Cardinality(CountedOf(t)) \in Nat
         /\ IsFiniteSet(0..(Ranges(t) - 1)) /\ Cardinality(0..(Ranges(t) - 1)) = Ranges(t)
<1>1. PICK q \in Nat : q = Ranges(t)
  BY JobParts
<1>2. CountedOf(t) \subseteq 0..(q - 1)
  BY <1>1 DEF CountedOf
<1>3. IsFiniteSet(0..(q - 1)) /\ Cardinality(0..(q - 1)) = q
  <2>1. IsFiniteSet(0..(q - 1))
    BY FS_Interval
  <2>2. Cardinality(0..(q - 1)) = IF 0 > q - 1 THEN 0 ELSE (q - 1) - 0 + 1
    BY FS_Interval
  <2> QED
    BY <2>1, <2>2
<1>4. IsFiniteSet(CountedOf(t)) /\ Cardinality(CountedOf(t)) \in Nat
  BY <1>2, <1>3, FS_Subset, FS_CardinalityType
<1> QED
  BY <1>1, <1>2, <1>3, <1>4

(* A range is counted off once, after it was executed.                     *)
LEMMA CountDoneCounts ==
  ASSUME TypeOK, CallsDiffer, NEW w \in Workers, NEW t \in Tickets, CallOf(t) # 0,
         hand[w].ticket = t, CountDone(w), JobCounters(t),
         \A v \in Workers : (Holds(v, t))' <=> Holds(v, t)
  PROVE  (JobCounters(t))'
<1>1. PICK n \in Nat : n = work[t].next
  BY JobParts
<1>2. PICK q \in Nat : q = Ranges(t) /\ q = (Ranges(t))'
  BY JobParts, JobStays DEF Worker
<1>3. /\ work'[t].next = n /\ work'[t].todo = work[t].todo - 1 /\ work'[t].ref = work[t].ref
      /\ wpc[w] = "count" /\ hand' = hand /\ ran' = ran
  <2>1. work'[t] = [call |-> work[t].call, next |-> work[t].next,
                    todo |-> work[t].todo - 1, ref |-> work[t].ref]
    BY Counting
  <2> QED
    BY <1>1, <2>1 DEF CountDone
<1>4. wpc'[w] = "claim"
  BY TypeParts DEF CountDone, Goto
<1>5. PICK k \in Nat : k = hand[w].k
  BY StateParts
<1>6. /\ \A j \in Nat : (Working(w, t, j) <=> j = k) /\ ~(Working(w, t, j))'
      /\ \A j \in Nat : ~Executing(w, t, j) /\ ~(Executing(w, t, j))'
      /\ ~Leaving(w, t) /\ ~(Leaving(w, t))'
  BY <1>3, <1>4, <1>5 DEF Working, Executing, Leaving
<1>7. \A v \in Workers : v # w =>
        /\ \A j \in Nat : (Working(v, t, j))' <=> Working(v, t, j)
        /\ \A j \in Nat : (Executing(v, t, j))' <=> Executing(v, t, j)
        /\ (Leaving(v, t))' <=> Leaving(v, t)
  BY OthersStay DEF Worker
<1>8. \A v \in Workers : /\ \A j \in Nat : (Working(v, t, j))' => Working(v, t, j)
                         /\ \A j \in Nat : (Executing(v, t, j))' <=> Executing(v, t, j)
                         /\ (Leaving(v, t))' <=> Leaving(v, t)
  BY <1>6, <1>7
<1>9. \A v \in Workers : /\ \A j \in Nat : Working(v, t, j) => j < n /\ j < q
                         /\ Leaving(v, t) => n >= q
  BY <1>1, <1>2 DEF JobCounters, ClaimsInRange
<1>10. (ClaimsInRange(t))'
  BY <1>2, <1>3, <1>8, <1>9 DEF ClaimsInRange
<1>11. (ClaimsDiffer(t))'
  BY <1>8 DEF ClaimsDiffer, JobCounters
<1>12. (CallOf(t))' = CallOf(t) /\ (Request(t))' = Request(t)
  BY JobStays DEF Worker
<1>13. (IterationsRun(t))'
  <2>1. \A j \in Nat : (Executed(t, j))' <=> Executed(t, j)
    BY <1>1, <1>3, <1>8 DEF Executed
  <2>2. \A j \in 0..(q - 1) : \A i \in Iterations(j, Request(t)) :
          ran[CallOf(t)][i] = IF Executed(t, j) THEN 1 ELSE 0
    BY <1>2 DEF JobCounters, IterationsRun
  <2>3. \A j \in 0..(q - 1) : \A i \in Iterations(j, (Request(t))') :
          ran'[(CallOf(t))'][i] = IF (Executed(t, j))' THEN 1 ELSE 0
    BY <1>3, <1>12, <2>1, <2>2
  <2> QED
    BY <1>2, <2>3 DEF IterationsRun
<1>14. (TodoCounts(t))'
  <2>1. PICK C : C = CountedOf(t) /\ IsFiniteSet(C) /\ Cardinality(C) \in Nat
    BY CountedFinite
  <2>2. k \notin C
    <3>1. Working(w, t, k)
      BY <1>6
    <3> QED
      BY <2>1, <3>1 DEF CountedOf
  <2>3. k < n /\ k < q
    BY <1>6, <1>9
  <2>4. ClaimsDiffer(t)
    BY DEF JobCounters
  <2>5. \A v \in Workers : v # w => ~Working(v, t, k)
    BY <1>6, <2>4 DEF ClaimsDiffer
  <2>6. \A j \in Nat : (\A v \in Workers : ~(Working(v, t, j))')
                         <=> j = k \/ \A v \in Workers : ~Working(v, t, j)
    <3> SUFFICES ASSUME NEW j \in Nat
                 PROVE  (\A v \in Workers : ~(Working(v, t, j))')
                          <=> j = k \/ \A v \in Workers : ~Working(v, t, j)
      OBVIOUS
    <3>1. CASE j = k
      <4>1. \A v \in Workers : ~(Working(v, t, j))'
        BY <1>6, <1>7, <2>5, <3>1
      <4> QED
        BY <3>1, <4>1
    <3>2. CASE j # k
      BY <1>6, <1>7, <3>2
    <3> QED
      BY <3>1, <3>2
  <2>7. (CountedOf(t))' = C \cup {k}
    BY <1>1, <1>2, <1>3, <2>1, <2>3, <2>6 DEF CountedOf
  <2>8. Cardinality((CountedOf(t))') = Cardinality(C) + 1
    BY <2>1, <2>2, <2>7, FS_AddElement
  <2>9. PICK d \in Int : d = work[t].todo
    BY StateParts
  <2>10. d = q - Cardinality(C)
    BY <1>2, <2>1, <2>9 DEF JobCounters, TodoCounts
  <2>11. d - 1 = q - (Cardinality(C) + 1)
    BY <2>1, <2>10
  <2> QED
    BY <1>2, <1>3, <2>8, <2>9, <2>11 DEF TodoCounts
<1>15. (RefCounts(t))'
  <2>1. Quitting' = Quitting
    BY WorkerFrame DEF Worker, Quitting
  <2>2. (HoldersOf(t))' = HoldersOf(t)
    BY DEF HoldersOf
  <2>3. RefCounts(t)
    BY DEF JobCounters
  <2> QED
    BY <1>1, <1>2, <1>3, <2>1, <2>2, <2>3 DEF RefCounts
<1>16. (ClaimsBounded(t))'
  <2>1. (Late(t))' = Late(t)
    BY <1>8 DEF Late
  <2>2. ClaimsBounded(t)
    BY DEF JobCounters
  <2> QED
    BY <1>1, <1>2, <1>3, <2>1, <2>2 DEF ClaimsBounded
<1>17. (FirstWorkerStays(t))'
  <2>1. FirstWorkerStays(t) /\ 0 \in Workers
    BY Sizes DEF JobCounters
  <2> QED
    BY <1>1, <1>2, <1>3, <2>1 DEF FirstWorkerStays
<1> QED
  BY <1>10, <1>11, <1>13, <1>14, <1>15, <1>16, <1>17 DEF JobCounters

(* A worker that leaves a job gives up its reference and holds the job no  *)
(* longer.                                                                 *)
LEMMA UnrefCounts ==
  ASSUME TypeOK, CallsDiffer, NEW w \in Workers, NEW t \in Tickets, CallOf(t) # 0,
         hand[w].ticket = t, Unref(w), JobCounters(t),
         ~(Holds(w, t))', \A v \in Workers : v # w => ((Holds(v, t))' <=> Holds(v, t))
  PROVE  (JobCounters(t))'
<1>1. PICK n \in Nat : n = work[t].next
  BY JobParts
<1>2. PICK q \in Nat : q = Ranges(t) /\ q = (Ranges(t))'
  BY JobParts, JobStays DEF Worker
<1>3. /\ work'[t].next = n /\ work'[t].todo = work[t].todo /\ work'[t].ref = work[t].ref - 1
      /\ wpc[w] = "unref" /\ ran' = ran
  <2>1. work'[t] = [call |-> work[t].call, next |-> work[t].next,
                    todo |-> work[t].todo, ref |-> work[t].ref - 1]
    BY Counting
  <2> QED
    BY <1>1, <2>1 DEF Unref
<1>4. wpc'[w] = "fetch"
  BY TypeParts DEF Unref, Goto, AfterUnref
<1>5. /\ \A j \in Nat : ~Working(w, t, j) /\ ~(Working(w, t, j))'
      /\ \A j \in Nat : ~Executing(w, t, j) /\ ~(Executing(w, t, j))'
      /\ Leaving(w, t) /\ ~(Leaving(w, t))'
  BY <1>3, <1>4 DEF Working, Executing, Leaving
<1>6. \A v \in Workers : v # w =>
        /\ \A j \in Nat : (Working(v, t, j))' <=> Working(v, t, j)
        /\ \A j \in Nat : (Executing(v, t, j))' <=> Executing(v, t, j)
        /\ (Leaving(v, t))' <=> Leaving(v, t)
  BY OthersStay DEF Worker
<1>7. \A v \in Workers : /\ \A j \in Nat : (Working(v, t, j))' <=> Working(v, t, j)
                         /\ \A j \in Nat : (Executing(v, t, j))' <=> Executing(v, t, j)
                         /\ (Leaving(v, t))' => Leaving(v, t)
  BY <1>5, <1>6
<1>8. \A v \in Workers : /\ \A j \in Nat : Working(v, t, j) => j < n /\ j < q
                         /\ Leaving(v, t) => n >= q
  BY <1>1, <1>2 DEF JobCounters, ClaimsInRange
<1>9. n >= q
  BY <1>5, <1>8
<1>10. (ClaimsInRange(t))'
  BY <1>2, <1>3, <1>7, <1>8 DEF ClaimsInRange
<1>11. (ClaimsDiffer(t))'
  BY <1>7 DEF ClaimsDiffer, JobCounters
<1>12. (IterationsRun(t))'
  <2>1. \A j \in Nat : (Executed(t, j))' <=> Executed(t, j)
    BY <1>1, <1>3, <1>7 DEF Executed
  <2>2. \A j \in 0..(q - 1) : \A i \in Iterations(j, Request(t)) :
          ran[CallOf(t)][i] = IF Executed(t, j) THEN 1 ELSE 0
    BY <1>2 DEF JobCounters, IterationsRun
  <2>3. (CallOf(t))' = CallOf(t) /\ (Request(t))' = Request(t)
    BY JobStays DEF Worker
  <2>4. \A j \in 0..(q - 1) : \A i \in Iterations(j, (Request(t))') :
          ran'[(CallOf(t))'][i] = IF (Executed(t, j))' THEN 1 ELSE 0
    BY <1>3, <2>1, <2>2, <2>3
  <2> QED
    BY <1>2, <2>4 DEF IterationsRun
<1>13. (TodoCounts(t))'
  <2>1. (CountedOf(t))' = CountedOf(t)
    BY <1>1, <1>2, <1>3, <1>7 DEF CountedOf
  <2> QED
    BY <1>2, <1>3, <2>1 DEF TodoCounts, JobCounters
<1>14. (RefCounts(t))'
  <2>1. Quitting' = Quitting
    BY WorkerFrame DEF Worker, Quitting
  <2>2. PICK H \in SUBSET Workers : H = HoldersOf(t)
    BY DEF HoldersOf
  <2>3. PICK G \in SUBSET Workers : G = (HoldersOf(t))'
    BY DEF HoldersOf
  <2>4. w \in H
    BY <2>2 DEF HoldersOf, Holds
  <2>5. G = H \ {w}
    BY <2>2, <2>3 DEF HoldersOf
  <2>6. IsFiniteSet(H) /\ Cardinality(H) \in Nat /\ Cardinality(G) \in Nat
    BY WorkersFinite
  <2>7. Cardinality(G) = Cardinality(H) - 1
    BY <2>4, <2>5, <2>6, FS_RemoveElement
  <2>8. PICK r \in Int : r = work[t].ref
    BY StateParts
  <2>9. r >= Cardinality(H) /\ (r > Cardinality(H) => Quitting)
    BY <2>2, <2>8 DEF JobCounters, RefCounts
  <2>10. r - 1 >= Cardinality(G) /\ (r - 1 > Cardinality(G) => Quitting)
    BY <2>6, <2>7, <2>9
  <2> QED
    BY <1>2, <1>3, <1>9, <2>1, <2>3, <2>8, <2>10 DEF RefCounts
<1>15. (ClaimsBounded(t))'
  <2>1. (Late(t))' = Late(t)
    BY <1>5, <1>6 DEF Late
  <2>2. ClaimsBounded(t)
    BY DEF JobCounters
  <2> QED
    BY <1>1, <1>2, <1>3, <2>1, <2>2 DEF ClaimsBounded
<1>16. (FirstWorkerStays(t))'
  BY <1>2, <1>3, <1>9 DEF FirstWorkerStays
<1> QED
  BY <1>10, <1>11, <1>12, <1>13, <1>14, <1>15, <1>16 DEF JobCounters

------------------------------------------------------------------------------
(* Who holds a job.                                                        *)

(* A worker whose queue and hand stay as they are holds the same jobs.     *)
LEMMA HoldsStays ==
  ASSUME NEW w \in Workers, NEW t \in Tickets,
         boxes'[w] = boxes[w], ring'[w] = ring[w], batch'[w] = batch[w],
         wpc'[w] \in Outside <=> wpc[w] \in Outside,
         hand'[w].ticket = t <=> hand[w].ticket = t,
         (Announced(w, t))' <=> Announced(w, t)
  PROVE  (Holds(w, t))' <=> Holds(w, t)
<1>1. (InLine(w))' = InLine(w) /\ (Line(w))' = Line(w)
  BY SameParts
<1>2. (Queued(w, t))' <=> Queued(w, t)
  BY <1>1 DEF Queued
<1> QED
  BY <1>2 DEF Holds

(* A post puts the announced ticket into the line.                         *)
LEMMA PostHolds ==
  ASSUME FewCalls, TypeOK, Phases, Lines, NEW t \in Tickets, NEW w \in Workers, w = sj, Post
  PROVE  (Holds(w, t))' <=> Holds(w, t)
<1>1. OwnBoxes /\ RingPlace /\ QuitPlace(w)
  BY DEF Lines
<1>2. PICK q \in Nat, f \in Nat, e \in Nat :
        /\ f = First(w) /\ e = Length(w) /\ f <= q /\ q <= e
        /\ \A i \in 0..(q - 1) : (Line(w))'[i] = Line(w)[i]
        /\ (Line(w))'[q] = ticket
        /\ \A i \in (q + 1)..e : (Line(w))'[i] = Line(w)[i - 1]
        /\ (First(w))' = f /\ (Length(w))' = e + 1
  <2>1. First(w) \in Nat /\ Length(w) \in Nat
    BY <1>1, LineParts
  <2> QED
    BY <1>1, <2>1, PostLine
<1>3. PICK L, M : L = Line(w) /\ M = (Line(w))'
  OBVIOUS
<1>4. InLine(w) = f..(e - 1) /\ (InLine(w))' = f..e
  <2>1. (InLine(w))' = f..((e + 1) - 1)
    BY <1>2 DEF InLine
  <2> QED
    BY <1>2, <2>1 DEF InLine
<1>5. /\ \A i \in 0..(q - 1) : M[i] = L[i]
      /\ M[q] = ticket
      /\ \A i \in (q + 1)..e : M[i] = L[i - 1]
  BY <1>2, <1>3
<1>6. hand' = hand /\ ticket' = ticket /\ spc = "post"
  BY DEF Post
<1>7. CASE ticket = t
  <2>1. Announced(w, t)
    BY <1>6, <1>7, Sizes DEF Announced
  <2>2. (Queued(w, t))'
    <3>1. q \in f..e
      BY <1>2
    <3>2. q \in (InLine(w))' /\ (Line(w))'[q] = t
      BY <1>3, <1>4, <1>5, <1>7, <3>1
    <3> QED
      BY <3>2 DEF Queued
  <2> QED
    BY <2>1, <2>2 DEF Holds
<1>8. CASE ticket # t
  <2>1. ~Announced(w, t) /\ ~(Announced(w, t))'
    BY <1>6, <1>8 DEF Announced
  <2>2. ASSUME NEW i \in f..(e - 1), L[i] = t
        PROVE  \E j \in f..e : M[j] = t
    <3>1. CASE i < q
      <4>1. i \in 0..(q - 1) /\ i \in f..e
        BY <3>1
      <4> QED
        BY <1>5, <2>2, <4>1
    <3>2. CASE ~(i < q)
      <4>1. i + 1 \in (q + 1)..e /\ i + 1 \in f..e /\ (i + 1) - 1 = i
        BY <1>2, <3>2
      <4> QED
        BY <1>5, <2>2, <4>1
    <3> QED
      BY <3>1, <3>2
  <2>3. ASSUME NEW i \in f..e, M[i] = t
        PROVE  \E j \in f..(e - 1) : L[j] = t
    <3>1. i # q
      BY <1>5, <1>8, <2>3
    <3>2. CASE i < q
      <4>1. i \in 0..(q - 1) /\ i \in f..(e - 1)
        BY <1>2, <3>2
      <4> QED
        BY <1>5, <2>3, <4>1
    <3>3. CASE ~(i < q)
      <4>1. i \in (q + 1)..e /\ i - 1 \in f..(e - 1)
        BY <1>2, <3>1, <3>3
      <4> QED
        BY <1>5, <2>3, <4>1
    <3> QED
      BY <3>2, <3>3
  <2>4. (Queued(w, t))' <=> Queued(w, t)
    <3>1. Queued(w, t) <=> \E i \in f..(e - 1) : L[i] = t
      BY <1>3, <1>4 DEF Queued
    <3>2. (Queued(w, t))' <=> \E i \in f..e : M[i] = t
      BY <1>3, <1>4 DEF Queued
    <3> QED
      BY <2>2, <2>3, <3>1, <3>2
  <2> QED
    BY <1>6, <2>1, <2>4 DEF Holds
<1> QED
  BY <1>7, <1>8

(* A step of the scheduling thread changes nobody's hold on a job: who is  *)
(* posted one was counted from the call on.                                *)
LEMMA SchedulerHolds ==
  ASSUME FewCalls, TypeOK, Phases, Lines, NEW t \in Tickets, NEW v \in Workers,
         Destroy \/ Scheduler \/ Terminated
  PROVE  (Holds(v, t))' <=> Holds(v, t)
<1>1. CASE Post /\ v = sj
  BY <1>1, PostHolds
<1>2. CASE ~(Post /\ v = sj)
  <2>1. ring' = ring /\ batch' = batch /\ hand' = hand
    BY SchedulerFrame
  <2>2. boxes'[v] = boxes[v]
    <3>1. CASE Post
      <4>1. QuitPlace(sj) /\ sj \in Workers /\ OwnBoxes /\ RingPlace
        BY StateParts DEF Lines
      <4>2. PICK u \in Workers : u = sj
        BY <4>1
      <4>3. \A x \in Workers : x # u => boxes'[x] = boxes[x]
        BY <3>1, <4>1, <4>2, PostLine
      <4> QED
        BY <1>2, <3>1, <4>2, <4>3
    <3> QED
      BY <3>1, SchedulerFrame
  <2>3. wpc'[v] \in Outside <=> wpc[v] \in Outside
    <3>1. CASE SetNotify
      BY <3>1, TypeParts DEF SetNotify, Outside
    <3>2. CASE ~SetNotify
      <4>1. wpc' = wpc
        BY <3>2 DEF Destroy, Scheduler, Terminated, Post, SetRaise, SetAlready, Join, vars
      <4> QED
        BY <4>1
    <3> QED
      BY <3>1, <3>2
  <2>4. (Announced(v, t))' <=> Announced(v, t)
    <3>1. QuitWork # t /\ v \in Nat /\ sj \in Nat /\ v < NumWorkers
      BY StateParts, Sizes
    <3>2. CASE Post /\ Quitting
      BY <3>1, <3>2 DEF Post, Announced, Quitting
    <3>3. CASE Post /\ ~Quitting
      <4>1. spc = "post" /\ ticket' = ticket /\ v # sj
        BY <1>2, <3>3 DEF Post
      <4>2. \/ sj + 1 = NumWorkers /\ spc' = "set"
            \/ sj' = sj + 1 /\ spc' = "post"
        BY <3>3 DEF Post, NextWorker, LastWorker
      <4>3. sj + 1 = NumWorkers => ~(sj <= v)
        BY <3>1, <4>1
      <4>4. sj + 1 <= v <=> sj <= v
        BY <3>1, <4>1
      <4> QED
        BY <4>1, <4>2, <4>3, <4>4 DEF Announced
    <3>4. CASE Destroy
      BY <3>1, <3>4 DEF Destroy, Announced
    <3>5. CASE SetRaise \/ Join
      <4>1. spc' # "post" /\ spc # "post"
        BY <3>5 DEF SetRaise, Join, NextWorker
      <4> QED
        BY <4>1 DEF Announced
    <3>6. CASE SetAlready \/ SetNotify
      <4>1. spc # "post" /\ (Quitting \/ spc' # "post") /\ AfterSet
        BY <3>6 DEF SetAlready, SetNotify, AfterSet, NextWorker
      <4>2. Quitting => ticket' = QuitWork
        BY <4>1 DEF AfterSet, Quitting
      <4> QED
        BY <3>1, <4>1, <4>2 DEF Announced
    <3>7. CASE Terminated
      BY <3>7 DEF Terminated, vars, schedulerVars, Announced
    <3> QED
      BY <3>2, <3>3, <3>4, <3>5, <3>6, <3>7 DEF Scheduler
  <2> QED
    BY <2>1, <2>2, <2>3, <2>4, HoldsStays
<1> QED
  BY <1>1, <1>2

(* No worker changes what is about to be posted.                           *)
LEMMA AnnouncedStays ==
  ASSUME TypeOK, NEW w \in Workers, Worker(w) \/ SpuriousWake(w), NEW v \in Workers, NEW t
  PROVE  (Announced(v, t))' <=> Announced(v, t)
BY WorkerFrame DEF Announced

(* No worker changes what another one holds.                               *)
LEMMA OthersHold ==
  ASSUME TypeOK, NEW w \in Workers, Worker(w) \/ SpuriousWake(w), NEW v \in Workers, v # w,
         NEW t \in Tickets
  PROVE  (Holds(v, t))' <=> Holds(v, t)
<1>1. /\ boxes'[v] = boxes[v] /\ ring'[v] = ring[v] /\ batch'[v] = batch[v]
      /\ wpc'[v] = wpc[v] /\ hand'[v] = hand[v]
  BY WorkerFrame
<1> QED
  BY <1>1, AnnouncedStays, HoldsStays

(* A worker comes to hold no job by a step of its own, and lets go of none *)
(* unless it gives up its reference or quits.                              *)
LEMMA WorkerHolds ==
  ASSUME FewCalls, TypeOK, Lines, NEW w \in Workers, Worker(w) \/ SpuriousWake(w),
         ~Unref(w), ~(ReleaseBatch(w) /\ wpc[w] = "quit"), NEW t \in Tickets
  PROVE  (Holds(w, t))' <=> Holds(w, t)
<1>1. OwnBoxes /\ RingPlace /\ LineRises(w)
  BY DEF Lines
<1>2. (Announced(w, t))' <=> Announced(w, t)
  BY AnnouncedStays
<1>3. CASE Inspect(w)
  <2>1. (Line(w))' = Line(w) /\ (InLine(w))' = InLine(w)
    BY <1>1, <1>3, InspectLine
  <2>2. hand' = hand
    BY <1>3 DEF Inspect
  <2> QED
    BY <1>2, <2>1, <2>2 DEF Holds, Queued
<1>4. CASE Fetch(w)
  <2>1. PICK x, f, L, I : x = Line(w)[First(w)] /\ f = First(w) /\ L = Line(w) /\ I = InLine(w)
    OBVIOUS
  <2>0. Line(w)[First(w)] # QuitWork => hand'[w].ticket = Line(w)[First(w)]
    <3>1. Line(w)[First(w)] # QuitWork => hand'[w] = [ticket |-> Line(w)[First(w)], k |-> 0]
      BY <1>1, <1>4, FetchLine
    <3> QED
      BY <3>1
  <2>2. /\ f \in I /\ L[f] = x /\ (Line(w))' = L /\ (InLine(w))' = I \ {f}
        /\ x = QuitWork => hand'[w] = hand[w]
        /\ x # QuitWork => hand'[w].ticket = x
    BY <1>1, <1>4, <2>0, <2>1, FetchLine
  <2>3. QuitWork # t
    BY Sizes
  <2>4. hand[w].ticket # t
    <3>1. wpc[w] = "fetch"
      BY <1>4 DEF Fetch
    <3> QED
      BY <3>1, StateParts
  <2>5. Queued(w, t) <=> x = t \/ (Queued(w, t))'
    BY <2>1, <2>2 DEF Queued
  <2> QED
    BY <1>2, <2>2, <2>3, <2>4, <2>5 DEF Holds
<1>5. CASE ReleaseBatch(w)
  <2>1. wpc[w] = "fetch"
    BY <1>5 DEF ReleaseBatch
  <2>2. (Line(w))' = Line(w) /\ (InLine(w))' = InLine(w) /\ hand' = hand
    BY <1>1, <1>5, <2>1, ReleaseLine
  <2> QED
    BY <1>2, <2>2 DEF Holds, Queued
<1>6. CASE \/ WaitCheck(w) \/ WaitBlock(w) \/ SpuriousWake(w) \/ WaitReset(w)
           \/ Claim(w) \/ Execute(w) \/ CountDone(w)
  <2>1. boxes' = boxes /\ ring' = ring /\ batch' = batch
    BY <1>6 DEF WaitCheck, WaitBlock, SpuriousWake, WaitReset, Claim, Execute, CountDone, queueVars
  <2>2. wpc'[w] \in Outside <=> wpc[w] \in Outside
    <3>1. CASE WaitCheck(w) \/ WaitBlock(w) \/ SpuriousWake(w) \/ WaitReset(w)
      BY <3>1, TypeParts DEF WaitCheck, WaitBlock, SpuriousWake, WaitReset, Goto, Outside
    <3>2. CASE Claim(w)
      <4>1. wpc[w] = "claim" /\ \E pc \in {"execute", "unref"} : wpc' = [wpc EXCEPT ![w] = pc]
        BY <3>2 DEF Claim, Goto
      <4> QED
        BY <4>1, TypeParts DEF Outside
    <3>3. CASE Execute(w) \/ CountDone(w)
      BY <3>3, TypeParts DEF Execute, CountDone, Goto, Outside
    <3> QED
      BY <1>6, <3>1, <3>2, <3>3
  <2>3. hand'[w].ticket = hand[w].ticket
    <3>1. CASE WaitCheck(w) \/ WaitBlock(w) \/ SpuriousWake(w) \/ WaitReset(w) \/ Execute(w) \/ CountDone(w)
      BY <3>1 DEF WaitCheck, WaitBlock, SpuriousWake, WaitReset, Execute, CountDone
    <3>2. CASE Claim(w)
      <4>1. hand[w] \in [ticket : Tickets \cup {NoWork}, k : Nat] /\ DOMAIN hand = Workers
        BY StateParts
      <4>2. hand'[w] = [hand[w] EXCEPT !.k = Job(w).next]
        BY <3>2, <4>1 DEF Claim
      <4> QED
        BY <4>1, <4>2
    <3> QED
      BY <1>6, <3>1, <3>2
  <2> QED
    BY <1>2, <2>1, <2>2, <2>3, HoldsStays
<1> QED
  BY <1>3, <1>4, <1>5, <1>6 DEF Worker

(* Giving up its reference, a worker lets go of that job alone.            *)
LEMMA UnrefHolds ==
  ASSUME TypeOK, Phases, Lines, NEW w \in Workers, Unref(w), NEW u \in Tickets
  PROVE  /\ u = hand[w].ticket => ~(Holds(w, u))'
         /\ u # hand[w].ticket => ((Holds(w, u))' <=> Holds(w, u))
<1>1. boxes' = boxes /\ ring' = ring /\ batch' = batch /\ wpc[w] = "unref"
  BY DEF Unref, queueVars
<1>2. wpc'[w] = "fetch" /\ hand'[w] = NoHand
  BY TypeParts DEF Unref, Goto, AfterUnref
<1>3. wpc'[w] \in Outside <=> wpc[w] \in Outside
  BY <1>1, <1>2 DEF Outside
<1>4. \A t : (Announced(w, t))' <=> Announced(w, t)
  BY AnnouncedStays DEF Worker
<1>5. hand'[w].ticket \notin Tickets
  BY <1>2, Sizes DEF NoHand
<1>6. PICK t \in Tickets : t = hand[w].ticket
  BY <1>1, StateParts
<1>7. LineRises(w)
  BY DEF Lines
<1>8. ~(Queued(w, t))'
  <2>1. \A i \in InLine(w) : Line(w)[i] \in Tickets => CallOf(t) < CallOf(Line(w)[i])
    BY <1>6, <1>7 DEF LineRises
  <2>2. CallOf(t) \in Nat
    BY StateParts DEF CallOf
  <2>3. ~Queued(w, t)
    BY <2>1, <2>2 DEF Queued
  <2>4. (InLine(w))' = InLine(w) /\ (Line(w))' = Line(w)
    BY <1>1, <1>3, SameParts
  <2> QED
    BY <2>3, <2>4 DEF Queued
<1>9. ~Announced(w, t)
  <2>1. SUFFICES ASSUME Announced(w, t)
                 PROVE  FALSE
    OBVIOUS
  <2>2. Due(w)
    BY <2>1, Sizes DEF Announced, Due, Posting, Quitting
  <2>3. CallOf(t) < Len(calls)
    BY <1>6, <1>7, <2>2 DEF LineRises, Given
  <2>4. CallOf(t) = Len(calls)
    BY <2>1 DEF Announced, Phases
  <2> QED
    BY <2>3, <2>4, StateParts
<1>10. ~(Holds(w, t))'
  BY <1>4, <1>5, <1>8, <1>9 DEF Holds
<1>11. ASSUME u # t
       PROVE  (Holds(w, u))' <=> Holds(w, u)
  BY <1>1, <1>3, <1>4, <1>5, <1>6, <1>11, HoldsStays
<1> QED
  BY <1>6, <1>10, <1>11

(* A worker that quits may let go of what is behind the quit in its batch, *)
(* but worker 0 has nothing there.                                         *)
LEMMA QuitHolds ==
  ASSUME TypeOK, Lines, NEW w \in Workers, ReleaseBatch(w), wpc[w] = "quit", NEW t \in Tickets
  PROVE  /\ Quitting /\ ((Holds(w, t))' => Holds(w, t))
         /\ w = 0 => ((Holds(w, t))' <=> Holds(w, t))
<1>1. OwnBoxes /\ RingPlace /\ QuitPlace(w) /\ RingPlaced(w)
  BY DEF Lines, RingPlace
<1>2. /\ (Line(w))' = Line(w) /\ (InLine(w))' \subseteq InLine(w)
      /\ First(w) = ring[w].writer => (InLine(w))' = InLine(w)
      /\ hand' = hand
  BY <1>1, ReleaseLine
<1>3. (Announced(w, t))' <=> Announced(w, t)
  BY AnnouncedStays DEF Worker
<1>4. Quitting
  BY <1>1 DEF QuitPlace, QuitSent
<1>5. w = 0 => First(w) = ring[w].writer
  <2>1. w = 0 => First(w) = Length(w)
    BY <1>1 DEF QuitPlace
  <2>2. First(w) <= ring[w].writer
    BY <1>1 DEF RingPlaced
  <2>3. PICK f \in Nat, v \in Nat, m \in Nat :
          f = First(w) /\ v = ring[w].writer /\ m = Len(Mail(w)) /\ Length(w) = v + m
    BY <1>1, LineParts
  <2>4. f <= v /\ (w = 0 => f = v + m)
    BY <2>1, <2>2, <2>3
  <2> QED
    BY <2>3, <2>4
<1>6. (Queued(w, t))' => Queued(w, t)
  BY <1>2 DEF Queued
<1>7. w = 0 => ((Queued(w, t))' <=> Queued(w, t))
  BY <1>2, <1>5 DEF Queued
<1> QED
  BY <1>2, <1>3, <1>4, <1>6, <1>7 DEF Holds

------------------------------------------------------------------------------
(* Every step keeps the counters right.                                    *)

(* A shutdown is not taken back.                                           *)
LEMMA QuitStays ==
  ASSUME TypeOK, Phases, [Next]_vars, Quitting
  PROVE  ticket' = QuitWork
<1>1. ticket = QuitWork /\ spc # "idle"
  BY Sizes DEF Quitting, Phases
<1>2. ~(\E req \in Requests : Schedule(req)) /\ ~Destroy
  BY <1>1 DEF Schedule, Destroy
<1>3. CASE Scheduler
  BY <1>1, <1>3 DEF Scheduler, Post, SetRaise, SetAlready, SetNotify, AfterSet, Join, Quitting
<1>4. CASE ~Scheduler
  BY <1>1, <1>2, <1>4, Touched
<1> QED
  BY <1>3, <1>4

(* What a worker has in its hands is a job that was made.                  *)
LEMMA HandMade ==
  ASSUME TypeOK, Lines, NEW w \in Workers, hand[w].ticket \in Tickets
  PROVE  CallOf(hand[w].ticket) # 0
<1>1. LineRises(w)
  BY DEF Lines
<1> QED
  BY <1>1 DEF LineRises, Given

(* The counters a job starts with.                                         *)
LEMMA ScheduleCounts ==
  ASSUME FewCalls, TypeOK, RanTyped, Phases, FreeUnused, CallsDiffer, Lines,
         NEW req \in Requests, Schedule(req), NEW t \in Tickets, t = ticket'
  PROVE  (JobCounters(t))'
<1>1. PICK c \in Nat : c = Len(calls) /\ c + 1 \in Calls
  <2>1. Len(calls) \in Nat /\ Len(calls) < MaxCalls
    BY FreshWork
  <2> QED
    BY <2>1 DEF Calls
<1>2. PICK q \in Nat : q = NumRanges(req)
  BY RangeCount
<1>3. /\ work'[t] = [call |-> c + 1, next |-> 0, todo |-> q, ref |-> NumWorkers]
      /\ CallOf(t) = 0 /\ calls'[c + 1] = req
  BY <1>1, <1>2, ScheduleSends
<1>4. (CallOf(t))' = c + 1
  BY <1>3 DEF CallOf
<1>5. (Request(t))' = req
  BY <1>3, <1>4 DEF Request
<1>6. (Ranges(t))' = q
  BY <1>2, <1>5 DEF Ranges
<1>7. hand' = hand /\ spc' = "post" /\ sj' = 0
  BY DEF Schedule
<1>8. \A v \in Workers : hand'[v].ticket # t
  BY <1>3, <1>7, HandMade
<1>9. \A v \in Workers : /\ \A k \in Nat : ~(Working(v, t, k))' /\ ~(Executing(v, t, k))'
                         /\ ~(Leaving(v, t))'
  BY <1>8 DEF Working, Executing, Leaving
<1>10. \A v \in Workers : (Holds(v, t))'
  BY <1>7, Sizes DEF Holds, Announced
<1>11. work'[t].next = 0 /\ work'[t].todo = q /\ work'[t].ref = NumWorkers
  BY <1>3
<1>12. ran'[c + 1] = [i \in 0..(req.total - 1) |-> 0]
  <2>1. DOMAIN ran = Calls
    BY DEF RanTyped
  <2>2. ran' = [ran EXCEPT ![Len(calls) + 1] = [i \in 0..(req.total - 1) |-> 0]]
    BY DEF Schedule
  <2> QED
    BY <1>1, <2>1, <2>2
<1>13. (ClaimsInRange(t))' /\ (ClaimsDiffer(t))'
  BY <1>9 DEF ClaimsInRange, ClaimsDiffer
<1>14. (IterationsRun(t))'
  <2>1. \A k \in Nat : ~(Executed(t, k))'
    BY <1>11 DEF Executed
  <2>2. \A k \in Nat : \A i \in Iterations(k, req) : ran'[c + 1][i] = 0
    BY <1>12 DEF Iterations
  <2>3. \A k \in 0..(q - 1) : \A i \in Iterations(k, (Request(t))') :
          ran'[(CallOf(t))'][i] = IF (Executed(t, k))' THEN 1 ELSE 0
    BY <1>4, <1>5, <2>1, <2>2
  <2> QED
    BY <1>6, <2>3 DEF IterationsRun
<1>15. (TodoCounts(t))'
  <2>1. (CountedOf(t))' = {}
    BY <1>11 DEF CountedOf
  <2>2. Cardinality({}) = 0
    BY FS_EmptySet
  <2> QED
    BY <1>6, <1>11, <2>1, <2>2 DEF TodoCounts
<1>16. (RefCounts(t))'
  <2>1. (HoldersOf(t))' = Workers
    BY <1>10 DEF HoldersOf
  <2>2. Cardinality(Workers) = NumWorkers
    BY WorkersFinite
  <2> QED
    BY <1>11, <2>1, <2>2 DEF RefCounts
<1>17. (ClaimsBounded(t))'
  <2>1. PICK L \in SUBSET Workers : L = (Late(t))'
    BY DEF Late
  <2>2. 0 <= q + Cardinality(L)
    BY <2>1, WorkersFinite
  <2> QED
    BY <1>6, <1>11, <2>1, <2>2 DEF ClaimsBounded
<1>18. (FirstWorkerStays(t))'
  BY <1>10, Sizes DEF FirstWorkerStays
<1> QED
  BY <1>13, <1>14, <1>15, <1>16, <1>17, <1>18 DEF JobCounters

(* A call leaves the counters of the other jobs right.                     *)
LEMMA ScheduleStays ==
  ASSUME FewCalls, TypeOK, RanTyped, Phases, FreeUnused, CallsDiffer, Lines, Counters,
         NEW req \in Requests, Schedule(req), NEW t \in Tickets, t # ticket', (CallOf(t))' # 0
  PROVE  (JobCounters(t))'
<1>1. PICK c \in Nat : c = Len(calls) /\ c + 1 \in Calls
  <2>1. Len(calls) \in Nat /\ Len(calls) < MaxCalls
    BY FreshWork
  <2> QED
    BY <2>1 DEF Calls
<1>2. work'[t] = work[t] /\ ticket' \in Tickets /\ \A d \in Made : calls'[d] = calls[d]
  BY ScheduleSends
<1>3. CallOf(t) # 0 /\ JobCounters(t)
  BY <1>2 DEF CallOf, Counters
<1>4. CallOf(t) \in Made /\ CallOf(t) # c + 1 /\ CallOf(t) \in Calls
  <2>1. CallOf(t) \in Made
    BY <1>3, JobParts
  <2>2. CallOf(t) \in 1..c
    BY <1>1, <2>1 DEF Made
  <2>3. c + 1 \in 1..MaxCalls /\ CallOf(t) # c + 1
    BY <1>1, <2>2 DEF Calls
  <2>4. CallOf(t) \in 1..MaxCalls
    BY <2>2, <2>3
  <2> QED
    BY <2>1, <2>3, <2>4 DEF Calls
<1>5. ran'[CallOf(t)] = ran[CallOf(t)]
  <2>1. DOMAIN ran = Calls
    BY DEF RanTyped
  <2>2. ran' = [ran EXCEPT ![c + 1] = [i \in 0..(req.total - 1) |-> 0]]
    BY <1>1 DEF Schedule
  <2> QED
    BY <1>4, <2>1, <2>2
<1>6. hand' = hand /\ wpc' = wpc /\ spc = "idle" /\ boxes' = boxes /\ ring' = ring /\ batch' = batch
  BY DEF Schedule, queueVars
<1>7. \A v \in Workers : SameHand(v, t)
  BY <1>6 DEF SameHand
<1>8. ASSUME NEW v \in Workers
      PROVE  (Holds(v, t))' <=> Holds(v, t)
  <2>1. (Announced(v, t))' <=> Announced(v, t)
    BY <1>6 DEF Announced
  <2> QED
    BY <1>6, <2>1, HoldsStays
<1>9. ~Quitting
  BY <1>6, Sizes DEF Phases, Quitting
<1> QED
  BY <1>2, <1>3, <1>4, <1>5, <1>7, <1>8, <1>9, Sizes, CountersStay

(* The other steps of the scheduling thread leave the counters right.      *)
LEMMA SchedulerCounters ==
  ASSUME FewCalls, TypeOK, Phases, CallsDiffer, Lines, Counters,
         Destroy \/ Scheduler \/ Terminated, NEW t \in Tickets, CallOf(t) # 0
  PROVE  (JobCounters(t))'
<1>1. calls' = calls /\ work' = work /\ ran' = ran /\ hand' = hand
  BY SchedulerFrame
<1>2. \A v \in Workers : SameHand(v, t)
  <2>1. CASE SetNotify
    <3>1. \A v \in Workers : wpc'[v] = wpc[v] \/ wpc[v] = "asleep"
      BY <2>1, TypeParts DEF SetNotify
    <3>2. \A v \in Workers : wpc[v] = "asleep" => hand[v].ticket # t
      BY StateParts
    <3> QED
      BY <1>1, <3>1, <3>2 DEF SameHand
  <2>2. CASE ~SetNotify
    <3>1. wpc' = wpc
      BY <2>2 DEF Destroy, Scheduler, Terminated, Post, SetRaise, SetAlready, Join, vars
    <3> QED
      BY <1>1, <3>1 DEF SameHand
  <2> QED
    BY <2>1, <2>2
<1>3. \A v \in Workers : (Holds(v, t))' <=> Holds(v, t)
  BY SchedulerHolds
<1>4. Quitting => ticket' = QuitWork
  BY QuitStays DEF Next
<1>5. JobCounters(t)
  BY DEF Counters
<1> QED
  BY <1>1, <1>2, <1>3, <1>4, <1>5, Sizes, CountersStay

(* The steps of a worker that are not on t.                                *)
LEMMA WorkerElsewhere ==
  ASSUME FewCalls, TypeOK, RanTyped, Phases, CallsDiffer, Lines, Counters,
         NEW w \in Workers, Worker(w) \/ SpuriousWake(w), NEW t \in Tickets, CallOf(t) # 0,
         ~((Claim(w) \/ Execute(w) \/ CountDone(w) \/ Unref(w)) /\ hand[w].ticket = t)
  PROVE  (JobCounters(t))'
<1>1. /\ calls' = calls /\ ticket' = ticket
      /\ \A v \in Workers : v # w => hand'[v] = hand[v] /\ wpc'[v] = wpc[v]
  BY WorkerFrame
<1>2. PICK h \in [ticket : Tickets \cup {NoWork}, k : Nat] : h = hand[w]
  BY StateParts
<1>3. work'[t] = work[t]
  <2>1. CASE Claim(w) \/ CountDone(w) \/ Unref(w)
    BY <2>1, Counting
  <2>2. CASE ~(Claim(w) \/ CountDone(w) \/ Unref(w))
    BY <2>2 DEF Worker, Inspect, WaitCheck, WaitBlock, SpuriousWake, WaitReset, Fetch, Execute,
                ReleaseBatch, workVars
  <2> QED
    BY <2>1, <2>2
<1>4. ran'[CallOf(t)] = ran[CallOf(t)]
  <2>1. CASE Execute(w)
    <3>1. PICK u \in Tickets : u = hand[w].ticket /\ u # t
      BY <2>1, StateParts DEF Execute
    <3>2. CallOf(u) # 0
      BY <3>1, HandMade
    <3>3. CallOf(t) # CallOf(u)
      BY <3>1 DEF CallsDiffer
    <3>4. CallOf(t) \in Calls
      <4>1. CallOf(t) \in Made
        BY JobParts
      <4> QED
        BY <4>1, StateParts DEF Made, Calls
    <3> QED
      BY <2>1, <3>1, <3>2, <3>3, <3>4, ExecuteIs
  <2>2. CASE ~Execute(w)
    BY <2>2 DEF Worker, Inspect, WaitCheck, WaitBlock, SpuriousWake, WaitReset, Fetch, Claim,
                CountDone, Unref, ReleaseBatch, workVars
  <2> QED
    BY <2>1, <2>2
<1>5. SameHand(w, t)
  <2>1. CASE Inspect(w) \/ WaitCheck(w) \/ WaitBlock(w) \/ SpuriousWake(w) \/ WaitReset(w) \/ ReleaseBatch(w)
    <3>1. wpc[w] \notin {"claim", "execute", "count", "unref"} /\ hand' = hand
      BY <2>1 DEF Inspect, WaitCheck, WaitBlock, SpuriousWake, WaitReset, ReleaseBatch
    <3>2. hand[w].ticket # t
      BY <3>1, StateParts
    <3> QED
      BY <3>1, <3>2 DEF SameHand
  <2>2. CASE Fetch(w)
    <3>1. hand[w].ticket # t
      BY <2>2, StateParts DEF Fetch
    <3>2. \/ hand' = hand
          \/ wpc' = [wpc EXCEPT ![w] = "claim"]
      BY <2>2 DEF Fetch, Goto
    <3> QED
      BY <3>1, <3>2, TypeParts DEF SameHand
  <2>3. CASE Claim(w)
    <3>1. h.ticket # t /\ DOMAIN hand = Workers
      BY <1>2, <2>3, StateParts
    <3>2. hand'[w] = [h EXCEPT !.k = Job(w).next]
      BY <1>2, <2>3, <3>1 DEF Claim
    <3>3. hand'[w].ticket # t
      BY <3>1, <3>2
    <3> QED
      BY <1>2, <3>1, <3>3 DEF SameHand
  <2>4. CASE Execute(w) \/ CountDone(w)
    <3>1. hand[w].ticket # t /\ hand' = hand
      BY <2>4 DEF Execute, CountDone
    <3> QED
      BY <3>1 DEF SameHand
  <2>5. CASE Unref(w)
    <3>1. hand[w].ticket # t /\ hand'[w] = NoHand
      BY <2>5, StateParts DEF Unref, AfterUnref
    <3>2. hand'[w].ticket # t
      BY <3>1, Sizes DEF NoHand
    <3> QED
      BY <3>1, <3>2 DEF SameHand
  <2> QED
    BY <2>1, <2>2, <2>3, <2>4, <2>5 DEF Worker
<1>6. \A v \in Workers : SameHand(v, t)
  BY <1>1, <1>5 DEF SameHand
<1>7. \A v \in Workers : v # w => ((Holds(v, t))' <=> Holds(v, t))
  BY OthersHold
<1>8. /\ (Holds(w, t))' => Holds(w, t)
      /\ ((Holds(w, t))' <=> Holds(w, t)) \/ Quitting
      /\ w = 0 => ((Holds(w, t))' <=> Holds(w, t))
  <2>1. CASE Unref(w)
    <3>1. hand[w].ticket # t
      BY <2>1
    <3>2. (Holds(w, t))' <=> Holds(w, t)
      BY <2>1, <3>1, UnrefHolds
    <3> QED
      BY <3>2
  <2>2. CASE ReleaseBatch(w) /\ wpc[w] = "quit"
    BY <2>2, QuitHolds
  <2>3. CASE ~Unref(w) /\ ~(ReleaseBatch(w) /\ wpc[w] = "quit")
    <3>1. (Holds(w, t))' <=> Holds(w, t)
      BY <2>3, WorkerHolds
    <3> QED
      BY <3>1
  <2> QED
    BY <2>1, <2>2, <2>3
<1>9. JobCounters(t)
  BY DEF Counters
<1>10. Quitting => ticket' = QuitWork
  BY <1>1 DEF Quitting
<1>11. \A v \in Workers : (Holds(v, t))' => Holds(v, t)
  BY <1>7, <1>8
<1>12. (\A v \in Workers : (Holds(v, t))' <=> Holds(v, t)) \/ ticket' = QuitWork
  BY <1>7, <1>8, <1>10
<1>13. (Holds(0, t))' <=> Holds(0, t)
  BY <1>7, <1>8, Sizes
<1> QED
  BY <1>1, <1>3, <1>4, <1>6, <1>9, <1>10, <1>11, <1>12, <1>13, CountersStay

(* Every step keeps the counters of every job right.                       *)
LEMMA CountersStep ==
  ASSUME FewCalls, TypeOK, RanTyped, Phases, FreeUnused, CallsDiffer, Lines, Counters, [Next]_vars
  PROVE  Counters'
<1> SUFFICES ASSUME NEW t \in Tickets, (CallOf(t))' # 0
             PROVE  (JobCounters(t))'
  BY DEF Counters
<1>1. ASSUME NEW req \in Requests, Schedule(req)
      PROVE  (JobCounters(t))'
  <2>1. CASE t = ticket'
    BY <1>1, <2>1, ScheduleCounts
  <2>2. CASE t # ticket'
    BY <1>1, <2>2, ScheduleStays
  <2> QED
    BY <2>1, <2>2
<1>2. CASE Destroy \/ Scheduler \/ Terminated
  <2>1. CallOf(t) # 0
    BY <1>2, SchedulerFrame DEF CallOf
  <2> QED
    BY <1>2, <2>1, SchedulerCounters
<1>3. ASSUME NEW w \in Workers, Worker(w) \/ SpuriousWake(w)
      PROVE  (JobCounters(t))'
  <2>1. CallOf(t) # 0
    BY <1>3, WorkerFrame
  <2>2. JobCounters(t)
    BY <2>1 DEF Counters
  <2>3. \A v \in Workers : v # w => ((Holds(v, t))' <=> Holds(v, t))
    BY <1>3, OthersHold
  <2>4. CASE (Claim(w) \/ Execute(w) \/ CountDone(w)) /\ hand[w].ticket = t
    <3>1. ~Unref(w) /\ ~(ReleaseBatch(w) /\ wpc[w] = "quit")
      BY <2>4 DEF Claim, Execute, CountDone, Unref
    <3>2. (Holds(w, t))' <=> Holds(w, t)
      BY <1>3, <3>1, WorkerHolds
    <3>3. \A v \in Workers : (Holds(v, t))' <=> Holds(v, t)
      BY <2>3, <3>2
    <3> QED
      BY <2>1, <2>2, <2>4, <3>3, ClaimCounts, ExecuteCounts, CountDoneCounts
  <2>5. CASE Unref(w) /\ hand[w].ticket = t
    <3>1. ~(Holds(w, t))'
      BY <2>5, UnrefHolds
    <3> QED
      BY <2>1, <2>2, <2>3, <2>5, <3>1, UnrefCounts
  <2>6. CASE ~((Claim(w) \/ Execute(w) \/ CountDone(w) \/ Unref(w)) /\ hand[w].ticket = t)
    BY <1>3, <2>1, <2>6, WorkerElsewhere
  <2> QED
    BY <2>4, <2>5, <2>6
<1>4. CASE UNCHANGED vars
  <2>1. /\ calls' = calls /\ work' = work /\ ran' = ran /\ hand' = hand /\ wpc' = wpc
        /\ boxes' = boxes /\ ring' = ring /\ batch' = batch
        /\ ticket' = ticket /\ spc' = spc /\ sj' = sj
    BY <1>4 DEF vars, schedulerVars, queueVars, workVars
  <2>2. CallOf(t) # 0
    BY <2>1 DEF CallOf
  <2>3. JobCounters(t)
    BY <2>2 DEF Counters
  <2>4. \A v \in Workers : SameHand(v, t)
    BY <2>1 DEF SameHand
  <2>5. ASSUME NEW v \in Workers
        PROVE  (Holds(v, t))' <=> Holds(v, t)
    <3>1. (Announced(v, t))' <=> Announced(v, t)
      BY <2>1 DEF Announced
    <3> QED
      BY <2>1, <3>1, HoldsStays
  <2>6. Quitting => ticket' = QuitWork
    BY <2>1 DEF Quitting
  <2> QED
    BY <2>1, <2>2, <2>3, <2>4, <2>5, <2>6, Sizes, CountersStay
<1> QED
  BY <1>1, <1>2, <1>3, <1>4 DEF Next

------------------------------------------------------------------------------
(* The histories, the signals, and the first state.                        *)

(* Every step keeps the record of what has run within its type: no         *)
(* iteration is run a second time.                                         *)
LEMMA RanStep ==
  ASSUME FewCalls, TypeOK, RanTyped, Phases, FreeUnused, CallsDiffer, Lines, Counters, [Next]_vars
  PROVE  RanTyped'
<1>1. ASSUME NEW req \in Requests, Schedule(req)
      PROVE  RanTyped'
  <2>1. PICK c \in Nat : c = Len(calls) /\ c + 1 \in Calls
    <3>1. Len(calls) \in Nat /\ Len(calls) < MaxCalls
      BY <1>1, FreshWork
    <3> QED
      BY <3>1 DEF Calls
  <2>2. ran = [d \in Calls |-> ran[d]] /\ \A d \in 1..c : ran[d] \in [0..(calls[d].total - 1) -> {0, 1}]
    BY <2>1 DEF RanTyped, Made
  <2>3. ran' = [ran EXCEPT ![c + 1] = [i \in 0..(req.total - 1) |-> 0]]
    BY <1>1, <2>1 DEF Schedule
  <2>4. Len(calls') = c + 1 /\ calls'[c + 1] = req /\ \A d \in 1..c : calls'[d] = calls[d]
    BY <1>1, <2>1, ScheduleSends DEF Made
  <2>5. DOMAIN ran = Calls
    BY <2>2
  <2>6. /\ ran' = [d \in Calls |-> ran'[d]]
        /\ ran'[c + 1] = [i \in 0..(req.total - 1) |-> 0]
        /\ \A d \in 1..c : ran'[d] = ran[d]
    <3>1. ran' = [d \in Calls |-> ran'[d]] /\ \A d \in Calls : d # c + 1 => ran'[d] = ran[d]
      BY <2>3, <2>5
    <3>2. ran'[c + 1] = [i \in 0..(req.total - 1) |-> 0]
      BY <2>1, <2>3, <2>5
    <3>3. \A d \in 1..c : d \in Calls /\ d # c + 1
      BY <2>1 DEF Calls
    <3> QED
      BY <3>1, <3>2, <3>3
  <2>7. ASSUME NEW d \in 1..(c + 1)
        PROVE  ran'[d] \in [0..(calls'[d].total - 1) -> {0, 1}]
    <3>1. CASE d = c + 1
      BY <2>4, <2>6, <3>1
    <3>2. CASE d # c + 1
      <4>1. d \in 1..c
        BY <3>2
      <4> QED
        BY <2>2, <2>4, <2>6, <4>1
    <3> QED
      BY <3>1, <3>2
  <2> QED
    BY <2>4, <2>6, <2>7 DEF RanTyped, Made
<1>2. ASSUME NEW w \in Workers, Execute(w)
      PROVE  RanTyped'
  <2>1. PICK t \in Tickets : t = hand[w].ticket
    BY <1>2, StateParts DEF Execute
  <2>2. CallOf(t) # 0
    BY <2>1, HandMade
  <2>3. PICK c \in Made : c = CallOf(t) /\ calls[c] = Request(t)
    BY <2>2, JobParts DEF Request
  <2>4. /\ wpc[w] = "execute" /\ calls' = calls
        /\ ran' = [d \in Calls |-> ran'[d]]
        /\ \A d \in Calls : d # c => ran'[d] = ran[d]
        /\ ran'[c] = [i \in 0..(Request(t).total - 1) |->
             IF i \in Iterations(hand[w].k, Request(t)) THEN ran[c][i] + 1 ELSE ran[c][i]]
    <3>1. wpc[w] = "execute" /\ calls' = calls
      BY <1>2 DEF Execute, schedulerVars
    <3> QED
      BY <1>2, <2>1, <2>2, <2>3, <3>1, ExecuteIs
  <2>5. \A i \in Iterations(hand[w].k, Request(t)) : ran[c][i] = 0
    <3>1. JobCounters(t)
      BY <2>2 DEF Counters
    <3>2. wpc[w] = "execute" /\ hand[w].ticket = t
      BY <2>1, <2>4
    <3>3. \A i \in Iterations(hand[w].k, Request(t)) : ran[CallOf(t)][i] = 0
      BY <2>2, <3>1, <3>2, RangeFresh
    <3> QED
      BY <2>3, <3>3
  <2>6. ran[c] \in [0..(Request(t).total - 1) -> {0, 1}]
    BY <2>3 DEF RanTyped
  <2>7. ran'[c] \in [0..(Request(t).total - 1) -> {0, 1}]
    <3>1. PICK I, R, f : /\ I = 0..(Request(t).total - 1) /\ R = Iterations(hand[w].k, Request(t))
                         /\ f = ran[c]
      OBVIOUS
    <3>2. ran'[c] = [i \in I |-> IF i \in R THEN f[i] + 1 ELSE f[i]]
      BY <2>4, <3>1
    <3>3. f \in [I -> {0, 1}] /\ \A i \in R : f[i] = 0
      BY <2>5, <2>6, <3>1
    <3>4. \A i \in I : (IF i \in R THEN f[i] + 1 ELSE f[i]) \in {0, 1}
      BY <3>3
    <3> QED
      BY <3>1, <3>2, <3>4
  <2>8. \A d \in Made : d \in Calls
    BY StateParts DEF Made, Calls
  <2>9. \A d \in Made : ran'[d] \in [0..(calls[d].total - 1) -> {0, 1}]
    BY <2>3, <2>4, <2>7, <2>8 DEF RanTyped
  <2> QED
    BY <2>4, <2>9 DEF RanTyped, Made
<1>3. ASSUME calls' = calls, ran' = ran
      PROVE  RanTyped'
  BY <1>3 DEF RanTyped, Made
<1>4. CASE \E req \in Requests : Schedule(req)
  BY <1>1, <1>4
<1>5. CASE \E w \in Workers : Execute(w)
  BY <1>2, <1>5
<1> QED
  BY <1>3, <1>4, <1>5, Touched

(* No mail goes unnoticed.                                                 *)
Unnoticed(w) ==
  wpc[w] \in {"check", "block", "asleep"} /\ (\E p \in Workers : boxes[w][p] # <<>>)
Flagged(w) ==
  \/ sig[w]
  \/ spc = "post" /\ (Quitting => sj <= w)
  \/ spc = "set" /\ sj <= w
  \/ spc = "notify" /\ sj < w

(* Every step keeps a worker with mail from waiting unnoticed.             *)
LEMMA FlagStep ==
  ASSUME FewCalls, TypeOK, Phases, Lines, WaitingWorkerIsFlagged, [Next]_vars
  PROVE  WaitingWorkerIsFlagged'
<1> SUFFICES ASSUME NEW v \in Workers, (Unnoticed(v))'
             PROVE  (Flagged(v))'
  BY DEF WaitingWorkerIsFlagged, Unnoticed, Flagged
<1>1. Unnoticed(v) => Flagged(v)
  BY DEF WaitingWorkerIsFlagged, Unnoticed, Flagged
<1>2. v \in Nat /\ sj \in Nat /\ sj \in Workers /\ v < NumWorkers /\ 0 \in Workers
  BY StateParts, Sizes
<1>3. wpc \in [Workers -> Locations] /\ sig \in [Workers -> BOOLEAN]
      /\ boxes \in [Workers -> [Workers -> Seq(Entries)]]
  BY TypeParts
<1>4. CASE (\E req \in Requests : Schedule(req)) \/ Destroy
  <2>1. boxes' = boxes /\ wpc' = wpc /\ sig' = sig /\ spc = "idle" /\ spc' = "post" /\ sj' = 0
    BY <1>4 DEF Schedule, Destroy, queueVars
  <2> QED
    BY <1>2, <2>1 DEF Flagged
<1>5. CASE Post
  <2>1. wpc' = wpc /\ sig' = sig /\ spc = "post" /\ ticket' = ticket
    BY <1>5 DEF Post
  <2>2. CASE Quitting
    <3>1. spc' = "set" /\ sj' = sj
      BY <1>5, <2>2 DEF Post
    <3>2. CASE sj <= v
      BY <3>1, <3>2 DEF Flagged
    <3>3. CASE ~(sj <= v)
      <4>1. boxes'[v] = boxes[v]
        BY <1>2, <1>3, <1>5, <3>3 DEF Post
      <4>2. Unnoticed(v)
        BY <2>1, <4>1 DEF Unnoticed
      <4>3. sig[v]
        BY <1>1, <2>1, <2>2, <3>3, <4>2 DEF Flagged
      <4> QED
        BY <2>1, <4>3 DEF Flagged
    <3> QED
      BY <3>2, <3>3
  <2>3. CASE ~Quitting
    <3>1. \/ spc' = "set" /\ sj' = 0
          \/ spc' = "post"
      BY <1>5, <2>3 DEF Post, NextWorker
    <3> QED
      BY <1>2, <2>1, <2>3, <3>1 DEF Flagged, Quitting
  <2> QED
    BY <2>2, <2>3
<1>6. CASE SetRaise
  <2>1. boxes' = boxes /\ wpc' = wpc /\ spc = "set" /\ spc' = "notify" /\ sj' = sj /\ sig' = Raised
    BY <1>6 DEF SetRaise, queueVars
  <2>2. CASE v = sj
    <3>1. sig'[v]
      BY <1>3, <2>1, <2>2 DEF Raised
    <3> QED
      BY <3>1 DEF Flagged
  <2>3. CASE v # sj
    <3>1. sig'[v] = sig[v]
      BY <1>3, <2>1, <2>3 DEF Raised
    <3>2. Unnoticed(v)
      BY <2>1 DEF Unnoticed
    <3>3. sig[v] \/ sj <= v
      BY <1>1, <2>1, <3>2 DEF Flagged
    <3>4. sj <= v => sj < v
      BY <1>2, <2>3
    <3> QED
      BY <2>1, <3>1, <3>3, <3>4 DEF Flagged
  <2> QED
    BY <2>2, <2>3
<1>7. CASE SetAlready \/ SetNotify
  <2>1. /\ boxes' = boxes /\ sig' = sig /\ AfterSet
        /\ wpc'[v] = wpc[v] \/ (wpc[v] = "asleep" /\ wpc'[v] = "check")
    <3>1. CASE SetAlready
      BY <3>1 DEF SetAlready, queueVars
    <3>2. CASE SetNotify
      BY <1>3, <3>2 DEF SetNotify, queueVars
    <3> QED
      BY <1>7, <3>1, <3>2
  <2>2. Unnoticed(v)
    BY <2>1 DEF Unnoticed
  <2>3. \/ spc = "set" /\ sig[sj]
        \/ spc = "notify"
    BY <1>7 DEF SetAlready, SetNotify
  <2>4. sig[v] \/ sj < v
    <3>1. sig[v] \/ (spc = "set" /\ sj <= v) \/ (spc = "notify" /\ sj < v)
      BY <1>1, <2>2, <2>3 DEF Flagged
    <3>2. spc = "set" /\ sj <= v => sig[v] \/ sj < v
      <4>1. CASE sj = v
        BY <2>3, <4>1
      <4>2. CASE sj # v
        BY <1>2, <4>2
      <4> QED
        BY <4>1, <4>2
    <3> QED
      BY <3>1, <3>2
  <2>5. sj < v => sj + 1 # NumWorkers /\ sj + 1 <= v
    BY <1>2
  <2>6. CASE sig[v]
    BY <2>1, <2>6 DEF Flagged
  <2>7. CASE ~sig[v]
    <3>1. sj + 1 # NumWorkers /\ sj + 1 <= v
      BY <2>4, <2>5, <2>7
    <3>2. sj' = sj + 1 /\ spc' = (IF Quitting THEN "post" ELSE "set")
      BY <2>1, <3>1 DEF AfterSet, NextWorker, LastWorker
    <3> QED
      BY <3>1, <3>2 DEF Flagged
  <2> QED
    BY <2>6, <2>7
<1>8. CASE Join
  <2>1. boxes' = boxes /\ wpc' = wpc /\ sig' = sig /\ spc = "join"
    BY <1>8 DEF Join, queueVars
  <2>2. Unnoticed(v)
    BY <2>1 DEF Unnoticed
  <2>3. sig[v]
    BY <1>1, <2>1, <2>2 DEF Flagged
  <2> QED
    BY <2>1, <2>3 DEF Flagged
<1>9. ASSUME NEW w \in Workers, Worker(w) \/ SpuriousWake(w)
      PROVE  (Flagged(v))'
  <2>1. /\ spc' = spc /\ sj' = sj /\ ticket' = ticket
        /\ v # w => boxes'[v] = boxes[v] /\ wpc'[v] = wpc[v] /\ sig'[v] = sig[v]
    BY <1>9, WorkerFrame
  <2>2. ASSUME Unnoticed(v), sig'[v] = sig[v]
        PROVE  (Flagged(v))'
    BY <1>1, <2>1, <2>2 DEF Flagged, Quitting
  <2>3. CASE v # w
    BY <2>1, <2>2, <2>3 DEF Unnoticed
  <2>4. CASE v = w
    <3>1. CASE Inspect(w)
      <4>1. OwnBoxes /\ RingPlace
        BY DEF Lines
      <4>2. boxes'[w] = [p \in Workers |-> <<>>]
        BY <3>1, <4>1, InspectLine
      <4> QED
        BY <2>4, <4>2 DEF Unnoticed
    <3>2. CASE WaitCheck(w)
      <4>1. wpc[w] = "check" /\ boxes' = boxes /\ sig' = sig
        BY <3>2 DEF WaitCheck, queueVars
      <4>2. Unnoticed(v)
        BY <2>4, <4>1 DEF Unnoticed
      <4> QED
        BY <2>2, <4>1, <4>2
    <3>3. CASE WaitBlock(w) \/ SpuriousWake(w)
      <4>1. wpc[w] \in {"block", "asleep"} /\ boxes' = boxes /\ sig' = sig
        BY <3>3 DEF WaitBlock, SpuriousWake, queueVars
      <4>2. Unnoticed(v)
        BY <2>4, <4>1 DEF Unnoticed
      <4> QED
        BY <2>2, <4>1, <4>2
    <3>4. CASE WaitReset(w) \/ Claim(w) \/ Execute(w) \/ CountDone(w) \/ Unref(w) \/ Fetch(w) \/ ReleaseBatch(w)
      <4>1. wpc'[w] \notin {"check", "block", "asleep"}
        BY <1>3, <3>4 DEF WaitReset, Claim, Execute, CountDone, Unref, AfterUnref, Fetch,
                          ReleaseBatch, Goto
      <4> QED
        BY <2>4, <4>1 DEF Unnoticed
    <3> QED
      BY <1>9, <3>1, <3>2, <3>3, <3>4 DEF Worker
  <2> QED
    BY <2>3, <2>4
<1>10. CASE Terminated \/ UNCHANGED vars
  <2>1. /\ boxes' = boxes /\ wpc' = wpc /\ sig' = sig
        /\ spc' = spc /\ sj' = sj /\ ticket' = ticket
    BY <1>10 DEF Terminated, vars, schedulerVars, queueVars
  <2>2. Unnoticed(v)
    BY <2>1 DEF Unnoticed
  <2> QED
    BY <1>1, <2>1, <2>2 DEF Flagged, Quitting
<1> QED
  BY <1>4, <1>5, <1>6, <1>7, <1>8, <1>9, <1>10 DEF Next, Scheduler


(* The first state.                                                        *)
LEMMA InitHolds ==
  ASSUME Init
  PROVE  IInv
<1>0. 0 \in Workers /\ Workers \subseteq Nat /\ RingSize \in Nat /\ RingSize + 1 \in Nat
  BY Sizes
<1>1. TypeOK
  <2>1. calls \in Seq(Requests) /\ Len(calls) <= MaxCalls
    BY DEF Init
  <2>2. free \in [Owners -> Seq(0..(MaxJobs - 1))] /\ done \in [Owners -> Seq(0..(MaxJobs - 1))]
    <3>1. \A n \in 1..MaxJobs : n - 1 \in 0..(MaxJobs - 1)
      OBVIOUS
    <3>2. [n \in 1..MaxJobs |-> n - 1] \in [1..MaxJobs -> 0..(MaxJobs - 1)]
      BY <3>1
    <3>3. \A q \in [1..MaxJobs -> 0..(MaxJobs - 1)] : q \in Seq(0..(MaxJobs - 1))
      OBVIOUS
    <3>4. [n \in 1..MaxJobs |-> n - 1] \in Seq(0..(MaxJobs - 1))
      BY <3>2, <3>3
    <3> QED
      BY <3>4 DEF Init
  <2>3. work \in [Tickets -> [call : 0..MaxCalls, next : Nat, todo : Int, ref : Int]]
    BY DEF Init, NoJob
  <2>4. boxes \in [Workers -> [Workers -> Seq(Entries)]]
    BY DEF Init
  <2>5. ring \in [Workers -> [slots    : [0..RingSize -> Tickets \cup {QuitWork, NoWork}],
                              capacity : {RingSize + 1},
                              writer   : 0..RingSize,
                              reader   : 0..RingSize]]
    <3>1. PICK r \in Nat : r = RingSize /\ r = NumWorkers * MaxJobs
      BY <1>0 DEF RingSize
    <3>2. [i \in 0..((r + 1) - 1) |-> NoWork] \in [0..r -> Tickets \cup {QuitWork, NoWork}]
      OBVIOUS
    <3>3. NewRing(r + 1, NoWork) \in [slots : [0..r -> Tickets \cup {QuitWork, NoWork}],
                                      capacity : {r + 1}, writer : 0..r, reader : 0..r]
      BY <3>2 DEF NewRing
    <3>4. ring = [w \in Workers |-> NewRing(r + 1, NoWork)]
      BY <3>1 DEF Init
    <3> QED
      BY <3>1, <3>3, <3>4
  <2>6. sig \in [Workers -> BOOLEAN] /\ wpc \in [Workers -> Locations]
    BY DEF Init, Locations
  <2>7. batch \in [Workers -> [{"begin", "i", "end"} -> 0..RingSize]]
    <3>1. NoBatch \in [{"begin", "i", "end"} -> 0..RingSize]
      BY <1>0 DEF NoBatch
    <3> QED
      BY <3>1 DEF Init
  <2>8. /\ hand \in [Workers -> [ticket : Tickets \cup {NoWork}, k : Nat]]
        /\ \A w \in Workers : wpc[w] \in {"claim", "execute", "count", "unref"}
                                <=> hand[w].ticket \in Tickets
    BY Sizes DEF Init, NoHand
  <2>9. finished \in [Calls -> Nat]
    BY DEF Init
  <2>10. spc = "idle" /\ sj \in Workers /\ ticket = NoWork
    BY <1>0 DEF Init
  <2> QED
    BY <2>1, <2>2, <2>3, <2>4, <2>5, <2>6, <2>7, <2>8, <2>9, <2>10, TypeParts
<1>2. calls = <<>> /\ Len(calls) = 0 /\ Made = {} /\ spc = "idle" /\ ticket = NoWork
  BY DEF Init, Made
<1>3. \A t \in Tickets : work[t] = NoJob /\ CallOf(t) = 0
  BY DEF Init, NoJob, CallOf
<1>4. RanTyped
  <2>1. ran = [c \in Calls |-> <<>>]
    BY DEF Init
  <2>2. ran = [c \in Calls |-> ran[c]]
    BY <2>1
  <2> QED
    BY <1>2, <2>2 DEF RanTyped
<1>5. Phases
  BY <1>2, Sizes DEF Phases
<1>6. FreeUnused
  <2> SUFFICES ASSUME NEW o \in Owners
               PROVE  /\ Len(free[o]) + Len(calls) >= MaxJobs
                      /\ \A n \in 1..Len(free[o]) : free[o][n] = (MaxJobs - Len(free[o])) + (n - 1)
                      /\ \A n \in 0..(MaxJobs - 1) :
                           n >= MaxJobs - Len(free[o]) => work[<<o, n>>] = NoJob
    BY DEF FreeUnused
  <2>1. \A n \in 0..(MaxJobs - 1) : <<o, n>> \in Tickets
    BY DEF Tickets
  <2>2. PICK q : q = free[o]
    OBVIOUS
  <2>3. q = [n \in 1..MaxJobs |-> n - 1]
    BY <2>2 DEF Init
  <2>4. Len(q) = MaxJobs /\ \A n \in 1..MaxJobs : q[n] = n - 1
    BY <2>3
  <2>5. \A n \in 1..MaxJobs : q[n] = (MaxJobs - MaxJobs) + (n - 1)
    BY <2>4
  <2>6. MaxJobs + 0 >= MaxJobs
    OBVIOUS
  <2> QED
    BY <1>2, <1>3, <2>1, <2>2, <2>4, <2>5, <2>6
<1>7. CallsDiffer
  BY <1>2, <1>3 DEF CallsDiffer
<1>8. /\ \A w, p \in Workers : boxes[w][p] = <<>>
      /\ \A w \in Workers : /\ ring[w].reader = 0 /\ ring[w].writer = 0
                            /\ wpc[w] = "inspect" /\ hand[w] = NoHand
  BY DEF Init, NewRing
<1>9. OwnBoxes
  BY <1>8 DEF OwnBoxes, OwnBox
<1>10. ~Quitting /\ \A w \in Workers : ~Due(w) /\ ~QuitSent(w)
  BY <1>2, Sizes DEF Due, Posting, QuitSent, Quitting
<1>11. Lines
  <2> SUFFICES ASSUME NEW w \in Workers
               PROVE  RingPlaced(w) /\ LineRises(w) /\ QuitPlace(w)
    BY <1>9 DEF Lines, RingPlace
  <2>1. wpc[w] \in Outside /\ First(w) = 0
    BY <1>8 DEF Outside, First
  <2>2. Mail(w) = <<>>
    <3>1. Mail(w) = IF w = 0 THEN boxes[w][0] ELSE boxes[w][0] \o boxes[w][w]
      BY <1>1, <1>9, MailIs
    <3>2. <<>> \o <<>> = <<>>
      OBVIOUS
    <3> QED
      BY <1>0, <1>8, <3>1, <3>2
  <2>3. Length(w) = 0
    BY <1>8, <2>2 DEF Length
  <2>4. InLine(w) = {}
    BY <2>1, <2>3 DEF InLine
  <2>5. Sent(w) = 0
    BY <1>2, <1>10 DEF Sent
  <2>6. RingPlaced(w)
    BY <1>8, <2>1, <2>3, <2>5 DEF RingPlaced
  <2>7. hand[w].ticket \notin Tickets
    BY <1>8, Sizes DEF NoHand
  <2>8. LineRises(w)
    BY <2>4, <2>7 DEF LineRises
  <2>9. QuitPlace(w)
    BY <1>0, <1>8, <2>4 DEF QuitPlace
  <2> QED
    BY <2>6, <2>8, <2>9
<1>12. WaitingWorkerIsFlagged
  BY <1>8 DEF WaitingWorkerIsFlagged
<1>13. Counters
  BY <1>3 DEF Counters
<1> QED
  BY <1>1, <1>4, <1>5, <1>6, <1>7, <1>11, <1>12, <1>13 DEF IInv
------------------------------------------------------------------------------
(* The theorems.                                                           *)

(* The invariant holds in every behaviour of the job system in which fewer *)
(* calls are made than a context has work_t.                               *)
THEOREM Inductive == FewCalls => (Spec => []IInv)
<1> SUFFICES ASSUME FewCalls
             PROVE  Spec => []IInv
  OBVIOUS
<1>1. Init => IInv
  BY InitHolds
<1>2. IInv /\ [Next]_vars => IInv'
  <2> SUFFICES ASSUME IInv, [Next]_vars
               PROVE  IInv'
    OBVIOUS
  <2>1. /\ TypeOK /\ RanTyped /\ Phases /\ FreeUnused /\ CallsDiffer /\ Lines
        /\ WaitingWorkerIsFlagged /\ Counters
    BY DEF IInv
  <2>2. TypeOK'
    BY <2>1, TypeStep
  <2>3. RanTyped'
    BY <2>1, RanStep
  <2>4. Phases'
    BY <2>1, PhasesStep
  <2>5. FreeUnused' /\ CallsDiffer'
    BY <2>1, CallsStep
  <2>6. Lines'
    BY <2>1, LinesStep
  <2>7. WaitingWorkerIsFlagged'
    BY <2>1, FlagStep
  <2>8. Counters'
    BY <2>1, CountersStep
  <2> QED
    BY <2>2, <2>3, <2>4, <2>5, <2>6, <2>7, <2>8 DEF IInv
<1> QED
  BY <1>1, <1>2, PTL DEF Spec

(* Every variable keeps its type: no worker is sent out of its queue, and  *)
(* none works on a ticket that is no work_t's (s_worker_thread).           *)
THEOREM TypeCorrect == FewCalls => (Spec => []TypeOK)
<1>1. IInv => TypeOK
  BY DEF IInv
<1> QED
  BY <1>1, Inductive, PTL

(* A worker that found nothing and is about to sleep, or sleeps, has been  *)
(* or will be signalled if it has mail: s_schedule_* posts before it sets  *)
(* the signals, and s_worker_thread resets its signal before it looks.     *)
THEOREM NoMailUnnoticed == FewCalls => (Spec => []WaitingWorkerIsFlagged)
<1>1. IInv => WaitingWorkerIsFlagged
  BY DEF IInv
<1> QED
  BY <1>1, Inductive, PTL

(* The fetch_add of m_work_indexx gives every range to one worker.         *)
THEOREM ExecutedOnce == FewCalls => (Spec => []NoIterationTwice)
<1>1. ASSUME IInv, NEW c \in Made, NEW i \in DOMAIN ran[c]
      PROVE  ran[c][i] <= 1
  <2>1. PICK I : ran[c] \in [I -> {0, 1}]
    BY <1>1 DEF IInv, RanTyped
  <2>2. ran[c][i] \in {0, 1}
    BY <1>1, <2>1
  <2> QED
    BY <2>2
<1>2. IInv => NoIterationTwice
  BY <1>1 DEF NoIterationTwice
<1> QED
  BY <1>2, Inductive, PTL

(* A job of whose ranges all are claimed, and none is being executed, has  *)
(* run.                                                                    *)
LEMMA ClaimedHaveRun ==
  ASSUME IInv, NEW t \in Tickets, CallOf(t) # 0,
         \A k \in 0..(Ranges(t) - 1) : Executed(t, k)
  PROVE  AllRan(CallOf(t))
<1>1. TypeOK /\ CallsDiffer /\ RanTyped
  BY DEF IInv
<1>2. IterationsRun(t)
  BY DEF IInv, Counters, JobCounters
<1>3. CallOf(t) \in Made /\ Request(t) \in Requests /\ calls[CallOf(t)] = Request(t)
  BY <1>1, JobParts DEF Request
<1>4. DOMAIN ran[CallOf(t)] = 0..(Request(t).total - 1)
  BY <1>1, <1>3 DEF RanTyped
<1>5. ASSUME NEW i \in 0..(Request(t).total - 1)
      PROVE  ran[CallOf(t)][i] = 1
  <2>1. PICK k \in 0..(Ranges(t) - 1) : i \in Iterations(k, Request(t))
    BY <1>3, RangesCover DEF Ranges
  <2> QED
    BY <1>2, <2>1 DEF IterationsRun
<1> QED
  BY <1>4, <1>5 DEF AllRan


(* The parts of the invariant about one job.                               *)
LEMMA JobFacts ==
  ASSUME IInv, NEW t \in Tickets, CallOf(t) # 0
  PROVE  /\ TypeOK /\ CallsDiffer /\ Lines /\ JobCounters(t)
         /\ CallOf(t) \in Made /\ Request(t) \in Requests
         /\ Ranges(t) \in Nat /\ work[t].next \in Nat
BY JobParts DEF IInv, Counters

(* Counted, with the ranges in workers' hands spelled out.                 *)
LEMMA CountedIs ==
  ASSUME IInv, NEW t \in Tickets, CallOf(t) # 0
  PROVE  Counted(t) = CountedOf(t)
<1>1. PICK n \in Nat : n = work[t].next
  BY JobFacts
<1>2. NumRanges(calls[work[t].call]) = Ranges(t)
  BY DEF Ranges, Request, CallOf
<1>3. TypeOK
  BY DEF IInv
<1>4. ASSUME NEW k \in Nat, NEW w \in Workers
      PROVE  (hand[w] = [ticket |-> t, k |-> k] => wpc[w] \in {"claim", "unref"})
               <=> ~Working(w, t, k)
  <2>1. PICK h \in [ticket : Tickets \cup {NoWork}, k : Nat] : h = hand[w]
    BY <1>3, StateParts
  <2>2. h = [ticket |-> t, k |-> k] <=> h.ticket = t /\ h.k = k
    OBVIOUS
  <2>3. h.ticket = t => wpc[w] \in {"claim", "execute", "count", "unref"}
    BY <1>3, <2>1, StateParts
  <2> QED
    BY <2>1, <2>2, <2>3 DEF Working
<1>5. Counted(t) = {k \in 0..(n - 1) : k < Ranges(t) /\ \A w \in Workers :
                      hand[w] = [ticket |-> t, k |-> k] => wpc[w] \in {"claim", "unref"}}
  BY <1>1, <1>2 DEF Counted
<1>6. CountedOf(t) = {k \in Nat : k < n /\ k < Ranges(t) /\ \A w \in Workers : ~Working(w, t, k)}
  BY <1>1 DEF CountedOf
<1>7. \A k : k \in 0..(n - 1) <=> k \in Nat /\ k < n
  OBVIOUS
<1>8. Counted(t) \subseteq CountedOf(t)
  BY <1>4, <1>5, <1>6, <1>7
<1>9. CountedOf(t) \subseteq Counted(t)
  BY <1>4, <1>5, <1>6, <1>7
<1> QED
  BY <1>8, <1>9

(* m_done_index is the number of ranges still to be counted off, and the   *)
(* job has run when it is 0.                                               *)
THEOREM DoneIndexRight == FewCalls => (Spec => []DoneIndexCounts)
<1>1. ASSUME IInv, NEW t \in Tickets, work[t].call # 0
      PROVE  /\ work[t].todo = NumRanges(calls[work[t].call]) - Cardinality(Counted(t))
             /\ work[t].todo = 0 => AllRan(work[t].call)
  <2>1. CallOf(t) # 0 /\ CallOf(t) = work[t].call /\ Ranges(t) = NumRanges(calls[work[t].call])
    BY <1>1 DEF CallOf, Ranges, Request
  <2>2. PICK C : C = Counted(t) /\ C = CountedOf(t)
    BY <1>1, <2>1, CountedIs
  <2>3. PICK q \in Nat, n \in Nat : q = Ranges(t) /\ n = work[t].next
    BY <1>1, <2>1, JobFacts
  <2>4. work[t].todo = q - Cardinality(C)
    BY <1>1, <2>1, <2>2, <2>3, JobFacts DEF JobCounters, TodoCounts
  <2>5. ASSUME work[t].todo = 0
        PROVE  AllRan(CallOf(t))
    <3>1. /\ C \subseteq 0..(q - 1) /\ IsFiniteSet(C) /\ Cardinality(C) \in Nat
          /\ IsFiniteSet(0..(q - 1)) /\ Cardinality(0..(q - 1)) = q
      BY <1>1, <2>1, <2>2, <2>3, JobFacts, CountedFinite
    <3>2. Cardinality(C) = q
      BY <2>4, <2>5, <3>1
    <3>3. C = 0..(q - 1)
      BY <3>1, <3>2, FS_Subset
    <3>4. ASSUME NEW k \in 0..(q - 1)
          PROVE  Executed(t, k)
      <4>1. k \in CountedOf(t)
        BY <2>2, <3>3
      <4>2. k < work[t].next /\ \A w \in Workers : ~Working(w, t, k)
        BY <4>1 DEF CountedOf
      <4> QED
        BY <4>2 DEF Executed, Executing, Working
    <3> QED
      BY <1>1, <2>1, <2>3, <3>4, ClaimedHaveRun
  <2> QED
    BY <2>1, <2>2, <2>3, <2>4, <2>5
<1>2. IInv => DoneIndexCounts
  BY <1>1 DEF DoneIndexCounts
<1> QED
  BY <1>2, Inductive, PTL

(* m_ref_count counts the workers that may still touch the work_t; nobody  *)
(* will, and the job has run, once it is 0.                                *)
THEOREM RefCountRight == FewCalls => (Spec => []RefCountsHolders)
<1>1. ASSUME IInv, NEW t \in Tickets, work[t].call # 0
      PROVE  /\ work[t].ref >= Cardinality(Holders(t))
             /\ work[t].ref > Cardinality(Holders(t)) => Quitting
             /\ work[t].ref = 0 => AllRan(work[t].call)
  <2>1. CallOf(t) # 0 /\ CallOf(t) = work[t].call
    BY <1>1 DEF CallOf
  <2>2. TypeOK /\ OwnBoxes /\ RingPlace
    BY <1>1 DEF IInv, Lines
  <2>3. PICK H \in SUBSET Workers : H = HoldersOf(t) /\ H = Holders(t)
    BY <2>2, HoldersAre DEF HoldersOf
  <2>4. /\ work[t].ref >= Cardinality(H)
        /\ work[t].ref > Cardinality(H) => Quitting
        /\ work[t].ref < NumWorkers => work[t].next >= Ranges(t)
    BY <1>1, <2>1, <2>3, JobFacts DEF JobCounters, RefCounts
  <2>5. ASSUME work[t].ref = 0
        PROVE  AllRan(CallOf(t))
    <3>1. PICK q \in Nat, n \in Nat : q = Ranges(t) /\ n = work[t].next /\ n >= q
      BY <1>1, <2>1, <2>4, <2>5, JobFacts
    <3>2. H = {}
      <4>1. IsFiniteSet(H) /\ Cardinality(H) \in Nat
        BY WorkersFinite
      <4>2. Cardinality(H) = 0
        BY <2>4, <2>5, <4>1
      <4> QED
        BY <4>1, <4>2, FS_EmptySet
    <3>3. \A w \in Workers : hand[w].ticket # t
      BY <2>3, <3>2 DEF HoldersOf, Holds
    <3>4. \A k \in 0..(q - 1) : Executed(t, k)
      BY <3>1, <3>3 DEF Executed, Executing
    <3> QED
      BY <1>1, <2>1, <3>1, <3>4, ClaimedHaveRun
  <2> QED
    BY <2>1, <2>3, <2>4, <2>5
<1>2. IInv => RefCountsHolders
  BY <1>1 DEF RefCountsHolders
<1> QED
  BY <1>2, Inductive, PTL

(* When every thread is gone every job has run: worker 0 gets the quit     *)
(* after all its tickets, and leaves a job only when no range is left.     *)
LEMMA GoneHaveRun == IInv => GoneMeansAllRan
<1>1. ASSUME IInv, spc = "gone", NEW c \in Made
      PROVE  AllRan(c)
  <2>1. TypeOK /\ Phases /\ CallsDiffer /\ OwnBoxes /\ QuitPlace(0) /\ 0 \in Workers
    BY <1>1, Sizes DEF IInv, Lines
  <2>2. PICK t \in Tickets : CallOf(t) = c
    BY <2>1 DEF CallsDiffer
  <2>3. CallOf(t) # 0
    BY <1>1, <2>1, <2>2, StateParts DEF Made
  <2>4. \A w \in Workers : wpc[w] = "exited"
    BY <1>1, <2>1 DEF Phases
  <2>5. \A w \in Workers : hand[w].ticket # t
    BY <2>1, <2>4, StateParts
  <2>6. ~Queued(0, t)
    <3>1. First(0) = Length(0)
      BY <2>1, <2>4 DEF QuitPlace
    <3>2. First(0) \in Nat
      BY <2>1, LineParts
    <3>3. InLine(0) = {}
      BY <3>1, <3>2 DEF InLine
    <3> QED
      BY <3>3 DEF Queued
  <2>7. ~Holds(0, t)
    BY <1>1, <2>1, <2>5, <2>6 DEF Holds, Announced
  <2>8. PICK q \in Nat, n \in Nat : q = Ranges(t) /\ n = work[t].next /\ n >= q
    BY <1>1, <2>3, <2>7, JobFacts DEF JobCounters, FirstWorkerStays
  <2>9. \A k \in 0..(q - 1) : Executed(t, k)
    BY <2>5, <2>8 DEF Executed, Executing
  <2> QED
    BY <1>1, <2>2, <2>3, <2>8, <2>9, ClaimedHaveRun
<1> QED
  BY <1>1 DEF GoneMeansAllRan

(* g_destroy joins the workers after they have done all the work.          *)
THEOREM DestroyedAfterWork == FewCalls => (Spec => []GoneMeansAllRan)
BY GoneHaveRun, Inductive, PTL

(* The index a worker is about to claim, times the number of iterations of *)
(* a range, fits an s32: at most one claim too many per worker.            *)
THEOREM NoOverflow == FewCalls => (Spec => []ArithmeticFits)
<1>1. ASSUME IInv, NEW w \in Workers, wpc[w] = "claim"
      PROVE  /\ Job(w).next * Req(w).inner <= MaxInt
             /\ WorkBegin(Job(w).next, Req(w)) + Req(w).inner <= MaxInt
  <2>1. TypeOK /\ Lines
    BY <1>1 DEF IInv
  <2>2. PICK t \in Tickets : t = hand[w].ticket
    BY <1>1, <2>1, StateParts
  <2>3. CallOf(t) # 0
    BY <2>1, <2>2, HandMade
  <2>4. PICK n \in Nat, q \in Nat : n = work[t].next /\ q = Ranges(t)
    BY <1>1, <2>3, JobFacts
  <2>5. PICK L \in SUBSET Workers : L = Late(t)
    BY DEF Late
  <2>6. n <= q + Cardinality(L)
    BY <1>1, <2>3, <2>4, <2>5, JobFacts DEF JobCounters, ClaimsBounded
  <2>7. w \notin L
    BY <1>1, <2>2, <2>5 DEF Late, Holds, Leaving
  <2>8. Cardinality(L) \in Nat /\ Cardinality(L) <= NumWorkers - 1
    <3>1. Cardinality(L \cup {w}) = Cardinality(L) + 1
      BY <2>7, WorkersFinite, FS_AddElement
    <3>2. Cardinality(L \cup {w}) <= NumWorkers /\ Cardinality(L) \in Nat
      <4>1. L \cup {w} \in SUBSET Workers
        OBVIOUS
      <4> QED
        BY <4>1, WorkersFinite
    <3> QED
      BY <3>1, <3>2
  <2>9. n <= q + (NumWorkers - 1)
    BY <2>6, <2>8
  <2>10. PICK r \in Requests : r = Request(t) /\ NumRanges(r) = q
    BY <1>1, <2>3, <2>4, JobFacts DEF Ranges
  <2>11. Job(w).next = n /\ Req(w) = r
    BY <2>2, <2>4, <2>10 DEF Job, Req, Request, CallOf
  <2> QED
    BY <2>9, <2>10, <2>11, ClaimFits
<1>2. IInv => ArithmeticFits
  BY <1>1 DEF ArithmeticFits
<1> QED
  BY <1>2, Inductive, PTL
------------------------------------------------------------------------------
(* The workers together are one careful executor: JobBoard.                *)

(* An execution runs the iterations of its range, which nobody has run.    *)
LEMMA ExecuteRunsRange ==
  ASSUME IInv, NEW w \in Workers, Execute(w)
  PROVE  Board!Next
<1>1. TypeOK /\ RanTyped /\ Phases /\ CallsDiffer /\ Lines
  BY DEF IInv
<1>2. PICK t \in Tickets : t = hand[w].ticket
  BY <1>1, StateParts DEF Execute
<1>3. CallOf(t) # 0
  BY <1>1, <1>2, HandMade
<1>4. wpc[w] = "execute" /\ calls' = calls /\ spc' = spc
  BY DEF Execute, schedulerVars
<1>5. PICK c \in Made : c = CallOf(t)
  BY <1>3, JobFacts
<1>6. PICK r \in Requests : r = Request(t) /\ r = calls[c] /\ Ranges(t) = NumRanges(r)
  BY <1>3, <1>5, JobFacts DEF Request, Ranges
<1>7. PICK k \in Nat : /\ k = hand[w].k /\ k < NumRanges(r)
                       /\ \A i \in Iterations(k, r) : ran[c][i] = 0
  BY <1>1, <1>2, <1>3, <1>4, <1>5, <1>6, JobFacts, RangeFresh
<1>8. PICK first, last :
        /\ first = WorkBegin(k, r) /\ last = WorkEnd(k, r) - 1
        /\ first \in 0..(r.total - 1) /\ last \in 0..(r.total - 1) /\ first <= last
        /\ Iterations(k, r) = first..last
  <2>1. /\ WorkBegin(k, r) \in 0..(r.total - 1) /\ WorkEnd(k, r) - 1 \in 0..(r.total - 1)
        /\ WorkBegin(k, r) <= WorkEnd(k, r) - 1
        /\ Iterations(k, r) = WorkBegin(k, r)..(WorkEnd(k, r) - 1)
    BY <1>7, RangeOf
  <2> QED
    BY <2>1
<1>9. PICK I, f : I = 0..(r.total - 1) /\ f = ran[c] /\ f \in [I -> {0, 1}] /\ DOMAIN f = I
  BY <1>1, <1>6 DEF RanTyped
<1>10. ran' = [ran EXCEPT ![c] = [i \in I |-> IF i \in first..last THEN f[i] + 1 ELSE f[i]]]
  <2>1. Job(w).call = c /\ Req(w) = r /\ hand[w].k = k
    BY <1>2, <1>5, <1>6, <1>7 DEF Job, Req, CallOf
  <2>2. ran' = [ran EXCEPT ![c] = [i \in DOMAIN @ |-> IF i \in Iterations(k, r) THEN @[i] + 1 ELSE @[i]]]
    BY <2>1 DEF Execute
  <2> QED
    BY <1>8, <1>9, <2>2
<1>11. \A i \in first..last : f[i] = 0
  BY <1>7, <1>8, <1>9
<1>12. [i \in I |-> IF i \in first..last THEN f[i] + 1 ELSE f[i]]
         = [i \in I |-> IF i \in first..last THEN 1 ELSE f[i]]
  BY <1>11
<1>13. ran' = [ran EXCEPT ![c] = [i \in DOMAIN @ |-> IF i \in first..last THEN 1 ELSE @[i]]]
  BY <1>9, <1>10, <1>12
<1>14. spc # "gone" /\ spc' # "gone"
  BY <1>1, <1>4 DEF Phases
<1>15. Board!RunRange(c, first, last)
  BY <1>4, <1>8, <1>9, <1>11, <1>13, <1>14 DEF Board!RunRange
<1> QED
  BY <1>8, <1>9, <1>15 DEF Board!Next, Made

(* Every step is one of the board, or none.                                *)
LEMMA BoardStep ==
  ASSUME IInv, GoneMeansAllRan', [Next]_vars
  PROVE  [Board!Next]_(Board!boardVars)
<1>1. ASSUME NEW req \in Requests, Schedule(req)
      PROVE  Board!Next
  <2>1. spc # "gone" /\ spc' # "gone"
    BY <1>1 DEF Schedule
  <2>2. Board!Make(req)
    BY <1>1, <2>1 DEF Schedule, Board!Make
  <2> QED
    BY <2>2 DEF Board!Next
<1>2. ASSUME NEW w \in Workers, Execute(w)
      PROVE  Board!Next
  BY <1>2, ExecuteRunsRange
<1>3. CASE Join
  <2>1. spc = "join" /\ spc' \in {"join", "gone"} /\ calls' = calls /\ ran' = ran
    BY <1>3 DEF Join, NextWorker, workVars
  <2>2. CASE spc' = "gone"
    <3>1. \A c \in 1..Len(calls) : \A i \in DOMAIN ran[c] : ran[c][i] = 1
      BY <2>1, <2>2 DEF GoneMeansAllRan, AllRan, Made
    <3>2. Board!Close
      BY <2>1, <2>2, <3>1 DEF Board!Close
    <3> QED
      BY <3>2 DEF Board!Next
  <2>3. CASE spc' # "gone"
    BY <2>1, <2>3 DEF Board!boardVars
  <2> QED
    BY <2>2, <2>3
<1>4. CASE Destroy \/ Post \/ SetRaise \/ SetAlready \/ SetNotify
  <2>1. calls' = calls /\ ran' = ran
    BY <1>4, SchedulerFrame DEF Scheduler
  <2>2. spc # "gone" /\ spc' # "gone"
    BY <1>4 DEF Destroy, Post, SetRaise, SetAlready, SetNotify, AfterSet, NextWorker
  <2> QED
    BY <2>1, <2>2 DEF Board!boardVars
<1>5. ASSUME NEW w \in Workers, Worker(w) \/ SpuriousWake(w), ~Execute(w)
      PROVE  UNCHANGED Board!boardVars
  <2>1. TypeOK
    BY DEF IInv
  <2>2. calls' = calls /\ spc' = spc
    BY <1>5, <2>1, WorkerFrame
  <2>3. ran' = ran
    BY <1>5 DEF Worker, Inspect, WaitCheck, WaitBlock, SpuriousWake, WaitReset, Fetch, Claim,
                CountDone, Unref, ReleaseBatch, workVars
  <2> QED
    BY <2>2, <2>3 DEF Board!boardVars
<1>6. CASE Terminated \/ UNCHANGED vars
  BY <1>6 DEF Terminated, vars, schedulerVars, workVars, Board!boardVars
<1> QED
  BY <1>1, <1>2, <1>3, <1>4, <1>5, <1>6 DEF Next, Scheduler

(* The job system, workers, queues, signals and counters, implements the   *)
(* board of jobs: every iteration is run once, in ranges, and nothing is   *)
(* left to run when the system is gone.                                    *)
THEOREM Implements == FewCalls => (Spec => ImplementsJobBoard)
<1> SUFFICES ASSUME FewCalls
             PROVE  Spec => Board!Spec
  BY DEF ImplementsJobBoard
<1>1. Init => Board!Init
  BY DEF Init, Board!Init, Calls
<1>2. IInv /\ GoneMeansAllRan' /\ [Next]_vars => [Board!Next]_(Board!boardVars)
  BY BoardStep
<1>3. Spec => []IInv
  BY Inductive
<1> QED
  BY <1>1, <1>2, <1>3, GoneHaveRun, PTL DEF Spec, Board!Spec
==============================================================================
