----------------------------- MODULE DecodeProofs -----------------------------
(***************************************************************************)
(* Theorems about decodes: DecodeScheduler, for any set of jobs and any      *)
(* bounds, and DecodeReader, for any layouts, any capacity of a segment and  *)
(* any number of segments whose names can be found.                          *)
(***************************************************************************)
EXTENDS DecodeScheduler, DecodeReader, Induction

-----------------------------------------------------------------------------
(* The scheduler: what a sequence of jobs becomes. *)

(* A sequence that repeats nothing has as many elements as places.           *)
LEMMA NothingRepeated ==
  ASSUME NEW X, NEW s \in Seq(X), IsInjective(s)
  PROVE  Cardinality(ToSet(s)) = Len(s)
<1>1. Len(s) \in Nat /\ DOMAIN s = 1 .. Len(s) /\ s = [k \in 1 .. Len(s) |-> s[k]]
  OBVIOUS
<1>2. s \in Bijection(1 .. Len(s), ToSet(s))
  BY <1>1 DEF IsInjective, ToSet, Bijection, Injection, Surjection
<1>3. QED
  BY <1>1, <1>2, FS_CountingElements DEF ExistsBijection

LEMMA NothingListed ==
  ASSUME NEW s \in Seq(Jobs)
  PROVE  ToSet(s) \subseteq Jobs /\ (s = <<>> <=> ToSet(s) = {})
<1>1. Len(s) \in Nat /\ DOMAIN s = 1 .. Len(s) /\ (s = <<>> <=> Len(s) = 0)
  OBVIOUS
<1>2. s # <<>> => 1 \in DOMAIN s
  BY <1>1
<1>3. QED
  BY <1>1, <1>2 DEF ToSet

LEMMA NoneListed == <<>> \in Seq(Jobs) /\ IsInjective(<<>>) /\ ToSet(<<>>) = {}
BY DEF IsInjective, ToSet

(* What is left of a batch, or of a queue. *)
LEMMA TailOfBatch ==
  ASSUME NEW b \in Seq(Jobs), b # <<>>
  PROVE  /\ Tail(b) \in Seq(Jobs) /\ Head(b) \in ToSet(b) /\ Head(b) \in Jobs
         /\ ToSet(b) = ToSet(Tail(b)) \cup {Head(b)}
         /\ IsInjective(b) => IsInjective(Tail(b)) /\ Head(b) \notin ToSet(Tail(b))
<1>1. /\ Len(b) \in Nat \ {0} /\ Len(Tail(b)) = Len(b) - 1 /\ Tail(b) \in Seq(Jobs)
      /\ \A k \in 1 .. Len(b) - 1 : Tail(b)[k] = b[k + 1]
      /\ Head(b) = b[1] /\ DOMAIN b = 1 .. Len(b) /\ DOMAIN Tail(b) = 1 .. Len(b) - 1
  OBVIOUS
<1>2. /\ \A k \in DOMAIN Tail(b) : k + 1 \in DOMAIN b /\ k + 1 # 1
      /\ \A k \in DOMAIN b : k # 1 => k - 1 \in DOMAIN Tail(b) /\ k - 1 + 1 = k
      /\ 1 \in DOMAIN b
  BY <1>1
<1>3. ToSet(b) = ToSet(Tail(b)) \cup {Head(b)}
  <2>1. ASSUME NEW k \in DOMAIN b PROVE b[k] \in ToSet(Tail(b)) \cup {Head(b)}
    <3>1. CASE k = 1
      BY <1>1, <3>1
    <3>2. CASE k # 1
      <4>1. k - 1 \in DOMAIN Tail(b) /\ Tail(b)[k - 1] = b[k]
        BY <1>1, <1>2, <3>2
      <4>2. QED
        BY <4>1 DEF ToSet
    <3>3. QED
      BY <3>1, <3>2
  <2>2. \A k \in DOMAIN Tail(b) : Tail(b)[k] = b[k + 1] /\ k + 1 \in DOMAIN b
    BY <1>1, <1>2
  <2>3. ToSet(b) \subseteq ToSet(Tail(b)) \cup {Head(b)}
    BY <2>1 DEF ToSet
  <2>4. ToSet(Tail(b)) \subseteq ToSet(b)
    BY <2>2 DEF ToSet
  <2>5. Head(b) \in ToSet(b)
    BY <1>1, <1>2 DEF ToSet
  <2>6. QED
    BY <2>3, <2>4, <2>5
<1>4. ASSUME IsInjective(b) PROVE IsInjective(Tail(b)) /\ Head(b) \notin ToSet(Tail(b))
  <2>1. \A k, l \in DOMAIN b : b[k] = b[l] => k = l
    BY <1>4 DEF IsInjective
  <2>2. ASSUME NEW k \in DOMAIN Tail(b), NEW l \in DOMAIN Tail(b), Tail(b)[k] = Tail(b)[l]
        PROVE  k = l
    <3>1. k + 1 \in DOMAIN b /\ l + 1 \in DOMAIN b /\ b[k + 1] = b[l + 1]
      BY <1>1, <1>2, <2>2
    <3>2. k + 1 = l + 1
      BY <2>1, <3>1
    <3>3. QED
      BY <1>1, <3>2
  <2>3. ASSUME NEW k \in DOMAIN Tail(b), Tail(b)[k] = b[1] PROVE FALSE
    <3>1. k + 1 \in DOMAIN b /\ k + 1 # 1 /\ b[k + 1] = b[1]
      BY <1>1, <1>2, <2>3
    <3>2. QED
      BY <1>2, <2>1, <3>1
  <2>4. QED
    BY <1>1, <2>2, <2>3 DEF IsInjective, ToSet
<1>5. Head(b) \in Jobs /\ Head(b) \in ToSet(b)
  BY <1>1, <1>2 DEF ToSet
<1>6. QED
  BY <1>1, <1>3, <1>4, <1>5

(* A job that is looked at goes from one list to the other, or out of both.  *)
LEMMA LookedOver ==
  ASSUME NEW r \in Seq(Jobs), NEW l \in Seq(Jobs), l # <<>>
  PROVE  LET s == r \o l
             n == Len(r) + 1
         IN  /\ Append(r, Head(l)) \o Tail(l) = s
             /\ n \in DOMAIN s /\ s[n] = Head(l)
             /\ SubSeq(s, 1, n - 1) \o SubSeq(s, n + 1, Len(s)) = r \o Tail(l)
<1> DEFINE s == r \o l
           n == Len(r) + 1
           R == Len(r)
           L == Len(l)
<1>1. /\ R \in Nat /\ L \in Nat \ {0} /\ Tail(l) \in Seq(Jobs) /\ Len(Tail(l)) = L - 1
      /\ \A k \in 1 .. L - 1 : Tail(l)[k] = l[k + 1]
      /\ Head(l) = l[1] /\ Head(l) \in Jobs
  OBVIOUS
<1>2. /\ s \in Seq(Jobs) /\ Len(s) = R + L /\ DOMAIN s = 1 .. R + L
      /\ \A k \in 1 .. R : s[k] = r[k]
      /\ \A k \in R + 1 .. R + L : s[k] = l[k - R]
  OBVIOUS
<1> HIDE DEF s
<1>3. n \in DOMAIN s /\ s[n] = Head(l)
  BY <1>1, <1>2
<1>4. Append(r, Head(l)) \o Tail(l) = s
  <2> DEFINE a == Append(r, Head(l))
             t == a \o Tail(l)
  <2>1. /\ a \in Seq(Jobs) /\ Len(a) = R + 1 /\ a[R + 1] = Head(l)
        /\ \A k \in 1 .. R : a[k] = r[k]
    BY <1>1
  <2> HIDE DEF a
  <2>2. /\ t \in Seq(Jobs) /\ Len(t) = R + L
        /\ \A k \in 1 .. R + 1 : t[k] = a[k]
        /\ \A k \in R + 2 .. R + L : t[k] = Tail(l)[k - (R + 1)]
    BY <1>1, <2>1
  <2> HIDE DEF t
  <2>3. ASSUME NEW k \in 1 .. R + L PROVE t[k] = s[k]
    <3>1. CASE k <= R
      BY <1>1, <1>2, <2>1, <2>2, <3>1
    <3>2. CASE k = R + 1
      BY <1>1, <1>2, <2>1, <2>2, <3>2
    <3>3. CASE k > R + 1
      <4>1. k - (R + 1) \in 1 .. L - 1 /\ (k - (R + 1)) + 1 = k - R
        BY <1>1, <3>3
      <4>2. t[k] = l[k - R]
        BY <1>1, <2>2, <3>3, <4>1
      <4>3. QED
        BY <1>1, <1>2, <3>3, <4>2
    <3>4. QED
      BY <1>1, <3>1, <3>2, <3>3
  <2>4. t = s
    BY <1>1, <1>2, <2>2, <2>3, SeqEqual
  <2>5. QED
    BY <2>4 DEF t, a
<1>5. SubSeq(s, 1, n - 1) \o SubSeq(s, n + 1, Len(s)) = r \o Tail(l)
  <2> DEFINE u == SubSeq(s, 1, n - 1)
             v == SubSeq(s, n + 1, Len(s))
  <2>1. u = r
    <3>1. /\ SubSeq(s, 0 + 1, 0 + R) \in Seq(Jobs) /\ Len(SubSeq(s, 0 + 1, 0 + R)) = R
          /\ \A i \in 1 .. R : SubSeq(s, 0 + 1, 0 + R)[i] = s[0 + i]
      <4>1. 0 \in Nat /\ R \in Nat /\ 0 + R <= Len(s)
        BY <1>1, <1>2
      <4>2. QED
        BY <1>2, <4>1, Stretch
    <3>2. 0 + 1 = 1 /\ 0 + R = n - 1 /\ \A i \in 1 .. R : 0 + i = i
      BY <1>1
    <3>3. u \in Seq(Jobs) /\ Len(u) = R /\ \A i \in 1 .. R : u[i] = r[i]
      BY <1>2, <3>1, <3>2
    <3>4. QED
      BY <3>3, SeqEqual
  <2>2. v = Tail(l)
    <3>1. /\ SubSeq(s, n + 1, n + (L - 1)) \in Seq(Jobs)
          /\ Len(SubSeq(s, n + 1, n + (L - 1))) = L - 1
          /\ \A i \in 1 .. L - 1 : SubSeq(s, n + 1, n + (L - 1))[i] = s[n + i]
      <4> DEFINE K == L - 1
      <4>1. n \in Nat /\ K \in Nat /\ n + K <= Len(s)
        BY <1>1, <1>2
      <4> HIDE DEF K, n
      <4>2. /\ SubSeq(s, n + 1, n + K) \in Seq(Jobs) /\ Len(SubSeq(s, n + 1, n + K)) = K
            /\ \A i \in 1 .. K : SubSeq(s, n + 1, n + K)[i] = s[n + i]
        BY <1>2, <4>1, Stretch
      <4>3. QED
        BY <4>2 DEF K
    <3>2. n + (L - 1) = Len(s)
      BY <1>1, <1>2
    <3>3. ASSUME NEW i \in 1 .. L - 1 PROVE s[n + i] = Tail(l)[i]
      <4>1. n + i \in R + 1 .. R + L /\ (n + i) - R = i + 1
        BY <1>1
      <4>2. QED
        BY <1>1, <1>2, <4>1
    <3>4. v \in Seq(Jobs) /\ Len(v) = L - 1 /\ \A i \in 1 .. L - 1 : v[i] = Tail(l)[i]
      BY <3>1, <3>2, <3>3
    <3>5. QED
      BY <1>1, <3>4, SeqEqual
  <2>3. QED
    BY <2>1, <2>2
<1>6. QED
  BY <1>3, <1>4, <1>5 DEF s

-----------------------------------------------------------------------------
(* A command's jobs in the queue.                                            *)

InOrder(list, old) == Abstract!InOrder(list, old)
Lists(list, jobs, old) == Abstract!Lists(list, jobs, old)

LEMMA SameLists ==
  \A s : Abstract!ToSet(s) = ToSet(s) /\ (Abstract!IsInjective(s) <=> IsInjective(s))
BY DEF ToSet, Abstract!ToSet, IsInjective, Abstract!IsInjective

LEMMA NormalizeFacts ==
  ASSUME NEW jobs \in Seq(Jobs \cup {NoJob})
  PROVE  Normalize(jobs) \in Seq(Jobs)
<1>1. /\ <<>> \in Seq(Jobs \cup {NoJob}) /\ IsInjective(<<>>) /\ ToSet(<<>>) = {}
  BY DEF IsInjective, ToSet
<1> DEFINE new == Normalize(jobs)
<1>2. new \in Seq(Jobs \cup {NoJob}) /\ ToSet(new) \subseteq ToSet(jobs) \ {NoJob}
  BY <1>1, AddNewFacts DEF Normalize
<1> HIDE DEF new
<1>3. ToSet(jobs) \subseteq Jobs \cup {NoJob}
  BY DEF ToSet
<1>4. \A k \in 1 .. Len(new) : new[k] \in Jobs
  BY <1>2, <1>3 DEF ToSet
<1>5. QED
  BY <1>2, <1>4 DEF new

(* A queue that grew at its end has the order of the queue it was. *)
LEMMA GrownIsInOrder ==
  ASSUME NEW old \in Seq(Jobs), NEW queue \in Seq(Jobs), IsInjective(queue),
         GrownFrom(queue, old)
  PROVE  InOrder(queue, old)
<1>1. /\ DOMAIN queue = 1 .. Len(queue) /\ DOMAIN old = 1 .. Len(old)
      /\ Len(queue) \in Nat /\ Len(old) \in Nat
  OBVIOUS
<1>2. ASSUME NEW m \in DOMAIN queue, NEW n \in DOMAIN queue, NEW k \in DOMAIN old,
             m < n, queue[n] = old[k]
      PROVE  \E i \in DOMAIN old : i < k /\ queue[m] = old[i]
  <2>1. k \in DOMAIN queue /\ queue[k] = queue[n]
    BY <1>1, <1>2 DEF GrownFrom
  <2>2. n = k
    BY <2>1 DEF IsInjective
  <2>3. m \in DOMAIN old /\ queue[m] = old[m] /\ m < k
    BY <1>1, <1>2, <2>2 DEF GrownFrom
  <2>4. QED
    BY <2>3
<1>3. QED
  BY <1>2 DEF InOrder, Abstract!InOrder

(* What a command's jobs are after _normalize_jobs. *)
Valid(jobs) == ToSet(Normalize(jobs))

(* The queue S, in the order of old, and whether it is gone through.         *)
Scheduled(S, old, alive) ==
  /\ pending' \in Seq(Jobs) /\ Lists(pending', S, old)
  /\ IF alive # {} \/ pending' = <<>> THEN UNCHANGED scanVars
     ELSE step' = "look" /\ left' = pending' /\ UNCHANGED <<runnable, found>>

LEMMA EnqueueQueues ==
  ASSUME NEW jobs \in Seq(Jobs \cup {NoJob}), NEW replace \in BOOLEAN, NEW batch,
         NEW alive, pending \in Seq(Jobs), IsInjective(pending),
         NEW old, old = (IF replace THEN <<>> ELSE pending),
         Enqueue(jobs, replace, batch, alive)
  PROVE  /\ Valid(jobs) \subseteq Jobs
         /\ Valid(jobs) = {} => UNCHANGED <<pending, scanVars>>
         /\ Valid(jobs) # {} => Scheduled(ToSet(old) \cup (Valid(jobs) \ InFlight(batch)),
                                          old, alive)
<1> DEFINE new == Normalize(jobs)
           queue == AddNew(old, new, InFlight(batch))
<1>1. new \in Seq(Jobs)
  BY NormalizeFacts
<1>2. old \in Seq(Jobs) /\ IsInjective(old)
  BY DEF IsInjective
<1>3. IF new = <<>> THEN UNCHANGED <<pending, scanVars>> ELSE Schedule(queue, alive)
  BY DEF Enqueue
<1>4. Valid(jobs) = ToSet(new)
  BY DEF Valid
<1> HIDE DEF new
<1>5. ToSet(new) \subseteq Jobs /\ (new = <<>> <=> ToSet(new) = {})
  BY <1>1, NothingListed
<1>6. CASE new = <<>>
  BY <1>3, <1>4, <1>5, <1>6
<1>7. CASE new # <<>>
  <2>1. /\ queue \in Seq(Jobs) /\ IsInjective(queue)
        /\ ToSet(queue) \subseteq ToSet(old) \cup (ToSet(new) \ InFlight(batch))
    BY <1>1, <1>2, AddNewFacts
  <2>2. GrownFrom(queue, old) /\ ToSet(new) \subseteq ToSet(queue) \cup InFlight(batch)
    BY <1>1, <1>2, AddNewKeeps
  <2>3. Schedule(queue, alive)
    BY <1>3, <1>7
  <2> HIDE DEF queue
  <2>4. ToSet(old) \subseteq ToSet(queue)
    <3>1. DOMAIN old = 1 .. Len(old) /\ DOMAIN queue = 1 .. Len(queue)
      BY <1>2, <2>1
    <3>2. \A k \in DOMAIN old : k \in DOMAIN queue /\ queue[k] = old[k]
      BY <1>2, <2>1, <2>2, <3>1 DEF GrownFrom
    <3>3. QED
      BY <3>2 DEF ToSet
  <2>5. ToSet(queue) = ToSet(old) \cup (ToSet(new) \ InFlight(batch))
    BY <2>1, <2>2, <2>4
  <2>6. InOrder(queue, old)
    BY <1>2, <2>1, <2>2, GrownIsInOrder
  <2>7. Scheduled(ToSet(queue), old, alive)
    BY <2>1, <2>3, <2>6, SameLists
    DEF Schedule, Scheduled, IsBusy, Lists, Abstract!Lists, InOrder
  <2>8. QED
    BY <1>4, <1>5, <1>7, <2>5, <2>7
<1>8. QED
  BY <1>6, <1>7

LEMMA RequestTypes ==
  ASSUME NEW r \in Requests
  PROVE  r.jobs \in Seq(Jobs \cup {NoJob})
<1>1. CASE r = Request("discard", <<>>)
  BY <1>1 DEF Request
<1>2. CASE r # Request("discard", <<>>)
  <2>1. r.jobs \in BoundedSeq(Jobs \cup {NoJob}, MaxRequest)
    BY <1>2 DEF Requests
  <2>2. PICK m \in 0 .. MaxRequest : r.jobs \in [1 .. m -> Jobs \cup {NoJob}]
    BY <2>1 DEF BoundedSeq, SeqOf
  <2>3. m \in Nat
    BY <2>2, SchedulerAssumption
  <2>4. QED
    BY <2>2, <2>3
<1>3. QED
  BY <1>1, <1>2

-----------------------------------------------------------------------------
(* The inductive invariant of the scheduler.                                 *)

(* No worker, or one. *)
AtMostOne(alive) == \A b, c \in alive : b = c

(* Neither the queue nor the batch repeats a job; a worker's batch is a part *)
(* of the batch, and none of it is queued.                                   *)
Queued(queue, batch, alive) ==
  /\ queue \in Seq(Jobs) /\ IsInjective(queue)
  /\ batch \in Seq(Jobs) /\ IsInjective(batch)
  /\ \A b \in alive : /\ b \in Seq(Jobs) /\ b # <<>>
                      /\ ToSet(b) \subseteq ToSet(batch)
                      /\ ToSet(b) \cap ToSet(queue) = {}

(* While a command goes through the queue no worker runs; no job is in two   *)
(* of the lists, and what is runnable is still not on disk.                  *)
ScanInv ==
  /\ step \in {"none", "look", "tell", "complete"}
  /\ step = "none" => left = <<>> /\ runnable = <<>>
  /\ step # "none" => running = {}
  /\ left \in Seq(Jobs) /\ IsInjective(left)
  /\ runnable \in Seq(Jobs) /\ IsInjective(runnable)
  /\ ToSet(runnable) \cap ToSet(left) = {}
  /\ \A job \in ToSet(runnable) : ~DecodeExists(job)
  /\ IF step \in {"tell", "complete"} THEN found \in Jobs ELSE found = NoJob

(* The decoder remembers what the observers were told; once the signals of   *)
(* the job at hand are told they are those on disk.                          *)
ToldInv ==
  /\ known = shown /\ DOMAIN shown = Jobs
  /\ step = "complete" => undone \/ shown[found] = SignalPairs(found)

SchedulerInv ==
  /\ decoding = NoJob
  /\ request.jobs \in Seq(Jobs \cup {NoJob})
  /\ AtMostOne(running) /\ Queued(pending, active, running)
  /\ ScanInv /\ ToldInv

(* A command that gets the lock finds nothing of another one under way.      *)
LEMMA ScheduledKeeps ==
  ASSUME SchedulerInv, step = "none", NEW S, NEW old, NEW alive,
         Scheduled(S, old, alive), running' \subseteq alive, alive = {} => running' = {},
         known' = shown', DOMAIN shown' = Jobs, output' = output
  PROVE  ScanInv' /\ ToldInv' /\ IsInjective(pending')
<1>1. pending' \in Seq(Jobs) /\ IsInjective(pending')
  BY SameLists DEF Scheduled, Lists, Abstract!Lists
<1>2. /\ left = <<>> /\ runnable = <<>> /\ found = NoJob
  BY DEF SchedulerInv, ScanInv
<1>3. \/ step' = "none" /\ left' = <<>> /\ runnable' = <<>> /\ found' = NoJob
      \/ /\ step' = "look" /\ left' = pending' /\ runnable' = <<>> /\ found' = NoJob
         /\ running' = {}
  BY <1>2 DEF Scheduled, scanVars
<1>4. QED
  BY <1>1, <1>3, NoneListed DEF ScanInv, ToldInv
-----------------------------------------------------------------------------

LEMMA SubmitKeeps ==
  ASSUME SchedulerInv, SubmitDecodeJobs
  PROVE  SchedulerInv'
<1> DEFINE S == Valid(request.jobs)
           all == ToSet(pending) \cup (S \ InFlight(active))
<1>1. /\ Enqueue(request.jobs, FALSE, active, running) /\ step = "none"
      /\ UNCHANGED <<active, decoding, known, running, output, shown, undone>>
      /\ request' = NoRequest
  BY DEF SubmitDecodeJobs, Locked, workerVars
<1>2. /\ S = {} => UNCHANGED <<pending, scanVars>>
      /\ S # {} => Scheduled(all, pending, running)
  BY <1>1, EnqueueQueues DEF SchedulerInv, Queued
<1> HIDE DEF S
<1>3. request'.jobs \in Seq(Jobs \cup {NoJob}) /\ decoding' = NoJob /\ AtMostOne(running')
  BY <1>1 DEF NoRequest, Request, SchedulerInv
<1>4. CASE S = {}
  <2>1. UNCHANGED <<pending, scanVars>>
    BY <1>2, <1>4
  <2>2. Queued(pending', active', running') /\ ScanInv' /\ ToldInv'
    BY <1>1, <2>1 DEF SchedulerInv, scanVars, ScanInv, ToldInv, DecodeExists
  <2>3. QED
    BY <1>3, <2>2 DEF SchedulerInv
<1>5. CASE S # {}
  <2>1. Scheduled(all, pending, running)
    BY <1>2, <1>5
  <2>2. known' = shown' /\ DOMAIN shown' = Jobs
    BY <1>1 DEF SchedulerInv, ToldInv
  <2>3. ScanInv' /\ ToldInv' /\ IsInjective(pending')
    BY <1>1, <2>1, <2>2, ScheduledKeeps
  <2>4. pending' \in Seq(Jobs) /\ ToSet(pending') = all
    BY <2>1, SameLists DEF Scheduled, Lists, Abstract!Lists
  <2>5. ToSet(active) \subseteq InFlight(active)
    BY DEF InFlight
  <2>6. Queued(pending', active', running')
    BY <1>1, <2>3, <2>4, <2>5 DEF SchedulerInv, Queued
  <2>7. QED
    BY <1>3, <2>3, <2>6 DEF SchedulerInv
<1>6. QED
  BY <1>4, <1>5

LEMMA SetKeeps ==
  ASSUME SchedulerInv, SetDecodeJobs
  PROVE  SchedulerInv'
<1> DEFINE S == Valid(request.jobs)
           all == ToSet(<<>>) \cup (S \ InFlight(<<>>))
<1>1. /\ Enqueue(request.jobs, TRUE, <<>>, {}) /\ step = "none"
      /\ UNCHANGED <<known, output, shown, undone>>
      /\ active' = <<>> /\ running' = {} /\ decoding' = NoJob /\ request' = NoRequest
  BY DEF SetDecodeJobs, Locked, Reset, SchedulerInv
<1>2. /\ S = {} => UNCHANGED <<pending, scanVars>>
      /\ S # {} => Scheduled(all, <<>>, {})
  BY <1>1, EnqueueQueues DEF SchedulerInv, Queued
<1> HIDE DEF S
<1>3. request'.jobs \in Seq(Jobs \cup {NoJob}) /\ decoding' = NoJob /\ AtMostOne(running')
  BY <1>1 DEF NoRequest, Request, AtMostOne
<1>4. CASE S = {}
  <2>1. UNCHANGED <<pending, scanVars>>
    BY <1>2, <1>4
  <2>2. Queued(pending', active', running')
    BY <1>1, <2>1, NoneListed DEF SchedulerInv, Queued
  <2>3. ScanInv' /\ ToldInv'
    BY <1>1, <2>1 DEF SchedulerInv, scanVars, ScanInv, ToldInv, DecodeExists
  <2>4. QED
    BY <1>3, <2>2, <2>3 DEF SchedulerInv
<1>5. CASE S # {}
  <2>1. Scheduled(all, <<>>, {})
    BY <1>2, <1>5
  <2>2. known' = shown' /\ DOMAIN shown' = Jobs
    BY <1>1 DEF SchedulerInv, ToldInv
  <2>3. ScanInv' /\ ToldInv' /\ IsInjective(pending')
    BY <1>1, <2>1, <2>2, ScheduledKeeps
  <2>4. pending' \in Seq(Jobs)
    BY <2>1 DEF Scheduled
  <2>5. Queued(pending', active', running')
    BY <1>1, <2>3, <2>4, NoneListed DEF Queued
  <2>6. QED
    BY <1>3, <2>3, <2>5 DEF SchedulerInv
<1>6. QED
  BY <1>4, <1>5

(* Discarding leaves nothing, and no decode to forget the signals of. *)
LEMMA DiscardKeeps ==
  ASSUME SchedulerInv, Discard, step = "none", request' \in {request, NoRequest}
  PROVE  SchedulerInv'
<1>1. /\ pending' = <<>> /\ active' = <<>> /\ running' = {} /\ decoding' = NoJob
      /\ UNCHANGED <<known, output, scanVars, shown, undone>>
  BY DEF Discard, SchedulerInv, Reset
<1>2. request'.jobs \in Seq(Jobs \cup {NoJob})
  <2>1. NoRequest.jobs \in Seq(Jobs \cup {NoJob})
    BY DEF NoRequest, Request
  <2>2. request.jobs \in Seq(Jobs \cup {NoJob})
    BY DEF SchedulerInv
  <2>3. request' = request \/ request' = NoRequest
    OBVIOUS
  <2>4. QED
    BY <2>1, <2>2, <2>3
<1>3. Queued(pending', active', running') /\ AtMostOne(running')
  BY <1>1, NoneListed DEF Queued, AtMostOne
<1>4. ScanInv' /\ ToldInv'
  BY <1>1 DEF SchedulerInv, scanVars, ScanInv, ToldInv
<1>5. QED
  BY <1>1, <1>2, <1>3, <1>4 DEF SchedulerInv

LEMMA LookUpKeeps ==
  ASSUME SchedulerInv, LookUp
  PROVE  SchedulerInv'
<1> DEFINE job == Head(left)
<1>1. /\ step = "look" /\ left # <<>> /\ left' = Tail(left)
      /\ UNCHANGED <<request, pending, active, decoding, known, running, output, shown>>
  BY DEF LookUp, threadVars, schedulerVars, workerVars
<1>2. /\ left \in Seq(Jobs) /\ IsInjective(left) /\ running = {}
      /\ runnable \in Seq(Jobs) /\ IsInjective(runnable)
      /\ ToSet(runnable) \cap ToSet(left) = {} /\ found = NoJob
      /\ \A j \in ToSet(runnable) : ~DecodeExists(j)
  BY <1>1 DEF SchedulerInv, ScanInv
<1>3. /\ Tail(left) \in Seq(Jobs) /\ IsInjective(Tail(left)) /\ job \in Jobs
      /\ job \notin ToSet(Tail(left)) /\ job \in ToSet(left)
      /\ ToSet(Tail(left)) \subseteq ToSet(left)
  BY <1>1, <1>2, TailOfBatch
<1>4. \/ /\ DecodeExists(job) /\ step' = "tell" /\ found' = job /\ runnable' = runnable
      \/ /\ ~DecodeExists(job) /\ step' = "look" /\ found' = NoJob
         /\ runnable' = Append(runnable, job)
  BY <1>1, <1>2 DEF LookUp
<1>5. \A j : DecodeExists(j)' <=> DecodeExists(j)
  BY <1>1 DEF DecodeExists
<1> HIDE DEF job
<1>6. ScanInv'
  <2>1. CASE runnable' = runnable /\ step' = "tell" /\ found' = job
    BY <1>1, <1>2, <1>3, <1>5, <2>1 DEF ScanInv
  <2>2. CASE /\ ~DecodeExists(job) /\ step' = "look" /\ found' = NoJob
             /\ runnable' = Append(runnable, job)
    <3>1. ~Contains(runnable, job)
      BY <1>2, <1>3 DEF Contains, ToSet
    <3>2. /\ runnable' \in Seq(Jobs) /\ ToSet(runnable') = ToSet(runnable) \cup {job}
          /\ IsInjective(runnable')
      BY <1>2, <1>3, <2>2, <3>1, AppendNew
    <3>3. ToSet(runnable') \cap ToSet(left') = {}
      BY <1>1, <1>2, <1>3, <3>2
    <3>4. \A j \in ToSet(runnable') : ~DecodeExists(j)'
      BY <1>2, <1>5, <2>2, <3>2
    <3>5. QED
      BY <1>1, <1>2, <1>3, <2>2, <3>2, <3>3, <3>4 DEF ScanInv
  <2>3. QED
    BY <1>4, <2>1, <2>2
<1>7. ToldInv'
  BY <1>1, <1>4 DEF SchedulerInv, ToldInv
<1>8. QED
  BY <1>1, <1>6, <1>7 DEF SchedulerInv

LEMMA TellKeeps ==
  ASSUME SchedulerInv, TellSignals
  PROVE  SchedulerInv'
<1>1. /\ step = "tell" /\ step' = "complete"
      /\ UNCHANGED <<request, pending, active, decoding, running, output, left, runnable, found>>
  BY DEF TellSignals, threadVars, workerVars
<1>2. ScanInv' /\ found \in Jobs
  BY <1>1 DEF SchedulerInv, ScanInv, DecodeExists
<1>3. SignalPairs(found)' = SignalPairs(found)
  BY <1>1 DEF SignalPairs
<1>4. CASE undone' = TRUE /\ UNCHANGED <<known, shown>>
  <2>1. ToldInv'
    BY <1>4 DEF SchedulerInv, ToldInv
  <2>2. QED
    BY <1>1, <1>2, <2>1 DEF SchedulerInv
<1>5. CASE TellsSignals(known, found) /\ known' = [known EXCEPT ![found] = SignalPairs(found)]
           /\ shown' = [shown EXCEPT ![found] = SignalPairs(found)]
  <2>1. known' = shown' /\ DOMAIN shown' = Jobs /\ shown'[found] = SignalPairs(found)
    BY <1>2, <1>5 DEF SchedulerInv, ToldInv
  <2>2. ToldInv'
    BY <1>1, <1>3, <2>1 DEF ToldInv
  <2>3. QED
    BY <1>1, <1>2, <2>2 DEF SchedulerInv
<1>6. CASE ~TellsSignals(known, found) /\ UNCHANGED <<known, shown>>
  <2>1. known[found] = SignalPairs(found)
    BY <1>6 DEF TellsSignals
  <2>2. ToldInv'
    BY <1>1, <1>3, <1>6, <2>1 DEF SchedulerInv, ToldInv
  <2>3. QED
    BY <1>1, <1>2, <2>2 DEF SchedulerInv
<1>7. QED
  BY <1>4, <1>5, <1>6 DEF TellSignals

LEMMA CompleteKeeps ==
  ASSUME SchedulerInv, NotifyComplete
  PROVE  SchedulerInv'
<1>1. /\ step = "complete" /\ step' = "look" /\ found' = NoJob
      /\ UNCHANGED <<request, pending, active, decoding, known, running, output, left, runnable,
                     shown>>
  BY DEF NotifyComplete, threadVars, schedulerVars, workerVars
<1>2. ScanInv' /\ ToldInv'
  BY <1>1 DEF SchedulerInv, ScanInv, ToldInv, DecodeExists
<1>3. QED
  BY <1>1, <1>2 DEF SchedulerInv

LEMMA SpawnKeeps ==
  ASSUME SchedulerInv, SpawnDecode
  PROVE  SchedulerInv'
<1>1. /\ step = "look" /\ left = <<>> /\ step' = "none" /\ pending' = <<>> /\ runnable' = <<>>
      /\ UNCHANGED <<request, known, output, left, found, shown, undone>>
  BY DEF SpawnDecode, threadVars, historyVars
<1>2. /\ running = {} /\ runnable \in Seq(Jobs) /\ IsInjective(runnable) /\ found = NoJob
      /\ active \in Seq(Jobs) /\ IsInjective(active) /\ decoding = NoJob
  BY <1>1 DEF SchedulerInv, ScanInv, Queued
<1>3. \/ active' = active /\ running' = {} /\ decoding' = NoJob
      \/ active' = runnable /\ runnable # <<>> /\ running' = {runnable} /\ decoding' = NoJob
  BY <1>2 DEF SpawnDecode
<1>4. Queued(pending', active', running') /\ AtMostOne(running')
  BY <1>1, <1>2, <1>3, NoneListed DEF Queued, AtMostOne
<1>5. ScanInv' /\ ToldInv'
  BY <1>1, <1>2, NoneListed DEF SchedulerInv, ScanInv, ToldInv
<1>6. QED
  BY <1>1, <1>3, <1>4, <1>5 DEF SchedulerInv

(* A removal leaves nothing more on disk than there was for a decode that    *)
(* is complete, and takes back what was told.                                *)
LEMMA RemoveKeeps ==
  ASSUME SchedulerInv, NEW jobs \in SUBSET Jobs, RemoveDecodes(jobs)
  PROVE  SchedulerInv'
<1>1. /\ UNCHANGED <<request, pending, active, decoding, known, running, scanVars, shown>>
      /\ undone' = (undone \/ found \in jobs)
  BY DEF RemoveDecodes, threadVars, schedulerVars
<1>2. step = step' /\ left' = left /\ runnable' = runnable /\ found' = found
  BY <1>1 DEF scanVars
<1>3. \A j \in Jobs : output'[j] = IF j \notin jobs THEN output[j]
                                   ELSE IF Writing(j) THEN "torn" ELSE "none"
  BY DEF RemoveDecodes
<1>4. ASSUME NEW j \in ToSet(runnable) PROVE ~DecodeExists(j)'
  <2>1. j \in Jobs /\ ~DecodeExists(j) /\ step # "none"
    <3>1. runnable \in Seq(Jobs) /\ ~DecodeExists(j) /\ (step = "none" => runnable = <<>>)
      BY DEF SchedulerInv, ScanInv
    <3>2. QED
      BY <3>1, NothingListed, NoneListed
  <2>2. ~Writing(j)
    BY <2>1 DEF SchedulerInv, ScanInv, Writing
  <2>3. output'[j] \in {output[j], "none"}
    BY <1>3, <2>1, <2>2
  <2>4. "none" \notin CountsAsDecoded
    BY SchedulerAssumption
  <2>5. QED
    BY <2>1, <2>3, <2>4 DEF DecodeExists
<1>5. ScanInv'
  BY <1>1, <1>2, <1>4 DEF SchedulerInv, ScanInv
<1>6. ToldInv'
  <2>1. ASSUME step = "complete", ~undone' PROVE shown[found] = SignalPairs(found)'
    <3>1. found \in Jobs /\ found \notin jobs /\ shown[found] = SignalPairs(found)
      BY <1>1, <2>1 DEF SchedulerInv, ScanInv, ToldInv
    <3>2. output'[found] = output[found]
      BY <1>3, <3>1
    <3>3. QED
      BY <1>2, <3>1, <3>2 DEF SignalPairs
  <2>2. QED
    BY <1>1, <1>2, <2>1 DEF SchedulerInv, ToldInv
<1>7. QED
  BY <1>1, <1>5, <1>6 DEF SchedulerInv

(* A worker that goes on with its batch stays the same worker, and has no     *)
(* other jobs than it had.                                                   *)
LEMMA WorkKeeps ==
  ASSUME SchedulerInv, Work \/ WorkerDies
  PROVE  SchedulerInv'
<1>1. UNCHANGED <<request, pending, active, decoding, known, scanVars, shown, undone>>
  BY DEF Work, Begin, Finish, WorkerDies, threadVars, schedulerVars, historyVars
<1>2. PICK batch \in running : Begin(batch) \/ Finish(batch)
                               \/ (running' = running \ {batch} /\ WorkerDies)
  BY DEF Work, WorkerDies
<1>3. /\ running = {batch} /\ batch \in Seq(Jobs) /\ batch # <<>> /\ step = "none"
      /\ ToSet(batch) \subseteq ToSet(active) /\ ToSet(batch) \cap ToSet(pending) = {}
  BY DEF SchedulerInv, AtMostOne, Queued, ScanInv
<1>4. Tail(batch) \in Seq(Jobs) /\ ToSet(Tail(batch)) \subseteq ToSet(batch)
  BY <1>3, TailOfBatch
<1>5. running' \subseteq {batch, Tail(batch)} /\ AtMostOne(running')
      /\ \A b \in running' : b # <<>>
  BY <1>2, <1>3 DEF Begin, Finish, AtMostOne
<1>6. Queued(pending', active', running')
  BY <1>1, <1>3, <1>4, <1>5 DEF SchedulerInv, Queued
<1>7. ScanInv'
  <2>1. left = <<>> /\ runnable = <<>> /\ found = NoJob
    BY <1>3 DEF SchedulerInv, ScanInv
  <2>2. QED
    BY <1>1, <1>3, <2>1, NoneListed DEF scanVars, ScanInv
<1>8. ToldInv'
  BY <1>1, <1>3 DEF scanVars, SchedulerInv, ToldInv
<1>9. QED
  BY <1>1, <1>5, <1>6, <1>7, <1>8 DEF SchedulerInv

LEMMA SchedulerInvCorrect == Spec => []SchedulerInv
<1>1. Init => SchedulerInv
  BY NoneListed DEF Init, SchedulerInv, Queued, AtMostOne, ScanInv, ToldInv, NoRequest, Request
<1>2. SchedulerInv /\ [Next]_vars => SchedulerInv'
  <2> SUFFICES ASSUME SchedulerInv, [Next]_vars PROVE SchedulerInv'
    OBVIOUS
  <2>1. CASE SubmitDecodeJobs
    BY <2>1, SubmitKeeps
  <2>2. CASE SetDecodeJobs
    BY <2>2, SetKeeps
  <2>3. CASE DiscardDecode \/ Stop
    <3>1. Discard /\ step = "none" /\ request' \in {request, NoRequest}
      BY <2>3 DEF DiscardDecode, Stop, Locked
    <3>2. QED
      BY <3>1, DiscardKeeps
  <2>4. CASE Start \/ Stopped \/ UNCHANGED vars
    <3>1. UNCHANGED <<request, schedulerVars, workerVars, scanVars, historyVars>>
      BY <2>4 DEF Start, Stopped, vars, threadVars
    <3>2. QED
      BY <3>1 DEF schedulerVars, workerVars, scanVars, historyVars, SchedulerInv, ScanInv,
                  ToldInv, DecodeExists, SignalPairs
  <2>5. CASE \E r \in Requests : Admit(r)
    <3>1. PICK r \in Requests : Admit(r)
      BY <2>5
    <3>2. r.jobs \in Seq(Jobs \cup {NoJob})
      BY RequestTypes
    <3>3. request' = r /\ UNCHANGED <<schedulerVars, workerVars, scanVars, shown, undone>>
      BY <3>1 DEF Admit
    <3>4. QED
      BY <3>2, <3>3 DEF schedulerVars, workerVars, scanVars, SchedulerInv, ScanInv, ToldInv,
                        DecodeExists, SignalPairs
  <2>6. CASE \E jobs \in SUBSET Jobs : RemoveDecodes(jobs)
    BY <2>6, RemoveKeeps
  <2>7. CASE LookUp \/ TellSignals
    BY <2>7, LookUpKeeps, TellKeeps
  <2>8. CASE NotifyComplete \/ SpawnDecode
    BY <2>8, CompleteKeeps, SpawnKeeps
  <2>9. CASE Work \/ WorkerDies
    BY <2>9, WorkKeeps
  <2>10. QED
    BY <2>1, <2>2, <2>3, <2>4, <2>5, <2>6, <2>7, <2>8, <2>9 DEF Next, Application, UnderLock
<1>3. QED
  BY <1>1, <1>2, PTL DEF Spec

(* Whatever is submitted, replaced, discarded or removed, and whenever the   *)
(* worker ends or dies, at most one decode runs: the property the run checks. *)
THEOREM OneDecodeAtATime == Spec => []AtMostOneDecode
<1>1. SchedulerInv => AtMostOneDecode
  <2> SUFFICES ASSUME AtMostOne(running) PROVE Cardinality(running) <= 1
    BY DEF AtMostOneDecode, SchedulerInv
  <2>1. CASE running = {}
    BY <2>1, FS_EmptySet
  <2>2. CASE running # {}
    <3>1. PICK batch : running = {batch}
      BY <2>2 DEF AtMostOne
    <3>2. Cardinality(running) = 1
      BY <3>1, FS_Singleton
    <3>3. QED
      BY <3>2
  <2>3. QED
    BY <2>1, <2>2
<1>2. QED
  BY <1>1, SchedulerInvCorrect, PTL

NothingRecorded == decoding = NoJob

(* The decode in flight is never recorded: _decoding_file is set nowhere, so *)
(* no discard finds a partial output to remove.                              *)
THEOREM NothingIsRecorded == Spec => []NothingRecorded
<1>1. SchedulerInv => NothingRecorded
  BY DEF SchedulerInv, NothingRecorded
<1>2. QED
  BY <1>1, SchedulerInvCorrect, PTL

(* A job waits at most once and never behind its own decode.                 *)
THEOREM JobsQueuedOnce == Spec => []QueuedOnce
<1>1. SchedulerInv => QueuedOnce
  BY NothingRepeated DEF SchedulerInv, Queued, QueuedOnce
<1>2. QED
  BY <1>1, SchedulerInvCorrect, PTL

-----------------------------------------------------------------------------
(* The steps under the lock, seen by those who ask for decodes.              *)

CompletedInv == completed \in Seq(Jobs)

(* Only a job that is found decoded is added to what the last command        *)
(* reported complete.                                                        *)
LEMMA CompletedStep ==
  ASSUME SchedulerInv, CompletedInv, [Next]_vars
  PROVE  /\ CompletedInv'
         /\ \/ completed' \in {completed, <<>>}
            \/ /\ NotifyComplete /\ Len(completed') = Len(completed) + 1
               /\ completed'[Len(completed')] = found
               /\ ToSet(completed') = ToSet(completed) \cup {found}
<1>1. CASE NotifyComplete
  <2>1. completed' = Append(completed, found) /\ found \in Jobs /\ completed \in Seq(Jobs)
    BY <1>1 DEF NotifyComplete, SchedulerInv, ScanInv, CompletedInv
  <2>2. /\ completed' \in Seq(Jobs) /\ Len(completed') = Len(completed) + 1
        /\ completed'[Len(completed')] = found
    BY <2>1
  <2>3. ToSet(completed') = ToSet(completed) \cup {found}
    <3>1. /\ DOMAIN completed' = 1 .. Len(completed) + 1
          /\ DOMAIN completed = 1 .. Len(completed) /\ Len(completed) \in Nat
          /\ \A k \in 1 .. Len(completed) : completed'[k] = completed[k]
          /\ completed'[Len(completed) + 1] = found
      BY <2>1
    <3>2. /\ \A k \in DOMAIN completed' : k = Len(completed) + 1 \/ k \in DOMAIN completed
          /\ \A k \in DOMAIN completed : k \in DOMAIN completed'
          /\ Len(completed) + 1 \in DOMAIN completed'
      BY <3>1
    <3>3. QED
      BY <3>1, <3>2 DEF ToSet
  <2>4. QED
    BY <1>1, <2>2, <2>3 DEF CompletedInv
<1>2. CASE ~NotifyComplete
  <2>1. completed' \in {completed, <<>>}
    BY <1>2 DEF Next, Application, UnderLock, Start, Stop, Stopped, Discard, Admit, RemoveDecodes,
                SubmitDecodeJobs, SetDecodeJobs, DiscardDecode, Locked, LookUp, TellSignals,
                SpawnDecode, Work, Begin, Finish, WorkerDies, vars, historyVars
  <2>2. <<>> \in Seq(Jobs) /\ completed \in Seq(Jobs)
    BY DEF CompletedInv
  <2>3. CompletedInv'
    BY <2>1, <2>2 DEF CompletedInv
  <2>4. QED
    BY <2>1, <2>3
<1>3. QED
  BY <1>1, <1>2

LEMMA CompletedInvCorrect == Spec => []CompletedInv
<1>1. Init => CompletedInv
  BY DEF Init, CompletedInv
<1>2. QED
  BY <1>1, CompletedStep, SchedulerInvCorrect, PTL DEF Spec

(* A worker is only added behind the loop over the queue.                    *)
LEMMA OnlySpawnAdds ==
  ASSUME [Next]_vars, step' # step
  PROVE  running' \subseteq running \/ SpawnDecode
<1>1. ~Start /\ ~Stopped /\ ~Work /\ ~WorkerDies /\ ~UNCHANGED vars
  BY DEF Start, Stopped, Work, Begin, Finish, WorkerDies, vars, scanVars
<1>2. ~(\E r \in Requests : Admit(r)) /\ ~(\E jobs \in SUBSET Jobs : RemoveDecodes(jobs))
  BY DEF Admit, RemoveDecodes, scanVars
<1>3. QED
  BY <1>1, <1>2 DEF Next, Application, UnderLock, Stop, Discard, SubmitDecodeJobs, SetDecodeJobs,
                    DiscardDecode, LookUp, TellSignals, NotifyComplete, workerVars

(* A worker is never given a job whose decode is already on disk: what was    *)
(* looked up is still so when the worker is spawned, whatever is removed     *)
(* meanwhile.                                                                *)
THEOREM NeverDecodedAgain == Spec => NeverRedecoded
<1> DEFINE Step == step # step' =>
                     \A batch \in running' \ running : \A n \in DOMAIN batch :
                        output[batch[n]] \notin CountsAsDecoded
<1>1. ASSUME SchedulerInv, [Next]_vars PROVE Step
  <2>1. CASE step = step' \/ running' \subseteq running
    BY <2>1
  <2>2. CASE SpawnDecode
    <3>1. ASSUME NEW batch \in running' \ running, NEW n \in DOMAIN batch
          PROVE  output[batch[n]] \notin CountsAsDecoded
      <4>1. batch = runnable
        BY <2>2, <3>1 DEF SpawnDecode
      <4>2. runnable \in Seq(Jobs) /\ \A j \in ToSet(runnable) : ~DecodeExists(j)
        BY <1>1 DEF SchedulerInv, ScanInv
      <4>3. batch[n] \in Jobs /\ batch[n] \in ToSet(runnable)
        BY <3>1, <4>1, <4>2 DEF ToSet
      <4>4. QED
        BY <4>2, <4>3 DEF DecodeExists
    <3>2. QED
      BY <3>1
  <2>3. QED
    BY <1>1, <2>1, <2>2, OnlySpawnAdds
<1>2. SchedulerInv /\ [Next]_vars => [Step]_vars
  BY <1>1
<1>3. QED
  BY <1>2, SchedulerInvCorrect, PTL DEF Spec, NeverRedecoded

(* When a job is reported complete the observers have the signals on disk    *)
(* for it, but for a store that was missing or a removal since the look-up:  *)
(* what the decoder remembers is always what they were told.                 *)
THEOREM SignalsToldFirst == Spec => SignalsBeforeComplete
<1> DEFINE Step == Len(completed') > Len(completed) =>
                     LET job == completed'[Len(completed')]
                     IN undone \/ shown[job] = SignalPairs(job)
<1>1. ASSUME SchedulerInv, CompletedInv, [Next]_vars PROVE Step
  <2>1. CASE completed' \in {completed, <<>>}
    <3>1. Len(completed) \in Nat /\ Len(<<>>) = 0
      BY <1>1 DEF CompletedInv
    <3>2. QED
      BY <2>1, <3>1
  <2>2. CASE NotifyComplete /\ completed'[Len(completed')] = found
    BY <1>1, <2>2 DEF NotifyComplete, SchedulerInv, ToldInv
  <2>3. QED
    BY <1>1, <2>1, <2>2, CompletedStep
<1>2. SchedulerInv /\ CompletedInv /\ [Next]_vars => [Step]_vars
  BY <1>1
<1>3. QED
  BY <1>2, SchedulerInvCorrect, CompletedInvCorrect, PTL DEF Spec, SignalsBeforeComplete

-----------------------------------------------------------------------------
(* The abstract queue.                                                       *)

(* The one worker there is, before a step and after it. *)
LEMMA TheWorker ==
  /\ running = {} => Worker = <<>>
  /\ running' = {} => Worker' = <<>>
  /\ \A b : running = {b} => Worker = b
  /\ \A b : running' = {b} => Worker' = b
BY DEF Worker

LEMMA TheLastBatch ==
  /\ decoding = NoJob => \A batch : InFlight(batch) = ToSet(batch)
  /\ decoding' = NoJob => InFlight(active)' = ToSet(active')
BY DEF InFlight

LEMMA WorkerOrNone ==
  ASSUME SchedulerInv
  PROVE  running = {} \/ \E b : running = {b} /\ b # <<>> /\ b \in Seq(Jobs)
BY DEF SchedulerInv, AtMostOne, Queued

(* What waits when the lock is free, and when a command starts on it. *)
LEMMA WhatWaits ==
  ASSUME SchedulerInv, step = "none", NEW S, NEW old, NEW alive, Scheduled(S, old, alive)
  PROVE  /\ Waiting' = pending' /\ Lists(Waiting', S, old) /\ found' = NoJob
         /\ step' # "none" <=> alive = {} /\ Waiting' # <<>>
<1>1. left = <<>> /\ runnable = <<>> /\ found = NoJob
  BY DEF SchedulerInv, ScanInv
<1>2. pending' \in Seq(Jobs) /\ Lists(pending', S, old)
  BY DEF Scheduled
<1>3. \/ step' = "none" /\ found' = NoJob /\ ~(alive = {} /\ pending' # <<>>)
      \/ /\ step' = "look" /\ left' = pending' /\ runnable' = <<>> /\ found' = NoJob
         /\ alive = {} /\ pending' # <<>>
  BY <1>1 DEF Scheduled, scanVars
<1>4. Waiting' = pending'
  <2>1. <<>> \o pending' = pending'
    BY <1>2
  <2>2. QED
    BY <1>3, <2>1 DEF Waiting
<1>5. QED
  BY <1>2, <1>3, <1>4

(* A command changes nothing on disk and forgets what was complete. *)
Forgets == completed' = <<>> /\ output' = output /\ decoding' = NoJob

LEMMA ForgetsIsCommand ==
  ASSUME step = "none", Forgets, found' = NoJob
  PROVE  Abstract!Command
<1>1. ToSet(<<>>) = {}
  BY DEF ToSet
<1>2. QED
  BY <1>1 DEF Forgets, Abstract!Command

LEMMA SubmitServes ==
  ASSUME SchedulerInv, SubmitDecodeJobs
  PROVE  Abstract!Next
<1> DEFINE S == Valid(request.jobs)
           all == ToSet(pending) \cup (S \ InFlight(active))
<1>1. /\ Enqueue(request.jobs, FALSE, active, running) /\ step = "none"
      /\ UNCHANGED <<active, decoding, running>> /\ Forgets
  BY DEF SubmitDecodeJobs, Locked, workerVars, Forgets, SchedulerInv
<1>2. /\ S \subseteq Jobs
      /\ S = {} => UNCHANGED <<pending, scanVars>>
      /\ S # {} => Scheduled(all, pending, running)
  BY <1>1, EnqueueQueues DEF SchedulerInv, Queued
<1>3. Waiting = pending /\ found = NoJob
  BY <1>1 DEF Waiting, SchedulerInv, ScanInv
<1>4. Worker' = Worker /\ InFlight(active)' = InFlight(active)
  BY <1>1 DEF Worker, InFlight
<1>5. Worker = <<>> <=> running = {}
  BY WorkerOrNone, TheWorker
<1> HIDE DEF S
<1>6. CASE S = {}
  <2>1. UNCHANGED <<pending, scanVars>>
    BY <1>2, <1>6
  <2>2. Waiting' = Waiting /\ step' = step /\ found' = NoJob
    BY <1>3, <2>1 DEF scanVars, Waiting
  <2>3. Abstract!Command
    BY <1>1, <2>2, ForgetsIsCommand
  <2>4. Abstract!SubmitNothing
    BY <1>4, <2>2, <2>3 DEF Abstract!SubmitNothing
  <2>5. QED
    BY <2>4 DEF Abstract!Next
<1>7. CASE S # {}
  <2>1. Scheduled(all, pending, running)
    BY <1>2, <1>7
  <2>2. /\ Lists(Waiting', all, pending) /\ found' = NoJob
        /\ step' # "none" <=> running = {} /\ Waiting' # <<>>
    BY <1>1, <2>1, WhatWaits
  <2>3. Abstract!Command
    BY <1>1, <2>2, ForgetsIsCommand
  <2>4. all = Abstract!ToSet(Waiting) \cup (S \ InFlight(active))
    BY <1>3, SameLists
  <2>5. Abstract!Submit(S)
    BY <1>3, <1>4, <1>5, <2>2, <2>3, <2>4 DEF Lists, Abstract!Submit
  <2>6. S \in (SUBSET Jobs) \ {{}}
    BY <1>2, <1>7
  <2>7. QED
    BY <2>5, <2>6 DEF Abstract!Next
<1>8. QED
  BY <1>6, <1>7

LEMMA SetServes ==
  ASSUME SchedulerInv, SetDecodeJobs
  PROVE  Abstract!Next
<1> DEFINE S == Valid(request.jobs)
<1>1. /\ Enqueue(request.jobs, TRUE, <<>>, {}) /\ step = "none"
      /\ active' = <<>> /\ running' = {} /\ Forgets
  BY DEF SetDecodeJobs, Locked, Forgets, SchedulerInv, Reset
<1>2. ToSet(<<>>) = {} /\ decoding = NoJob /\ decoding' = NoJob
  BY <1>1 DEF ToSet, SchedulerInv, Forgets
<1>3. InFlight(<<>>) = {} /\ InFlight(active)' = {} /\ Worker' = <<>>
  BY <1>1, <1>2, TheWorker, TheLastBatch
<1>4. /\ S \subseteq Jobs
      /\ S = {} => UNCHANGED <<pending, scanVars>>
      /\ S # {} => Scheduled(ToSet(<<>>) \cup (S \ InFlight(<<>>)), <<>>, {})
  BY <1>1, EnqueueQueues DEF SchedulerInv, Queued
<1>5. Waiting = pending /\ found = NoJob
  BY <1>1 DEF Waiting, SchedulerInv, ScanInv
<1>6. Abstract!NoWorker
  BY <1>3 DEF Abstract!NoWorker
<1> HIDE DEF S
<1>7. CASE S = {}
  <2>1. UNCHANGED <<pending, scanVars>>
    BY <1>4, <1>7
  <2>2. Waiting' = Waiting /\ step' = step /\ found' = NoJob
    BY <1>5, <2>1 DEF scanVars, Waiting
  <2>3. Abstract!Command
    BY <1>1, <2>2, ForgetsIsCommand
  <2>4. Abstract!ReplaceByNothing
    BY <1>6, <2>2, <2>3 DEF Abstract!ReplaceByNothing
  <2>5. QED
    BY <2>4 DEF Abstract!Next
<1>8. CASE S # {}
  <2>1. Scheduled(S, <<>>, {})
    BY <1>2, <1>3, <1>4, <1>8
  <2>2. /\ Lists(Waiting', S, <<>>) /\ found' = NoJob
        /\ step' # "none" <=> Waiting' # <<>>
    BY <1>1, <2>1, WhatWaits
  <2>3. ToSet(Waiting') = S
    BY <2>2, SameLists DEF Lists, Abstract!Lists
  <2>4. Waiting' # <<>>
    BY <1>2, <1>8, <2>3
  <2>5. Abstract!Command
    BY <1>1, <2>2, ForgetsIsCommand
  <2>6. Abstract!Replace(S)
    BY <1>6, <2>2, <2>4, <2>5 DEF Lists, Abstract!Replace
  <2>7. S \in (SUBSET Jobs) \ {{}}
    BY <1>4, <1>8
  <2>8. QED
    BY <2>6, <2>7 DEF Abstract!Next
<1>9. QED
  BY <1>7, <1>8

LEMMA DiscardServes ==
  ASSUME SchedulerInv, step = "none", Discard
  PROVE  Abstract!Next
<1>1. /\ pending' = <<>> /\ active' = <<>> /\ running' = {}
      /\ UNCHANGED scanVars /\ Forgets
  BY DEF Discard, SchedulerInv, Reset, Forgets
<1>2. ToSet(<<>>) = {} /\ found = NoJob
  BY DEF ToSet, SchedulerInv, ScanInv
<1>3. Worker' = <<>> /\ InFlight(active)' = {}
  BY <1>1, <1>2, TheWorker, TheLastBatch DEF Forgets
<1>4. step' = "none" /\ found' = NoJob
  BY <1>1, <1>2 DEF scanVars
<1>5. Waiting' = <<>>
  BY <1>1, <1>4 DEF Waiting
<1>6. Abstract!Command
  BY <1>1, <1>4, ForgetsIsCommand
<1>7. Abstract!Discard
  BY <1>3, <1>4, <1>5, <1>6 DEF Abstract!Discard, Abstract!NoWorker
<1>8. QED
  BY <1>7 DEF Abstract!Next

(* A job that is found on disk is told, and no other leaves the queue. *)
LEMMA LookUpServes ==
  ASSUME SchedulerInv, LookUp
  PROVE  [Abstract!Next]_(Abstract!queueVars)
<1> DEFINE job == Head(left)
           n == Len(runnable) + 1
<1>1. /\ step = "look" /\ left # <<>> /\ left' = Tail(left)
      /\ UNCHANGED <<active, decoding, running, output, completed>>
  BY DEF LookUp, schedulerVars, workerVars
<1>2. left \in Seq(Jobs) /\ runnable \in Seq(Jobs) /\ found = NoJob
  BY <1>1 DEF SchedulerInv, ScanInv
<1>3. /\ Append(runnable, job) \o Tail(left) = runnable \o left
      /\ n \in DOMAIN (runnable \o left) /\ (runnable \o left)[n] = job
      /\ SubSeq(runnable \o left, 1, n - 1)
           \o SubSeq(runnable \o left, n + 1, Len(runnable \o left)) = runnable \o Tail(left)
  BY <1>1, <1>2, LookedOver
<1>4. Waiting = runnable \o left
  BY <1>1 DEF Waiting
<1>5. /\ Worker' = Worker /\ InFlight(active)' = InFlight(active)
      /\ ToSet(completed') = ToSet(completed)
  BY <1>1 DEF Worker, InFlight
<1>6. job \in Jobs
  BY <1>1, <1>2
<1> HIDE DEF job, n
<1>7. CASE DecodeExists(job)
  <2>1. step' = "tell" /\ found' = job /\ runnable' = runnable
    BY <1>7 DEF LookUp, job
  <2>2. Waiting' = runnable \o Tail(left)
    BY <1>1, <2>1 DEF Waiting
  <2>3. Waiting' = Abstract!RemoveAt(Waiting, n)
    BY <1>3, <1>4, <2>2 DEF Abstract!RemoveAt
  <2>4. n \in DOMAIN Waiting /\ Waiting[n] = job
    BY <1>3, <1>4
  <2>5. job \in Abstract!OnDisk
    BY <1>7 DEF DecodeExists, Abstract!OnDisk
  <2>6. job # NoJob
    BY <1>6, SchedulerAssumption
  <2>7. ToSet(completed') \cup ({found'} \ {NoJob})
          = (ToSet(completed) \cup ({found} \ {NoJob})) \cup {job}
    BY <1>2, <1>5, <2>1, <2>6
  <2>8. Abstract!Find
    BY <1>1, <1>5, <2>1, <2>3, <2>4, <2>5, <2>7, SameLists DEF Abstract!Find
  <2>9. QED
    BY <2>8 DEF Abstract!Next
<1>8. CASE ~DecodeExists(job)
  <2>1. step' = "look" /\ found' = found /\ runnable' = Append(runnable, job)
    BY <1>1, <1>8 DEF LookUp, job
  <2>2. Waiting' = Waiting
    BY <1>1, <1>3, <1>4, <2>1 DEF Waiting
  <2>3. QED
    BY <1>1, <1>5, <2>1, <2>2, SameLists DEF Abstract!queueVars
<1>9. QED
  BY <1>7, <1>8

(* What it is told with, and when, is not seen in the queue. *)
LEMMA TellsServe ==
  ASSUME SchedulerInv, CompletedInv, [Next]_vars, TellSignals \/ NotifyComplete
  PROVE  UNCHANGED Abstract!queueVars
<1>1. /\ step # "none" /\ step' # "none"
      /\ UNCHANGED <<active, decoding, running, output, left, runnable>>
  BY DEF TellSignals, NotifyComplete, workerVars, schedulerVars
<1>2. Waiting' = Waiting /\ Worker' = Worker /\ InFlight(active)' = InFlight(active)
  BY <1>1 DEF Waiting, Worker, InFlight
<1>3. ToSet(completed') \cup ({found'} \ {NoJob}) = ToSet(completed) \cup ({found} \ {NoJob})
  <2>1. CASE TellSignals
    BY <2>1 DEF TellSignals
  <2>2. CASE NotifyComplete
    <3>1. found \in Jobs /\ found' = NoJob
      BY <2>2 DEF NotifyComplete, SchedulerInv, ScanInv
    <3>2. ToSet(completed') = ToSet(completed) \cup {found}
      <4>1. completed' = Append(completed, found) /\ Len(completed) \in Nat
        BY <2>2 DEF NotifyComplete, CompletedInv
      <4>2. Len(completed') = Len(completed) + 1
        BY <3>1, <4>1 DEF CompletedInv
      <4>3. completed' # completed /\ completed' # <<>>
        BY <4>1, <4>2
      <4>4. QED
        BY <4>3, CompletedStep
    <3>3. found # NoJob
      BY <3>1, SchedulerAssumption
    <3>4. QED
      BY <3>1, <3>2, <3>3
  <2>3. QED
    BY <2>1, <2>2
<1>4. QED
  BY <1>1, <1>2, <1>3, SameLists DEF Abstract!queueVars

(* What is left of the queue is given to a new worker. *)
LEMMA SpawnServes ==
  ASSUME SchedulerInv, SpawnDecode
  PROVE  Abstract!Next
<1>1. /\ step = "look" /\ left = <<>> /\ step' = "none" /\ pending' = <<>>
      /\ UNCHANGED <<output, found, completed>>
  BY DEF SpawnDecode, historyVars
<1>2. /\ running = {} /\ runnable \in Seq(Jobs) /\ decoding = NoJob
      /\ \A j \in ToSet(runnable) : ~DecodeExists(j)
  BY <1>1 DEF SchedulerInv, ScanInv
<1>3. Waiting = runnable /\ Waiting' = <<>>
  BY <1>1, <1>2 DEF Waiting
<1>4. /\ decoding' = NoJob
      /\ IF runnable = <<>> THEN active' = active /\ running' = {}
         ELSE active' = runnable /\ running' = {runnable}
  BY <1>2 DEF SpawnDecode
<1>5. Worker' = runnable
  BY <1>4, TheWorker
<1>6. InFlight(active)' = IF runnable = <<>> THEN InFlight(active) ELSE ToSet(runnable)
  BY <1>2, <1>4, TheLastBatch
<1>7. ToSet(runnable) \cap Abstract!OnDisk = {}
  BY <1>2 DEF DecodeExists, Abstract!OnDisk
<1>8. Abstract!Give
  BY <1>1, <1>3, <1>5, <1>6, <1>7, SameLists DEF Abstract!Give
<1>9. QED
  BY <1>8 DEF Abstract!Next

LEMMA WorkServes ==
  ASSUME SchedulerInv, Work \/ WorkerDies
  PROVE  Abstract!Next
<1>1. UNCHANGED <<pending, active, decoding, scanVars, completed>>
  BY DEF Work, Begin, Finish, WorkerDies, threadVars, schedulerVars, historyVars
<1>2. /\ InFlight(active)' = InFlight(active) /\ ToSet(completed)' = ToSet(completed)
      /\ Waiting' = Waiting /\ found' = found /\ step' = step
  BY <1>1 DEF InFlight, Waiting, scanVars
<1>3. PICK b \in running : Begin(b) \/ Finish(b) \/ (running' = running \ {b} /\ WorkerDies)
  BY DEF Work, WorkerDies
<1>4. running = {b} /\ b # <<>>
  BY DEF AtMostOne, SchedulerInv, Queued
<1>5. Worker = b
  BY <1>4, TheWorker
<1>6. CASE Begin(b)
  <2>1. Worker' = b
    BY <1>4, <1>6, TheWorker DEF Begin
  <2>2. Abstract!Begin
    BY <1>2, <1>4, <1>5, <1>6, <2>1, SameLists DEF Begin, Abstract!Begin
  <2>3. QED
    BY <2>2 DEF Abstract!Next
<1>7. CASE Finish(b)
  <2>1. running' = {Tail(b)} \ {<<>>}
    BY <1>4, <1>7 DEF Finish
  <2>2. Worker' = Tail(b)
    <3>1. CASE Tail(b) = <<>>
      BY <2>1, <3>1, TheWorker
    <3>2. CASE Tail(b) # <<>>
      <4>1. running' = {Tail(b)}
        BY <2>1, <3>2
      <4>2. QED
        BY <4>1, TheWorker
    <3>3. QED
      BY <3>1, <3>2
  <2>3. Abstract!Finish
    BY <1>2, <1>4, <1>5, <1>7, <2>2, SameLists DEF Finish, Abstract!Finish
  <2>4. QED
    BY <2>3 DEF Abstract!Next
<1>8. CASE running' = running \ {b} /\ WorkerDies
  <2>1. Worker' = <<>> /\ output' = output
    BY <1>4, <1>8, TheWorker DEF WorkerDies
  <2>2. Abstract!Die
    BY <1>2, <2>1, SameLists DEF Abstract!Die
  <2>3. QED
    BY <2>2 DEF Abstract!Next
<1>9. QED
  BY <1>3, <1>6, <1>7, <1>8

LEMMA EraseServes ==
  ASSUME SchedulerInv, NEW jobs \in SUBSET Jobs, RemoveDecodes(jobs)
  PROVE  Abstract!Next
<1>1. UNCHANGED <<pending, active, decoding, running, scanVars, completed>>
  BY DEF RemoveDecodes, threadVars, schedulerVars
<1>2. /\ Worker' = Worker /\ InFlight(active)' = InFlight(active)
      /\ ToSet(completed)' = ToSet(completed)
      /\ Waiting' = Waiting /\ found' = found /\ step' = step
  BY <1>1 DEF Worker, InFlight, Waiting, scanVars
<1>3. ASSUME NEW job PROVE Writing(job) <=> Abstract!Written(job)
  <2>1. CASE running = {}
    BY <2>1, TheWorker DEF Writing, Abstract!Written
  <2>2. CASE running # {}
    <3>1. PICK b : running = {b} /\ b # <<>>
      BY <2>2, WorkerOrNone
    <3>2. Worker = b
      BY <3>1, TheWorker
    <3>3. QED
      BY <3>1, <3>2 DEF Writing, Abstract!Written
  <2>3. QED
    BY <2>1, <2>2
<1>4. output' = [job \in Jobs |-> IF job \notin jobs THEN output[job]
                                  ELSE IF Abstract!Written(job) THEN "torn" ELSE "none"]
  <2>1. ASSUME NEW job \in Jobs
        PROVE  (CASE job \notin jobs -> output[job]
                  [] job \in jobs /\ Writing(job) -> "torn"
                  [] job \in jobs /\ ~Writing(job) -> "none")
               = IF job \notin jobs THEN output[job]
                 ELSE IF Abstract!Written(job) THEN "torn" ELSE "none"
    BY <1>3
  <2>2. QED
    BY <2>1 DEF RemoveDecodes
<1>5. Abstract!Erase(jobs)
  BY <1>2, <1>4, SameLists DEF Abstract!Erase
<1>6. QED
  BY <1>5 DEF Abstract!Next

(* Every command of the scheduler, however it is interleaved with removals,   *)
(* the worker and other commands, is one step of the abstract queue and what  *)
(* serves it: no job asked for is lost that was not in the last batch, and    *)
(* one worker is given them once and in order.                               *)
THEOREM RefinesQueue == Spec => ImplementsQueue
<1>1. Init => Abstract!Init
  <2> SUFFICES ASSUME Init PROVE Abstract!Init
    OBVIOUS
  <2>1. ToSet(<<>>) = {}
    BY DEF ToSet
  <2>2. Worker = <<>> /\ InFlight(active) = {}
    BY <2>1, TheWorker, TheLastBatch DEF Init
  <2>3. Waiting = <<>>
    BY DEF Init, Waiting
  <2>4. QED
    BY <2>1, <2>2, <2>3, SameLists DEF Init, Abstract!Init
<1>2. SchedulerInv /\ CompletedInv /\ [Next]_vars => [Abstract!Next]_(Abstract!queueVars)
  <2> SUFFICES ASSUME SchedulerInv, CompletedInv, [Next]_vars
               PROVE  [Abstract!Next]_(Abstract!queueVars)
    OBVIOUS
  <2>1. CASE UNCHANGED <<pending, active, decoding, running, scanVars, completed, output>>
    <3>1. /\ Worker' = Worker /\ InFlight(active)' = InFlight(active)
          /\ Waiting' = Waiting /\ found' = found /\ step' = step
      BY <2>1 DEF Worker, InFlight, Waiting, scanVars
    <3>2. QED
      BY <2>1, <3>1 DEF Abstract!queueVars
  <2>2. CASE SubmitDecodeJobs
    BY <2>2, SubmitServes
  <2>3. CASE SetDecodeJobs
    BY <2>3, SetServes
  <2>4. CASE DiscardDecode \/ Stop
    BY <2>4, DiscardServes DEF DiscardDecode, Stop, Locked
  <2>5. CASE Start \/ Stopped \/ UNCHANGED vars
    BY <2>1, <2>5 DEF Start, Stopped, vars, schedulerVars, workerVars, historyVars
  <2>6. CASE \E r \in Requests : Admit(r)
    BY <2>1, <2>6 DEF Admit, schedulerVars, workerVars
  <2>7. CASE \E jobs \in SUBSET Jobs : RemoveDecodes(jobs)
    BY <2>7, EraseServes
  <2>8. CASE LookUp
    BY <2>8, LookUpServes
  <2>9. CASE TellSignals \/ NotifyComplete
    BY <2>9, TellsServe
  <2>10. CASE SpawnDecode
    BY <2>10, SpawnServes
  <2>11. CASE Work \/ WorkerDies
    BY <2>11, WorkServes
  <2>12. QED
    BY <2>2, <2>3, <2>4, <2>5, <2>6, <2>7, <2>8, <2>9, <2>10, <2>11
    DEF Next, Application, UnderLock
<1>3. QED
  BY <1>1, <1>2, SchedulerInvCorrect, CompletedInvCorrect, PTL
  DEF Spec, ImplementsQueue, Abstract!Spec

-----------------------------------------------------------------------------
(* The reader of a decode: its inductive invariant. *)

Signals == [can : Int, signal : Int, samples : Nat, changed : Nat]

Stages == {"idle", "finding", "opening", "returned", "raised", "counting", "refreshed"}

HeldSegments == [decode : Nat, capacity : Nat, size : Nat, start : Nat]

DecoderTypes ==
  /\ decodes \in Nat /\ layout \in Seq(Signals) /\ single \in BOOLEAN
  /\ rows \in [Families -> Nat] /\ finished \in [Families -> Nat]
  /\ opened \in [Families -> {"none", "blank", "headed"}]
  /\ directory \in {"none", "blank", "unfinished", "finished"}

ReaderTypes ==
  /\ pc \in Stages /\ held \in Seq(HeldSegments) /\ paths \in [count : Nat, single : BOOLEAN]
  /\ counted \in Nat /\ before \in Nat /\ disturbed \in BOOLEAN /\ complete \in BOOLEAN

(* A list of samples is being read, or was. *)
Listing == pc \in {"finding", "opening", "returned"}

(* The decoder is within one segment: k are finished, the next is o, n of t  *)
(* rows are written, c in a segment.  The finished ones are full or hold the *)
(* last row, and only one with a header has a row.                           *)
WrittenAs(k, o, n, t, c) ==
  /\ n <= t /\ Least(k * c, t) <= n
  /\ n <= k * c + (IF o = "headed" THEN c ELSE 0)
  /\ LET s == k + IF o = "none" THEN 0 ELSE 1
     IN  s # 0 => c # 0 /\ (s - 1) * c <= n

Written(f) == WrittenAs(finished[f], opened[f], rows[f], Total(f), Capacity(f))

WrittenInv == \A f \in Families : Written(f)

(* While no file is removed, the entries found are those of the directory    *)
(* there is, and a decode that was complete stays so.                        *)
EntriesInv ==
  /\ Listing => query \in Queries
  /\ pc \in {"finding", "opening"} => entries # <<>>
  /\ ~disturbed /\ Listing /\ entries # <<>> =>
        directory = "finished" /\ entries = Matched(query)
  /\ ~disturbed /\ Listing /\ complete => Complete /\ entries = Matched(query)

(* The segments that were found are there. *)
PathsInv ==
  ~disturbed /\ pc = "opening" =>
    /\ paths.count \in 1 .. Segments(query.family) /\ paths.single = single
    /\ complete /\ Numberable(query.family) => paths.count = Segments(query.family)

(* What segment i was opened with: only the last may count for nothing.      *)
HeldRightly(i, f) ==
  /\ held[i].decode = decodes /\ held[i].size = Capacity(f)
  /\ held[i].start = (i - 1) * Capacity(f)
  /\ held[i].capacity \in {0, Capacity(f)}
  /\ held[i].capacity # 0 => i <= finished[f]
  /\ i < paths.count \/ complete => held[i].capacity = Capacity(f)

HeldInv ==
  /\ ~disturbed /\ pc = "opening" =>
        /\ Len(held) <= paths.count
        /\ \A i \in 1 .. Len(held) : HeldRightly(i, query.family)
  /\ pc = "raised" => disturbed \/ ~complete
  /\ pc = "finding" => held = <<>> /\ result = <<>>

(* The rows counted in the first k segments are some that were written in    *)
(* them during the refresh.                                                  *)
CountedIn(k) == LET filled == k * Capacity("row_index")
                IN  /\ Least(before, filled) <= counted
                    /\ counted <= Least(rows["row_index"], filled)

CountInv ==
  /\ pc \in {"counting", "refreshed"} /\ ~disturbed => before <= rows["row_index"]
  /\ pc = "counting" /\ ~disturbed =>
        /\ Len(held) <= paths.count /\ paths.count <= Segments("row_index")
        /\ paths.count # 0 => paths.single = single
        /\ Numberable("row_index") => before <= paths.count * Capacity("row_index")
        /\ CountedIn(Len(held))
  /\ pc = "refreshed" /\ ~disturbed =>
        /\ counted <= rows["row_index"]
        /\ Numberable("row_index") => before <= counted

ReaderInv == /\ DecoderTypes /\ ReaderTypes /\ WrittenInv /\ EntriesInv /\ PathsInv
             /\ HeldInv /\ CountInv

-----------------------------------------------------------------------------
(* Segments. *)

LEMMA MoreTimes ==
  ASSUME NEW a \in Nat, NEW b \in Nat, NEW c \in Nat, a < b
  PROVE  a * c + c <= b * c /\ a * c \in Nat /\ b * c \in Nat
<1>1. PICK d \in Nat : b = a + 1 + d
  <2>1. b - a - 1 \in Nat /\ b = a + 1 + (b - a - 1)
    OBVIOUS
  <2>2. QED
    BY <2>1
<1>2. b * c = a * c + c + d * c
  BY <1>1
<1>3. d * c \in Nat /\ a * c \in Nat /\ b * c \in Nat
  OBVIOUS
<1>4. QED
  BY <1>2, <1>3

(* The files of a family as the decoder goes on with them. *)

LEMMA OneMoreTime ==
  ASSUME NEW k \in Nat, NEW c \in Nat
  PROVE  (k + 1) * c = k * c + c /\ k * c \in Nat /\ 0 * c = 0
OBVIOUS

LEMMA NothingWritten ==
  ASSUME NEW t \in Nat, NEW c \in Nat
  PROVE  WrittenAs(0, "none", 0, t, c)
<1>1. 0 * c = 0
  OBVIOUS
<1>2. QED
  BY <1>1 DEF WrittenAs, Least

LEMMA SegmentCreated ==
  ASSUME NEW k \in Nat, NEW n \in Nat, NEW t \in Nat, NEW c \in Nat \ {0},
         WrittenAs(k, "none", n, t, c), n < t
  PROVE  WrittenAs(k, "blank", n, t, c)
<1> DEFINE a == k * c
<1>1. a \in Nat /\ n <= t /\ Least(a, t) <= n /\ n <= a + 0 /\ (k + 1) - 1 = k
  BY DEF WrittenAs
<1> HIDE DEF a
<1>2. a <= n /\ n <= a + c /\ n <= a + 0
  BY <1>1 DEF Least
<1>3. QED
  BY <1>1, <1>2 DEF WrittenAs, a

LEMMA RowWritten ==
  ASSUME NEW k \in Nat, NEW n \in Nat, NEW t \in Nat, NEW c \in Nat,
         WrittenAs(k, "headed", n, t, c), n < Least((k + 1) * c, t)
  PROVE  WrittenAs(k, "headed", n + 1, t, c)
<1> DEFINE a == k * c
<1>1. /\ a \in Nat /\ Least(a, t) <= n /\ (k + 1) - 1 = k /\ a <= n /\ c # 0
      /\ n < Least(a + c, t)
  BY OneMoreTime DEF WrittenAs
<1> HIDE DEF a
<1>2. n + 1 <= t /\ Least(a, t) <= n + 1 /\ n + 1 <= a + c /\ a <= n + 1
  BY <1>1 DEF Least
<1>3. QED
  BY <1>1, <1>2 DEF WrittenAs, a

LEMMA SegmentFinished ==
  ASSUME NEW k \in Nat, NEW n \in Nat, NEW t \in Nat, NEW c \in Nat,
         WrittenAs(k, "headed", n, t, c), n = Least((k + 1) * c, t)
  PROVE  WrittenAs(k + 1, "none", n, t, c)
<1> DEFINE a == k * c
           b == (k + 1) * c
<1>1. /\ a \in Nat /\ (k + 1) - 1 = k /\ a <= n /\ c # 0 /\ b = a + c
      /\ n = Least(b, t) /\ (k + 1) + 0 - 1 = k
  BY OneMoreTime DEF WrittenAs
<1> HIDE DEF a, b
<1>2. n <= t /\ n <= b + 0 /\ Least(b, t) <= n
  BY <1>1 DEF Least
<1>3. QED
  BY <1>1, <1>2 DEF WrittenAs, a, b

(* A decode has some number of rows; what is written has a capacity.         *)
LEMMA TotalTyped ==
  ASSUME NEW s \in Seq(Signals), NEW f
  PROVE  /\ RowsOfAll(s, f) \in Nat
         /\ \A i \in 1 .. Len(s) : RowsOf(s[i], f) \in Nat
         /\ [i \in DOMAIN s |-> RowsOf(s[i], f)] \in Seq(Nat)
         /\ Len([i \in DOMAIN s |-> RowsOf(s[i], f)]) = Len(s)
<1> DEFINE r == [i \in DOMAIN s |-> RowsOf(s[i], f)]
<1>1. Len(s) \in Nat /\ DOMAIN s = 1 .. Len(s) /\ \A i \in 1 .. Len(s) : s[i] \in Signals
  OBVIOUS
<1>2. \A i \in 1 .. Len(s) : RowsOf(s[i], f) \in Nat
  BY <1>1 DEF RowsOf, Signals
<1>3. r \in Seq(Nat) /\ Len(r) = Len(s)
  BY <1>1, <1>2
<1> HIDE DEF r
<1>4. PICK g : SumsBy(g, r)
  BY <1>3, SumSteps
<1>5. SumOf(r) \in Nat
  BY <1>3, <1>4, SumIs
<1>6. RowsOfAll(s, f) = SumOf(r)
  BY DEF RowsOfAll, r
<1>7. QED
  BY <1>2, <1>3, <1>5, <1>6 DEF r

LEMMA DecodeFacts ==
  ASSUME DecoderTypes, NEW f \in Families
  PROVE  /\ rows[f] \in Nat /\ finished[f] \in Nat /\ Total(f) \in Nat /\ Capacity(f) \in Nat
         /\ opened[f] \in {"none", "blank", "headed"}
         /\ Segments(f) \in {finished[f], finished[f] + 1} /\ Segments(f) \in Nat
         /\ Total(f) # 0 => Capacity(f) # 0
<1>1. rows[f] \in Nat /\ finished[f] \in Nat /\ Total(f) \in Nat /\ Capacity(f) \in Nat
  BY TotalTyped, ReaderAssumption DEF DecoderTypes, Total, Capacity
<1>2. Total(f) # 0 => Capacity(f) # 0
  BY ReaderAssumption DEF Capacity
<1>3. opened[f] \in {"none", "blank", "headed"}
  BY DEF DecoderTypes
<1>4. Segments(f) \in {finished[f], finished[f] + 1} /\ Segments(f) \in Nat
  BY <1>1 DEF Segments
<1>5. QED
  BY <1>1, <1>2, <1>3, <1>4

(* What is written is in the first Segments(f) segments, and what comes      *)
(* before the last of them is written.                                       *)
LEMMA SegmentsWritten ==
  ASSUME DecoderTypes, NEW f \in Families, Written(f)
  PROVE  /\ Segments(f) \in Nat /\ Segments(f) * Capacity(f) \in Nat
         /\ rows[f] <= Total(f) /\ rows[f] <= Segments(f) * Capacity(f)
         /\ Least(finished[f] * Capacity(f), Total(f)) <= rows[f]
         /\ Segments(f) = 0 => rows[f] = 0
         /\ Segments(f) # 0 => Capacity(f) # 0
         /\ finished[f] <= Segments(f) /\ Segments(f) <= finished[f] + 1
         /\ \A k \in Nat : k < Segments(f) => k * Capacity(f) \in Nat /\ k * Capacity(f) <= rows[f]
<1> DEFINE S == Segments(f)
           c == Capacity(f)
           n == rows[f]
           k == finished[f]
           t == Total(f)
<1>1. /\ n \in Nat /\ c \in Nat /\ k \in Nat /\ t \in Nat /\ S \in Nat
      /\ S = k + IF opened[f] = "none" THEN 0 ELSE 1
  BY DecodeFacts DEF Segments
<1>2. /\ n <= t /\ Least(k * c, t) <= n
      /\ n <= k * c + (IF opened[f] = "headed" THEN c ELSE 0)
      /\ S # 0 => c # 0 /\ (S - 1) * c <= n
  BY DEF Written, WrittenAs, Segments
<1>3. (k + 1) * c = k * c + c /\ k * c \in Nat /\ 0 * c = 0
  BY <1>1, OneMoreTime
<1>4. S * c \in Nat
  BY <1>1
<1>5. n <= S * c
  <2>1. CASE S = k
    <3>1. opened[f] = "none"
      BY <1>1, <2>1
    <3>2. QED
      BY <1>1, <1>2, <1>3, <2>1, <3>1
  <2>2. CASE S = k + 1
    <3> DEFINE a == k * c
    <3>1. n <= a + (IF opened[f] = "headed" THEN c ELSE 0) /\ a \in Nat /\ S * c = a + c
      BY <1>2, <1>3, <2>2
    <3> HIDE DEF a, S, n, c
    <3>2. QED
      BY <1>1, <3>1
  <2>3. QED
    BY <1>1, <2>1, <2>2
<1> HIDE DEF S, n, c, k, t
<1>6. S = 0 => n = 0
  BY <1>1, <1>3, <1>5
<1>7. ASSUME NEW j \in Nat, j < S PROVE j * c \in Nat /\ j * c <= n
  <2>1. S - 1 \in Nat /\ (j = S - 1 \/ j < S - 1) /\ j * c \in Nat /\ (S - 1) * c \in Nat
    BY <1>1, <1>7
  <2>2. j < S - 1 => j * c + c <= (S - 1) * c
    BY <1>1, <2>1, MoreTimes
  <2>3. S # 0
    BY <1>1, <1>7
  <2> DEFINE a == (S - 1) * c
             b == j * c
  <2>4. a <= n /\ a \in Nat /\ b \in Nat /\ (b = a \/ b + c <= a)
    BY <1>2, <2>1, <2>2, <2>3
  <2> HIDE DEF a, b
  <2>5. b <= n
    BY <1>1, <2>4
  <2>6. QED
    BY <2>1, <2>5 DEF b
<1>8. k <= S /\ S <= k + 1
  BY <1>1
<1>9. QED
  BY <1>1, <1>2, <1>4, <1>5, <1>6, <1>7, <1>8 DEF S, n, c, k, t

-----------------------------------------------------------------------------
(* The directory, and the positions an entry stands for.                     *)

EntryFits(e) == \A f \in Families : /\ e.offset[f] \in Nat /\ e.count[f] \in Nat
                                    /\ e.offset[f] + e.count[f] <= Total(f)

LEMMA DirectoryFits ==
  ASSUME layout \in Seq(Signals), NEW i \in 1 .. Len(layout)
  PROVE  EntryFits(Directory[i])
<1> SUFFICES ASSUME NEW f \in Families
             PROVE  /\ Directory[i].offset[f] \in Nat /\ Directory[i].count[f] \in Nat
                    /\ Directory[i].offset[f] + Directory[i].count[f] <= Total(f)
  BY DEF EntryFits
<1> DEFINE N == Len(layout)
           r == [k \in DOMAIN layout |-> RowsOf(layout[k], f)]
           u == SubSeq(layout, 1, i - 1)
           ru == [k \in DOMAIN u |-> RowsOf(u[k], f)]
<1>1. /\ Directory[i].offset[f] = RowsOfAll(u, f)
      /\ Directory[i].count[f] = RowsOf(layout[i], f)
  BY DEF Directory
<1>2. r \in Seq(Nat) /\ Len(r) = N /\ RowsOf(layout[i], f) \in Nat /\ N \in Nat
  <2>1. N \in Nat
    OBVIOUS
  <2>2. QED
    BY <2>1, TotalTyped
<1>3. r[i] = RowsOf(layout[i], f) /\ \A k \in 1 .. N : r[k] = RowsOf(layout[k], f)
  OBVIOUS
<1>4. u \in Seq(Signals) /\ Len(u) = i - 1 /\ \A k \in 1 .. i - 1 : u[k] = layout[k]
  OBVIOUS
<1>5. ru \in Seq(Nat) /\ Len(ru) = i - 1
  <2> HIDE DEF u
  <2>1. ru \in Seq(Nat) /\ Len(ru) = Len(u)
    BY <1>4, TotalTyped
  <2>2. QED
    BY <1>4, <2>1
<1>6. \A k \in 1 .. i - 1 : ru[k] = r[k]
  <2>1. \A k \in 1 .. i - 1 : k \in DOMAIN u /\ k \in 1 .. N
    BY <1>2, <1>4
  <2> HIDE DEF u
  <2>2. QED
    BY <1>3, <1>4, <2>1
<1>7. RowsOfAll(u, f) = SumOf(ru) /\ Total(f) = SumOf(r)
  BY DEF RowsOfAll, Total
<1> HIDE DEF r, ru, u, N
<1>8. PICK g : SumsBy(g, r)
  BY <1>2, SumSteps
<1>9. /\ g \in [0 .. N -> Nat] /\ g[0] = 0 /\ \A k \in 1 .. N : g[k] = g[k - 1] + r[k]
      /\ i \in 1 .. N /\ Total(f) = g[N]
  <2>1. Total(f) = g[Len(r)]
    BY <1>2, <1>7, <1>8, SumIs
  <2>2. QED
    BY <1>2, <1>8, <2>1 DEF SumsBy, N
<1> DEFINE h == [k \in 0 .. i - 1 |-> g[k]]
<1>10. SumsBy(h, ru)
  <2>1. \A k \in 0 .. i - 1 : k \in 0 .. N
    BY <1>2, <1>9
  <2>2. h \in [0 .. i - 1 -> Nat] /\ h[0] = 0
    BY <1>9, <2>1
  <2>3. \A k \in 1 .. i - 1 : /\ k \in 1 .. N /\ k \in 0 .. i - 1 /\ k - 1 \in 0 .. i - 1
    BY <1>2, <1>9
  <2>4. \A k \in 1 .. i - 1 : h[k] = h[k - 1] + ru[k]
    BY <1>6, <1>9, <2>3
  <2> HIDE DEF h
  <2>5. QED
    BY <1>5, <2>2, <2>4 DEF SumsBy
<1>11. RowsOfAll(u, f) = g[i - 1]
  <2>1. i - 1 \in 0 .. i - 1
    BY <1>2, <1>9
  <2>2. h[i - 1] = g[i - 1]
    BY <2>1
  <2> HIDE DEF h
  <2>3. SumOf(ru) = h[i - 1]
    BY <1>5, <1>10, SumIs
  <2>4. QED
    BY <1>7, <2>2, <2>3
<1>12. g[i] \in Nat /\ g[i] <= g[N] /\ g[i - 1] \in Nat /\ g[i] = g[i - 1] + r[i]
  <2>1. i \in 0 .. Len(r) /\ i - 1 \in 0 .. N
    BY <1>2, <1>9
  <2>2. g[i] <= g[Len(r)]
    BY <1>2, <1>8, <2>1, SumsGrow
  <2>3. QED
    BY <1>2, <1>9, <2>1, <2>2
<1>13. QED
  BY <1>1, <1>2, <1>3, <1>9, <1>11, <1>12

LEMMA MatchedFits ==
  ASSUME layout \in Seq(Signals), NEW q
  PROVE  \E X : Matched(q) \in Seq(X) /\ \A e \in X : EntryFits(e)
<1> DEFINE N == Len(layout)
           X == {Directory[i] : i \in 1 .. N}
<1>1. N \in Nat
  OBVIOUS
<1>2. Directory \in Seq(X)
  <2>1. Directory = [i \in 1 .. N |-> Directory[i]]
    BY DEF Directory
  <2>2. \A i \in 1 .. N : Directory[i] \in X
    OBVIOUS
  <2> HIDE DEF N, X
  <2>3. IsList(Directory, N, X)
    BY <2>1, <2>2 DEF IsList
  <2>4. QED
    BY <1>1, <2>3, ListIsSeq
<1>3. \A e \in X : EntryFits(e)
  BY DirectoryFits
<1> HIDE DEF X
<1>4. LoadedEntries \in Seq(X)
  <2>1. <<>> \in Seq(X)
    OBVIOUS
  <2>2. QED
    BY <1>2, <2>1, SelectFacts DEF LoadedEntries
<1>5. Matched(q) \in Seq(X)
  BY <1>4, SelectFacts DEF Matched
<1>6. QED
  BY <1>3, <1>5

LEMMA WantedInside ==
  ASSUME NEW X, NEW es \in Seq(X), \A e \in X : EntryFits(e), NEW f \in Families,
         Total(f) \in Nat
  PROVE  Wanted(es, f) \in Seq(0 .. Total(f) - 1)
<1> DEFINE Y == 0 .. Total(f) - 1
           Z == Seq(Y)
<1>1. ASSUME NEW e \in X PROVE Positions(e, f) \in Z
  <2> DEFINE n == e.count[f]
             p == Positions(e, f)
  <2>1. n \in Nat /\ e.offset[f] \in Nat /\ e.offset[f] + n <= Total(f)
    BY DEF EntryFits
  <2>2. p = [j \in 1 .. n |-> p[j]] /\ \A j \in 1 .. n : p[j] = e.offset[f] + j - 1
    BY DEF Positions
  <2> HIDE DEF n, p
  <2>3. \A j \in 1 .. n : p[j] \in Y
    BY <2>1, <2>2
  <2> HIDE DEF Y
  <2>4. IsList(p, n, Y)
    BY <2>2, <2>3 DEF IsList
  <2>5. QED
    BY <2>1, <2>4, ListIsSeq DEF p
<1> DEFINE ss == [i \in DOMAIN es |-> Positions(es[i], f)]
<1>2. ss \in Seq(Z)
  <2>1. DOMAIN es = 1 .. Len(es) /\ Len(es) \in Nat /\ \A i \in 1 .. Len(es) : es[i] \in X
    OBVIOUS
  <2>2. ss = [i \in 1 .. Len(es) |-> ss[i]] /\ \A i \in 1 .. Len(es) : ss[i] \in Z
    <3> HIDE DEF Z
    <3>1. QED
      BY <1>1, <2>1
  <2> HIDE DEF ss, Z
  <2>3. IsList(ss, Len(es), Z)
    BY <2>2 DEF IsList
  <2>4. QED
    BY <2>1, <2>3, ListIsSeq
<1> HIDE DEF Y, ss
<1>3. FlattenSeq(ss) \in Seq(Y)
  BY <1>2, FlattenTyped
<1>4. QED
  BY <1>3 DEF Wanted, Y, ss

LEMMA NothingWanted ==
  ASSUME NEW f
  PROVE  Wanted(<<>>, f) = <<>>
<1>1. [i \in DOMAIN <<>> |-> Positions(<<>>[i], f)] = <<>>
  OBVIOUS
<1>2. QED
  BY <1>1, FlattenEmpty DEF Wanted

-----------------------------------------------------------------------------
(* The decoder. *)

DecodeSame == /\ layout' = layout /\ single' = single /\ decodes' = decodes
              /\ rows' = rows /\ finished' = finished /\ opened' = opened

(* Capacities are those of the layout. *)
LEMMA SameLayout ==
  ASSUME layout' = layout, single' = single, NEW f
  PROVE  Total(f)' = Total(f) /\ Capacity(f)' = Capacity(f)
  BY DEF Total, Capacity

LEMMA SameDecode ==
  ASSUME DecodeSame, NEW f
  PROVE  /\ Total(f)' = Total(f) /\ Capacity(f)' = Capacity(f) /\ Segments(f)' = Segments(f)
         /\ Written(f) => Written(f)'
<1>1. Total(f)' = Total(f) /\ Capacity(f)' = Capacity(f)
  BY SameLayout DEF DecodeSame
<1>2. Segments(f)' = Segments(f)
  BY <1>1 DEF Segments, DecodeSame
<1>3. QED
  BY <1>1, <1>2 DEF Written, DecodeSame

LEMMA SetOne ==
  ASSUME NEW X, NEW g \in [Families -> X], NEW f \in Families, NEW x \in X
  PROVE  [g EXCEPT ![f] = x] \in [Families -> X]
OBVIOUS

(* What the decoder's steps do to a family's files.                          *)
FamilyStep(f) == CreateSegment(f) \/ WriteHeader(f) \/ WriteRow(f) \/ FinishSegment(f)

LEMMA DecoderTyped ==
  ASSUME DecoderTypes, [ReaderNext]_allVars
  PROVE  DecoderTypes'
<1> DEFINE O == {"none", "blank", "headed"}
<1>1. CASE Reader \/ UNCHANGED allVars
  BY <1>1 DEF Reader, GetList, FindSegments, OpenSegment, ReadSamples, Refresh, CountSegment,
              Refreshed, allVars, decoderVars, DecoderTypes
<1>2. CASE BeginDecode
  <2>1. layout' \in Layouts /\ Layouts \subseteq Seq(Signals)
    BY <1>2, ReaderAssumption DEF BeginDecode, Signals
  <2>2. layout' \in Seq(Signals)
    BY <2>1
  <2>3. QED
    BY <1>2, <2>2 DEF BeginDecode, DecoderTypes
<1>3. CASE \E f \in Families : FamilyStep(f)
  <2>1. PICK f \in Families : FamilyStep(f)
    BY <1>3
  <2>2. rows' = [rows EXCEPT ![f] = rows[f] + 1] \/ rows' = rows
    BY <2>1 DEF FamilyStep, CreateSegment, WriteHeader, WriteRow, FinishSegment
  <2>3. finished' = [finished EXCEPT ![f] = finished[f] + 1] \/ finished' = finished
    BY <2>1 DEF FamilyStep, CreateSegment, WriteHeader, WriteRow, FinishSegment
  <2>4. \/ \E o \in O : opened' = [opened EXCEPT ![f] = o]
        \/ opened' = opened
    BY <2>1 DEF FamilyStep, CreateSegment, WriteHeader, WriteRow, FinishSegment
  <2>5. rows' \in [Families -> Nat] /\ finished' \in [Families -> Nat]
    <3>1. rows[f] + 1 \in Nat /\ finished[f] + 1 \in Nat
      BY DEF DecoderTypes
    <3>2. QED
      BY <2>2, <2>3, <3>1, SetOne DEF DecoderTypes
  <2> HIDE DEF O
  <2>6. opened' \in [Families -> O]
    BY <2>4, SetOne DEF DecoderTypes, O
  <2>7. UNCHANGED <<decodes, layout, single, directory>>
    BY <2>1 DEF FamilyStep, CreateSegment, WriteHeader, WriteRow, FinishSegment, Writes
  <2>8. QED
    BY <2>5, <2>6, <2>7 DEF DecoderTypes, O
<1>4. CASE WriteDirectory \/ EndDecoder
  BY <1>4 DEF WriteDirectory, EndDecoder, DecoderTypes
<1>5. CASE RemoveFiles
  <2>1. /\ decodes' = decodes /\ layout' = layout /\ single' = single
        /\ directory' \in {"none", directory}
        /\ \/ rows' = rows /\ finished' = finished /\ opened' = opened
           \/ \E f \in Families : /\ rows' = [rows EXCEPT ![f] = 0]
                                  /\ finished' = [finished EXCEPT ![f] = 0]
                                  /\ opened' = [opened EXCEPT ![f] = "none"]
    BY <1>5 DEF RemoveFiles
  <2>2. "none" \in O /\ 0 \in Nat
    OBVIOUS
  <2> HIDE DEF O
  <2>3. rows' \in [Families -> Nat]
    <3>1. rows \in [Families -> Nat]
      BY DEF DecoderTypes
    <3>2. QED
      BY <2>1, <3>1
  <2>4. finished' \in [Families -> Nat] /\ opened' \in [Families -> O]
    <3>1. finished \in [Families -> Nat] /\ opened \in [Families -> O]
      BY DEF DecoderTypes, O
    <3>2. QED
      BY <2>1, <2>2, <3>1
  <2>5. QED
    BY <2>1, <2>3, <2>4 DEF DecoderTypes, O
<1>6. QED
  BY <1>1, <1>2, <1>3, <1>4, <1>5 DEF ReaderNext, Decoder, FamilyStep

(* A step with one family's files leaves those of the others as they are.    *)
LEMMA OthersSame ==
  ASSUME DecoderTypes, NEW f \in Families, FamilyStep(f), NEW g \in Families, g # f
  PROVE  rows'[g] = rows[g] /\ finished'[g] = finished[g] /\ opened'[g] = opened[g]
BY DEF FamilyStep, CreateSegment, WriteHeader, WriteRow, FinishSegment, DecoderTypes

LEMMA WritingWrites ==
  ASSUME DecoderTypes, WrittenInv, NEW f \in Families, FamilyStep(f)
  PROVE  WrittenInv'
<1>1. layout' = layout /\ single' = single
  BY DEF FamilyStep, CreateSegment, WriteHeader, WriteRow, FinishSegment, Writes
<1> SUFFICES ASSUME NEW g \in Families PROVE Written(g)'
  BY DEF WrittenInv
<1>2. Total(g)' = Total(g) /\ Capacity(g)' = Capacity(g) /\ Written(g)
  BY <1>1, SameLayout DEF WrittenInv
<1>3. CASE g # f
  BY <1>2, <1>3, OthersSame DEF Written
<1>4. CASE g = f
  <2> DEFINE k == finished[f]
             o == opened[f]
             n == rows[f]
             t == Total(f)
             c == Capacity(f)
  <2>1. /\ k \in Nat /\ n \in Nat /\ t \in Nat /\ c \in Nat /\ (t # 0 => c # 0)
        /\ rows \in [Families -> Nat] /\ finished \in [Families -> Nat]
        /\ f \in DOMAIN opened
    BY DecodeFacts DEF DecoderTypes
  <2>2. WrittenAs(k, o, n, t, c)
    BY <1>2, <1>4 DEF Written
  <2>3. Written(f)' <=> WrittenAs(finished'[f], opened'[f], rows'[f], t, c)
    BY <1>2, <1>4 DEF Written
  <2>4. CASE CreateSegment(f)
    <3>1. /\ o = "none" /\ n < t /\ opened'[f] = "blank" /\ rows'[f] = n
          /\ finished'[f] = k
      BY <2>1, <2>4 DEF CreateSegment
    <3> HIDE DEF k, o, n, t, c
    <3>2. c \in Nat \ {0}
      BY <2>1, <3>1
    <3>3. WrittenAs(k, "blank", n, t, c)
      BY <2>1, <2>2, <3>1, <3>2, SegmentCreated
    <3>4. QED
      BY <1>4, <2>3, <3>1, <3>3
  <2>5. CASE WriteHeader(f)
    <3>1. o = "blank" /\ opened'[f] = "headed" /\ rows'[f] = n /\ finished'[f] = k
      BY <2>1, <2>5 DEF WriteHeader
    <3>2. WrittenAs(k, "headed", n, t, c)
      <4> DEFINE a == k * c
      <4>1. n <= a + 0 /\ a \in Nat
        BY <2>1, <2>2, <3>1 DEF WrittenAs
      <4> HIDE DEF a
      <4>2. n <= a + c
        <5> HIDE DEF n, c
        <5>1. QED
          BY <2>1, <4>1
      <4>3. QED
        BY <2>2, <3>1, <4>2 DEF WrittenAs, a
    <3>3. QED
      BY <1>4, <2>3, <3>1, <3>2
  <2>6. CASE WriteRow(f)
    <3>1. /\ o = "headed" /\ n < Least((k + 1) * c, t) /\ opened'[f] = o
          /\ rows'[f] = n + 1 /\ finished'[f] = k
      BY <2>1, <2>6 DEF WriteRow, FilledUp
    <3> HIDE DEF k, o, n, t, c
    <3>2. WrittenAs(k, "headed", n + 1, t, c)
      BY <2>1, <2>2, <3>1, RowWritten
    <3>3. QED
      BY <1>4, <2>3, <3>1, <3>2
  <2>7. CASE FinishSegment(f)
    <3>1. /\ o = "headed" /\ n = Least((k + 1) * c, t) /\ opened'[f] = "none"
          /\ rows'[f] = n /\ finished'[f] = k + 1
      BY <2>1, <2>7 DEF FinishSegment, FilledUp
    <3> HIDE DEF k, o, n, t, c
    <3>2. WrittenAs(k + 1, "none", n, t, c)
      BY <2>1, <2>2, <3>1, SegmentFinished
    <3>3. QED
      BY <1>4, <2>3, <3>1, <3>2
  <2>8. QED
    BY <2>4, <2>5, <2>6, <2>7 DEF FamilyStep
<1>5. QED
  BY <1>3, <1>4

LEMMA WrittenStep ==
  ASSUME DecoderTypes, DecoderTypes', WrittenInv, [ReaderNext]_allVars
  PROVE  WrittenInv'
<1>1. CASE DecodeSame
  BY <1>1, SameDecode DEF WrittenInv
<1>2. CASE BeginDecode
  <2> SUFFICES ASSUME NEW f \in Families PROVE Written(f)'
    BY DEF WrittenInv
  <2>1. rows' = rows /\ finished' = finished /\ opened' = opened /\ Segments(f) = 0
    BY <1>2 DEF BeginDecode
  <2>2. finished[f] = 0 /\ opened[f] = "none"
    BY <2>1, DecodeFacts DEF Segments
  <2>3. rows[f] = 0
    BY <2>1, SegmentsWritten DEF WrittenInv
  <2>4. Total(f)' \in Nat /\ Capacity(f)' \in Nat
    BY TotalTyped, ReaderAssumption DEF DecoderTypes, Total, Capacity
  <2>5. WrittenAs(0, "none", 0, Total(f)', Capacity(f)')
    BY <2>4, NothingWritten
  <2>6. QED
    BY <2>1, <2>2, <2>3, <2>5 DEF Written
<1>3. CASE \E f \in Families : FamilyStep(f)
  BY <1>3, WritingWrites
<1>4. CASE RemoveFiles
  <2> SUFFICES ASSUME NEW f \in Families PROVE Written(f)'
    BY DEF WrittenInv
  <2>1. /\ layout' = layout /\ single' = single
        /\ \/ rows'[f] = rows[f] /\ finished'[f] = finished[f] /\ opened'[f] = opened[f]
           \/ rows'[f] = 0 /\ finished'[f] = 0 /\ opened'[f] = "none"
    BY <1>4 DEF RemoveFiles, DecoderTypes
  <2>2. /\ Total(f)' = Total(f) /\ Capacity(f)' = Capacity(f)
        /\ Total(f) \in Nat /\ Capacity(f) \in Nat
    BY <2>1, SameLayout, DecodeFacts
  <2>3. CASE rows'[f] = rows[f] /\ finished'[f] = finished[f] /\ opened'[f] = opened[f]
    BY <2>2, <2>3 DEF Written, WrittenInv
  <2>4. CASE rows'[f] = 0 /\ finished'[f] = 0 /\ opened'[f] = "none"
    BY <2>2, <2>4, NothingWritten DEF Written
  <2>5. QED
    BY <2>1, <2>3, <2>4
<1>5. CASE Reader \/ WriteDirectory \/ EndDecoder \/ UNCHANGED allVars
  <2>1. DecodeSame
    BY <1>5 DEF Reader, GetList, FindSegments, OpenSegment, ReadSamples, Refresh, CountSegment,
                Refreshed, WriteDirectory, EndDecoder, allVars, decoderVars, DecodeSame
  <2>2. QED
    BY <1>1, <2>1
<1>6. QED
  BY <1>2, <1>3, <1>4, <1>5 DEF ReaderNext, Decoder, FamilyStep

(* As far as a reader can tell the decoder goes on: what is written stays,   *)
(* another decode begins only where nothing is, a complete one is left.      *)
Onward ==
  /\ UNCHANGED <<readerVars, callVars>>
  /\ \A f \in Families : /\ rows[f] <= rows'[f] /\ finished[f] <= finished'[f]
                          /\ Segments(f) <= Segments(f)'
  /\ directory = "finished" => directory' = "finished"
  /\ \/ layout' = layout /\ single' = single /\ decodes' = decodes
     \/ directory = "none" /\ \A f \in Families : rows'[f] = 0 /\ rows[f] = 0 /\ Segments(f) = 0
  /\ Complete => DecodeSame

(* A complete decode has no family left to go on with.                       *)
LEMMA NothingLeftToWrite ==
  ASSUME DecoderTypes, Complete, NEW f \in Families
  PROVE  ~FamilyStep(f)
<1>1. /\ rows[f] = Total(f) /\ finished[f] = Segments(f)
      /\ rows[f] \in Nat /\ finished[f] \in Nat /\ opened[f] \in {"none", "blank", "headed"}
  BY DecodeFacts DEF Complete
<1>2. opened[f] = "none"
  BY <1>1 DEF Segments
<1>3. ~(rows[f] < Total(f))
  BY <1>1
<1>4. QED
  BY <1>2, <1>3 DEF FamilyStep, CreateSegment, WriteHeader, WriteRow, FinishSegment

LEMMA WritingGoesOn ==
  ASSUME DecoderTypes, NEW f \in Families, FamilyStep(f)
  PROVE  Onward
<1>1. UNCHANGED <<decodes, layout, single, directory, readerVars, callVars>>
  BY DEF FamilyStep, CreateSegment, WriteHeader, WriteRow, FinishSegment, Writes
<1>2. ASSUME NEW g \in Families
      PROVE  /\ rows[g] <= rows'[g] /\ finished[g] <= finished'[g]
             /\ Segments(g) <= Segments(g)'
  <2>1. rows[g] \in Nat /\ finished[g] \in Nat /\ Segments(g) \in Nat
    BY DecodeFacts
  <2>2. Segments(g)' = finished'[g] + IF opened'[g] = "none" THEN 0 ELSE 1
    BY DEF Segments
  <2>3. CASE g # f
    BY <2>1, <2>2, <2>3, OthersSame DEF Segments
  <2>4. CASE g = f
    <3>1. f \in DOMAIN rows /\ f \in DOMAIN finished /\ f \in DOMAIN opened
      BY DEF DecoderTypes
    <3>2. CASE CreateSegment(f)
      <4>1. rows'[f] = rows[f] /\ finished'[f] = finished[f] /\ opened[f] = "none"
            /\ opened'[f] = "blank"
        BY <3>1, <3>2 DEF CreateSegment
      <4>2. QED
        BY <2>1, <2>2, <2>4, <4>1 DEF Segments
    <3>3. CASE WriteHeader(f)
      <4>1. rows'[f] = rows[f] /\ finished'[f] = finished[f] /\ opened[f] = "blank"
            /\ opened'[f] = "headed"
        BY <3>1, <3>3 DEF WriteHeader
      <4>2. QED
        BY <2>1, <2>2, <2>4, <4>1 DEF Segments
    <3>4. CASE WriteRow(f)
      <4>1. rows'[f] = rows[f] + 1 /\ finished'[f] = finished[f] /\ opened' = opened
        BY <3>1, <3>4 DEF WriteRow
      <4>2. QED
        BY <2>1, <2>2, <2>4, <4>1 DEF Segments
    <3>5. CASE FinishSegment(f)
      <4>1. rows'[f] = rows[f] /\ finished'[f] = finished[f] + 1 /\ opened[f] = "headed"
            /\ opened'[f] = "none"
        BY <3>1, <3>5 DEF FinishSegment
      <4>2. QED
        BY <2>1, <2>2, <2>4, <4>1 DEF Segments
    <3>6. QED
      BY <3>2, <3>3, <3>4, <3>5 DEF FamilyStep
  <2>5. QED
    BY <2>3, <2>4
<1>3. ~Complete
  BY NothingLeftToWrite
<1>4. QED
  BY <1>1, <1>2, <1>3 DEF Onward

LEMMA DecoderGoesOn ==
  ASSUME DecoderTypes, WrittenInv, Decoder \/ UNCHANGED allVars
  PROVE  Onward
<1>1. \A f \in Families : rows[f] \in Nat /\ finished[f] \in Nat /\ Segments(f) \in Nat
  BY DecodeFacts
<1>2. CASE BeginDecode
  <2>1. /\ rows' = rows /\ finished' = finished /\ opened' = opened /\ directory = "none"
        /\ directory' = directory /\ UNCHANGED <<readerVars, callVars>>
        /\ \A f \in Families : Segments(f) = 0
    BY <1>2 DEF BeginDecode
  <2>2. \A f \in Families : Segments(f)' = Segments(f)
    BY <2>1 DEF Segments
  <2>3. \A f \in Families : rows[f] = 0
    BY <2>1, SegmentsWritten DEF WrittenInv
  <2>4. QED
    BY <1>1, <2>1, <2>2, <2>3 DEF Onward, Complete
<1>3. CASE \E f \in Families : FamilyStep(f)
  BY <1>3, WritingGoesOn
<1>4. CASE WriteDirectory \/ EndDecoder \/ UNCHANGED allVars
  <2>1. DecodeSame /\ UNCHANGED <<readerVars, callVars>>
    BY <1>4 DEF WriteDirectory, EndDecoder, allVars, decoderVars, DecodeSame
  <2>2. directory = "finished" => directory' = "finished"
    BY <1>4 DEF WriteDirectory, EndDecoder, allVars, decoderVars
  <2>3. \A f \in Families : /\ rows'[f] = rows[f] /\ finished'[f] = finished[f]
                             /\ Segments(f)' = Segments(f)
    BY <2>1, SameDecode DEF DecodeSame
  <2>4. QED
    BY <1>1, <2>1, <2>2, <2>3 DEF Onward, DecodeSame
<1>5. QED
  BY <1>2, <1>3, <1>4 DEF Decoder, FamilyStep

-----------------------------------------------------------------------------
(* The reader's types. *)

LEMMA AskedFor ==
  ASSUME EntriesInv, Listing
  PROVE  query \in Queries /\ query.family \in Families
BY ReaderAssumption DEF EntriesInv

LEMMA PathsTyped ==
  ASSUME DecoderTypes, NEW f \in Families
  PROVE  /\ Segments(f) \in Nat /\ Numbered \in Nat
         /\ SegmentPaths(f) \in [count : Nat, single : BOOLEAN]
         /\ SegmentPaths(f).single = single
         /\ SegmentPaths(f).count = IF single THEN Segments(f) ELSE Least(Segments(f), Numbered)
         /\ SegmentPaths(f).count <= Segments(f)
<1>1. Segments(f) \in Nat /\ Numbered \in Nat
  BY DecodeFacts, ReaderAssumption
<1>2. Least(Segments(f), Numbered) \in Nat /\ Least(Segments(f), Numbered) <= Segments(f)
  BY <1>1 DEF Least
<1>3. single \in BOOLEAN
  BY DEF DecoderTypes
<1>4. QED
  BY <1>1, <1>2, <1>3 DEF SegmentPaths

(* What is counted in a segment that is there. *)
LEMMA WriteCountFits ==
  ASSUME DecoderTypes, WrittenInv, NEW k \in Nat, k + 1 <= Segments("row_index")
  PROVE  LET c == Capacity("row_index")
             n == rows["row_index"]
         IN  /\ n \in Nat /\ c \in Nat /\ k * c \in Nat /\ k * c <= n
             /\ WriteCount(k + 1) = Least(n - k * c, c) /\ WriteCount(k + 1) \in Nat
             /\ (k + 1) * c = k * c + c
<1> DEFINE c == Capacity("row_index")
           n == rows["row_index"]
<1>1. "row_index" \in Families
  BY ReaderAssumption
<1>2. n \in Nat /\ c \in Nat
  BY <1>1, DecodeFacts
<1>3. k < Segments("row_index")
  BY <1>1, DecodeFacts
<1>4. k * c \in Nat /\ k * c <= n
  BY <1>1, <1>3, SegmentsWritten DEF WrittenInv
<1>5. WriteCount(k + 1) = Least(n - k * c, c)
  <2>1. k + 1 - 1 = k
    OBVIOUS
  <2>2. QED
    BY <2>1 DEF WriteCount
<1> HIDE DEF n, c
<1>6. Least(n - k * c, c) \in Nat
  BY <1>2, <1>4 DEF Least
<1>7. (k + 1) * c = k * c + c
  BY <1>2
<1>8. QED
  BY <1>2, <1>4, <1>5, <1>6, <1>7 DEF n, c

LEMMA OneMore ==
  ASSUME NEW X, NEW s \in Seq(X), NEW x \in X
  PROVE  /\ Append(s, x) \in Seq(X) /\ Len(Append(s, x)) = Len(s) + 1
         /\ Append(s, x)[Len(s) + 1] = x /\ \A i \in 1 .. Len(s) : Append(s, x)[i] = s[i]
OBVIOUS

LEMMA NoPathsTyped == NoPaths \in [count : Nat, single : BOOLEAN]
BY DEF NoPaths

LEMMA ReaderTyped ==
  ASSUME DecoderTypes, ReaderTypes, WrittenInv, EntriesInv, [ReaderNext]_allVars
  PROVE  ReaderTypes'
<1>1. CASE Decoder \/ RemoveFiles \/ UNCHANGED allVars
  BY <1>1 DEF Decoder, BeginDecode, CreateSegment, WriteHeader, WriteRow, FinishSegment, Writes,
              WriteDirectory, EndDecoder, RemoveFiles, allVars, readerVars, callVars, ReaderTypes
<1>2. CASE \E q \in Queries : GetList(q)
  <2>1. complete' \in BOOLEAN
    <3>1. Complete \in BOOLEAN
      BY DEF Complete
    <3>2. complete' = Complete
      BY <1>2 DEF GetList
    <3>3. QED
      BY <3>1, <3>2
  <2>2. held' = <<>> /\ counted' = 0 /\ before' = 0 /\ paths' = paths /\ disturbed' = FALSE
    BY <1>2 DEF GetList, Called
  <2>3. pc' \in Stages
    BY <1>2 DEF GetList, Stages
  <2>4. held' \in Seq(HeldSegments)
    BY <2>2
  <2>5. QED
    BY <2>1, <2>2, <2>3, <2>4 DEF ReaderTypes
<1>3. CASE FindSegments
  <2>1. query.family \in Families
    BY <1>3, AskedFor DEF FindSegments, Listing
  <2>2. paths' \in [count : Nat, single : BOOLEAN]
    BY <1>3, <2>1, PathsTyped DEF FindSegments
  <2>3. QED
    BY <1>3, <2>2 DEF FindSegments, ReaderTypes, Stages, callVars
<1>4. CASE OpenSegment
  <2> DEFINE f == query.family
             i == Len(held) + 1
             s == [decode |-> decodes, capacity |-> CapacityRead(f, i),
                   size |-> Capacity(f), start |-> (i - 1) * Capacity(f)]
  <2>1. f \in Families
    BY <1>4, AskedFor DEF OpenSegment, Listing
  <2>2. Capacity(f) \in Nat /\ Len(held) \in Nat /\ decodes \in Nat
    BY <2>1, DecodeFacts DEF ReaderTypes, DecoderTypes
  <2>3. CapacityRead(f, i) \in Nat /\ (i - 1) * Capacity(f) \in Nat
    BY <2>2 DEF CapacityRead
  <2>4. s \in HeldSegments
    <3> HIDE DEF f, i
    <3>1. QED
      BY <2>2, <2>3 DEF HeldSegments
  <2>5. \/ held' = Append(held, s) /\ pc' = pc /\ paths' = paths
        \/ held' = <<>> /\ pc' = "raised" /\ paths' = NoPaths
    BY <1>4 DEF OpenSegment
  <2> HIDE DEF s
  <2>6. held' \in Seq(HeldSegments)
    <3>1. <<>> \in Seq(HeldSegments)
      OBVIOUS
    <3>2. held \in Seq(HeldSegments)
      BY DEF ReaderTypes
    <3> HIDE DEF i, f
    <3>3. Append(held, s) \in Seq(HeldSegments)
      BY <2>4, <3>2, OneMore
    <3>4. QED
      BY <2>5, <3>1, <3>3
  <2>7. paths' \in [count : Nat, single : BOOLEAN]
    BY <2>5, NoPathsTyped DEF ReaderTypes
  <2>8. QED
    BY <1>4, <2>5, <2>6, <2>7 DEF OpenSegment, ReaderTypes, Stages, callVars
<1>5. CASE ReadSamples \/ Refreshed
  <2>1. <<>> \in Seq(HeldSegments)
    OBVIOUS
  <2>2. QED
    BY <1>5, <2>1, NoPathsTyped DEF ReadSamples, Refreshed, ReaderTypes, Stages, callVars
<1>6. CASE Refresh
  <2>1. "row_index" \in Families /\ rows["row_index"] \in Nat
    BY ReaderAssumption DEF DecoderTypes
  <2>2. paths' \in [count : Nat, single : BOOLEAN]
    BY <1>6, <2>1, PathsTyped DEF Refresh
  <2>3. <<>> \in Seq(HeldSegments)
    OBVIOUS
  <2>4. QED
    BY <1>6, <2>1, <2>2, <2>3 DEF Refresh, Called, ReaderTypes, Stages
<1>7. CASE CountSegment
  <2> DEFINE s == [decode |-> decodes, capacity |-> 0, size |-> 0, start |-> 0]
             k == Len(held)
  <2>1. s \in HeldSegments /\ k \in Nat
    BY DEF HeldSegments, DecoderTypes, ReaderTypes
  <2>2. held' = Append(held, s)
        /\ counted' = counted + IF Exists("row_index", k + 1) THEN WriteCount(k + 1) ELSE 0
    BY <1>7 DEF CountSegment
  <2> HIDE DEF s
  <2>3. held' \in Seq(HeldSegments)
    BY <2>1, <2>2, OneMore DEF ReaderTypes
  <2> HIDE DEF k
  <2>4. Exists("row_index", k + 1) => WriteCount(k + 1) \in Nat
    BY <2>1, WriteCountFits DEF Exists
  <2>5. counted' \in Nat
    BY <2>2, <2>4 DEF ReaderTypes
  <2>6. QED
    BY <1>7, <2>3, <2>5 DEF CountSegment, ReaderTypes, callVars
<1>8. QED
  BY <1>1, <1>2, <1>3, <1>4, <1>5, <1>6, <1>7 DEF ReaderNext, Reader

-----------------------------------------------------------------------------
(* The invariant through the decoder's steps.                                *)

LEMMA SegmentsGrow ==
  ASSUME DecoderTypes, DecoderTypes', Onward, NEW f \in Families
  PROVE  /\ Segments(f) \in Nat /\ Segments(f)' \in Nat /\ Segments(f) <= Segments(f)'
         /\ Capacity(f) \in Nat /\ Capacity(f)' \in Nat
         /\ Segments(f) # 0 => /\ Capacity(f)' = Capacity(f)
                               /\ single' = single /\ decodes' = decodes
<1>1. Segments(f) \in Nat /\ Capacity(f) \in Nat
  BY DecodeFacts
<1>2. Total(f)' \in Nat /\ Capacity(f)' \in Nat
  BY TotalTyped, ReaderAssumption DEF DecoderTypes, Total, Capacity
<1>3. Segments(f)' \in Nat
  <2>1. finished'[f] \in Nat
    BY DEF DecoderTypes
  <2>2. QED
    BY <2>1 DEF Segments
<1>4. Segments(f) # 0 => Capacity(f)' = Capacity(f) /\ single' = single /\ decodes' = decodes
  BY SameLayout DEF Onward
<1>5. QED
  BY <1>1, <1>2, <1>3, <1>4 DEF Onward

LEMMA SameMatched ==
  ASSUME layout' = layout, directory' = directory
  PROVE  /\ query' = query => Matched(query)' = Matched(query)
         /\ \A q : query' = q => Matched(query)' = Matched(q)
<1>1. Directory' = Directory
  BY DEF Directory
<1>2. LoadedEntries' = LoadedEntries
  BY <1>1 DEF LoadedEntries
<1>3. QED
  BY <1>2 DEF Matched

LEMMA CompleteStays ==
  ASSUME Complete, Onward
  PROVE  DecodeSame /\ directory' = directory /\ Complete'
<1>1. DecodeSame /\ directory = "finished" /\ directory' = "finished"
  BY DEF Onward, Complete
<1>2. ASSUME NEW f \in Families
      PROVE  rows'[f] = Total(f)' /\ finished'[f] = Segments(f)'
  <2>1. Total(f)' = Total(f) /\ Segments(f)' = Segments(f)
    BY <1>1, SameDecode
  <2>2. rows' = rows /\ finished' = finished
    BY <1>1 DEF DecodeSame
  <2>3. QED
    BY <2>1, <2>2 DEF Complete
<1>3. QED
  BY <1>1, <1>2 DEF Complete

LEMMA OnwardEntries ==
  ASSUME DecoderTypes, EntriesInv, Onward
  PROVE  EntriesInv'
<1>1. /\ pc' = pc /\ query' = query /\ entries' = entries
      /\ disturbed' = disturbed /\ complete' = complete
  BY DEF Onward, readerVars, callVars
<1>2. directory = "finished" => Matched(query)' = Matched(query) /\ directory' = "finished"
  <2>1. directory = "finished" => layout' = layout /\ directory' = directory
    BY DEF Onward
  <2>2. QED
    BY <1>1, <2>1, SameMatched
<1>3. Complete => Complete' /\ Matched(query)' = Matched(query)
  BY <1>2, CompleteStays DEF Complete
<1>4. Listing' = Listing
  BY <1>1 DEF Listing
<1>5. QED
  BY <1>1, <1>2, <1>3, <1>4 DEF EntriesInv

LEMMA OnwardPaths ==
  ASSUME DecoderTypes, DecoderTypes', WrittenInv, WrittenInv', ReaderTypes, EntriesInv, PathsInv, HeldInv,
         Onward
  PROVE  PathsInv' /\ HeldInv'
<1>1. /\ pc' = pc /\ query' = query /\ paths' = paths /\ held' = held
      /\ disturbed' = disturbed /\ complete' = complete /\ result' = result
  BY DEF Onward, readerVars, callVars
<1>2. /\ pc' = "raised" => disturbed' \/ ~complete'
      /\ pc' = "finding" => held' = <<>> /\ result' = <<>>
  BY <1>1 DEF HeldInv
<1>3. CASE disturbed \/ pc # "opening"
  BY <1>1, <1>2, <1>3 DEF PathsInv, HeldInv
<1>4. CASE ~disturbed /\ pc = "opening"
  <2> DEFINE f == query.family
  <2>1. /\ f \in Families /\ f' = f /\ paths.count \in 1 .. Segments(f)
        /\ paths.single = single /\ Len(held) <= paths.count
        /\ complete /\ Numberable(f) => paths.count = Segments(f)
    BY <1>1, <1>4, AskedFor DEF Listing, PathsInv, HeldInv
  <2>2. complete => Complete
    BY <1>4 DEF EntriesInv, Listing
  <2>3. /\ Segments(f) \in Nat /\ Segments(f)' \in Nat /\ Segments(f) <= Segments(f)'
        /\ single' = single /\ decodes' = decodes /\ Capacity(f)' = Capacity(f)
    <3> HIDE DEF f
    <3>1. Segments(f) # 0
      BY <2>1, SegmentsGrow
    <3>2. QED
      BY <1>1, <2>1, <3>1, SegmentsGrow DEF f
  <2>4. complete => Segments(f)' = Segments(f) /\ Numberable(f)' = Numberable(f)
    <3>1. complete => DecodeSame
      BY <2>2, CompleteStays
    <3>2. complete => Segments(f)' = Segments(f) /\ single' = single
      BY <1>1, <3>1 DEF DecodeSame, Segments
    <3>3. QED
      BY <3>2 DEF Numberable
  <2>5. PathsInv'
    BY <1>1, <2>1, <2>3, <2>4 DEF PathsInv
  <2>6. ASSUME NEW i \in 1 .. Len(held) PROVE HeldRightly(i, f)'
    <3>1. HeldRightly(i, f)
      BY <1>4, <2>6 DEF HeldInv
    <3>2. finished[f] \in Nat /\ finished'[f] \in Nat /\ finished[f] <= finished'[f]
      BY <2>1 DEF Onward, DecoderTypes
    <3>3. finished'[f'] = finished'[f]
      BY <2>1
    <3>4. QED
      BY <1>1, <2>1, <2>3, <3>1, <3>2, <3>3 DEF HeldRightly
  <2>7. HeldInv'
    BY <1>1, <1>2, <2>1, <2>6 DEF HeldInv
  <2>8. QED
    BY <2>5, <2>7
<1>5. QED
  BY <1>3, <1>4

LEMMA OnwardCount ==
  ASSUME DecoderTypes, DecoderTypes', WrittenInv, WrittenInv', ReaderTypes, CountInv, Onward
  PROVE  CountInv'
<1> DEFINE f == "row_index"
           S == Segments(f)
           c == Capacity(f)
           n == rows[f]
           m == rows'[f]
           d == Capacity(f)'
<1>1. /\ pc' = pc /\ paths' = paths /\ held' = held /\ counted' = counted
      /\ disturbed' = disturbed /\ before' = before
  BY DEF Onward, readerVars, callVars
<1>2. CASE disturbed \/ pc \notin {"counting", "refreshed"}
  BY <1>1, <1>2 DEF CountInv
<1>3. CASE ~disturbed /\ pc \in {"counting", "refreshed"}
  <2>1. /\ f \in Families /\ n \in Nat /\ m \in Nat /\ n <= m /\ before \in Nat /\ before <= n
        /\ counted \in Nat /\ paths.count \in Nat /\ Len(held) \in Nat
    BY <1>3, ReaderAssumption DEF DecoderTypes, ReaderTypes, Onward, CountInv
  <2>2. /\ S \in Nat /\ S' \in Nat /\ S <= S' /\ c \in Nat /\ d \in Nat
        /\ S # 0 => d = c /\ single' = single
    BY <2>1, SegmentsGrow
  <2>3. S = 0 => n = 0
    BY <2>1, SegmentsWritten DEF WrittenInv
  <2>4. CASE S = 0
    <3>1. before = 0
      BY <2>1, <2>3, <2>4
    <3>2. CASE pc = "counting"
      <4>1. paths.count = 0 /\ Len(held) = 0 /\ CountedIn(0)
        BY <1>3, <2>1, <2>2, <2>4, <3>2 DEF CountInv
      <4>2. counted = 0
        <5>1. 0 * c = 0
          BY <2>2
        <5>2. counted <= Least(n, 0)
          BY <4>1, <5>1 DEF CountedIn
        <5>3. QED
          BY <2>1, <5>2 DEF Least
      <4>3. 0 * d = 0 /\ Least(0, 0) = 0 /\ Least(m, 0) = 0
        BY <2>1, <2>2 DEF Least
      <4>4. CountedIn(Len(held))'
        BY <1>1, <3>1, <4>1, <4>2, <4>3 DEF CountedIn
      <4> HIDE DEF m, n, c, d, S
      <4>5. before' <= m /\ Len(held) <= paths.count /\ paths.count <= S'
            /\ before' <= paths.count * d
        BY <1>1, <2>1, <2>2, <3>1, <4>1, <4>3
      <4>6. QED
        BY <1>1, <3>2, <4>1, <4>4, <4>5 DEF CountInv, S, d, m
    <3>3. CASE pc = "refreshed"
      <4>1. counted <= n
        BY <1>3, <3>3 DEF CountInv
      <4>2. counted <= m /\ before <= m /\ before <= counted
        <5> HIDE DEF m, n
        <5>1. QED
          BY <2>1, <3>1, <4>1
      <4>3. QED
        BY <1>1, <3>3, <4>2 DEF CountInv
    <3>4. QED
      BY <1>3, <3>2, <3>3
  <2>5. CASE S # 0
    <3>1. d = c /\ single' = single
      BY <2>2, <2>5
    <3>2. Numberable(f)' => Numberable(f)
      <4>1. Numbered \in Nat
        BY ReaderAssumption
      <4> HIDE DEF f
      <4>2. Numberable(f)' <=> single \/ Segments(f)' <= Numbered
        BY <3>1 DEF Numberable, f
      <4>3. QED
        BY <2>2, <4>1, <4>2 DEF Numberable, S
    <3>3. before <= m
      <4> HIDE DEF m, n
      <4>1. QED
        BY <2>1
    <3>4. CASE pc = "counting"
      <4>1. /\ Len(held) <= paths.count /\ paths.count <= S
            /\ paths.count # 0 => paths.single = single
            /\ Numberable(f) => before <= paths.count * c
            /\ CountedIn(Len(held))
        BY <1>3, <3>4 DEF CountInv
      <4>2. CountedIn(Len(held))'
        <5> DEFINE k == Len(held) * c
        <5>1. k \in Nat
          BY <2>1, <2>2
        <5>2. Least(before, k) <= counted /\ counted <= Least(n, k)
          BY <4>1 DEF CountedIn
        <5> HIDE DEF n, m, k
        <5>3. counted <= Least(m, k)
          BY <2>1, <5>1, <5>2 DEF Least
        <5>4. QED
          BY <1>1, <3>1, <5>2, <5>3 DEF CountedIn, k, m
      <4>3. paths.count <= S'
        BY <2>1, <2>2, <4>1
      <4>4. QED
        BY <1>1, <3>1, <3>2, <3>3, <3>4, <4>1, <4>2, <4>3 DEF CountInv
    <3>5. CASE pc = "refreshed"
      <4>1. counted <= n /\ (Numberable(f) => before <= counted)
        BY <1>3, <3>5 DEF CountInv
      <4>2. counted <= m
        <5> HIDE DEF m, n
        <5>1. QED
          BY <2>1, <4>1
      <4>3. QED
        BY <1>1, <3>2, <3>3, <3>5, <4>1, <4>2 DEF CountInv
    <3>6. QED
      BY <1>3, <3>4, <3>5
  <2>6. QED
    BY <2>4, <2>5
<1>4. QED
  BY <1>2, <1>3

(* What is removed under a reader is not reckoned with.                      *)
LEMMA RemovalKeeps ==
  ASSUME EntriesInv, HeldInv, RemoveFiles
  PROVE  EntriesInv' /\ PathsInv' /\ HeldInv' /\ CountInv'
<1>1. /\ disturbed' /\ pc' = pc /\ query' = query /\ entries' = entries
      /\ held' = held /\ result' = result
  BY DEF RemoveFiles, readerVars
<1>2. QED
  BY <1>1 DEF EntriesInv, PathsInv, HeldInv, CountInv, Listing

-----------------------------------------------------------------------------
(* The invariant through the reader's steps.                                 *)

DecoderWaits == DecodeSame /\ directory' = directory

LEMMA WaitingSame ==
  ASSUME DecoderWaits
  PROVE  /\ \A f : /\ Segments(f)' = Segments(f) /\ Capacity(f)' = Capacity(f)
                   /\ Total(f)' = Total(f) /\ Numberable(f)' = Numberable(f)
         /\ Complete' = Complete
         /\ query' = query => Matched(query)' = Matched(query)
         /\ \A q : query' = q => Matched(query)' = Matched(q)
<1>1. \A f : /\ Segments(f)' = Segments(f) /\ Capacity(f)' = Capacity(f)
             /\ Total(f)' = Total(f) /\ Numberable(f)' = Numberable(f)
  <2> TAKE f
  <2>1. Segments(f)' = Segments(f) /\ Capacity(f)' = Capacity(f) /\ Total(f)' = Total(f)
    BY SameDecode DEF DecoderWaits
  <2>2. QED
    BY <2>1 DEF Numberable, DecoderWaits, DecodeSame
<1>2. Complete' = Complete
  BY <1>1 DEF Complete, DecoderWaits, DecodeSame
<1>3. layout' = layout /\ directory' = directory
  BY DEF DecoderWaits, DecodeSame
<1>4. QED
  BY <1>1, <1>2, <1>3, SameMatched

LEMMA GetListKeeps ==
  ASSUME DecoderTypes, NEW q \in Queries, GetList(q)
  PROVE  EntriesInv' /\ PathsInv' /\ HeldInv' /\ CountInv'
<1>1. /\ query' = q /\ entries' = Matched(q) /\ complete' = Complete
      /\ held' = <<>> /\ result' = <<>> /\ pc' \in {"returned", "finding", "raised"}
      /\ pc' = "finding" => entries' # <<>>
      /\ pc' = "raised" => directory = "blank"
  BY DEF GetList
<1>2. DecoderWaits
  BY DEF GetList, decoderVars, DecoderWaits, DecodeSame
<1>3. Matched(query)' = entries' /\ Complete' = complete'
  BY <1>1, <1>2, WaitingSame
<1>4. entries' # <<>> => directory' = "finished"
  <2>1. ASSUME directory # "finished" PROVE entries' = <<>>
    BY <1>1, <2>1, SelectEmpty DEF Matched, LoadedEntries
  <2>2. QED
    BY <1>2, <2>1 DEF DecoderWaits
<1>5. EntriesInv'
  BY <1>1, <1>3, <1>4 DEF EntriesInv, Listing
<1>6. pc' = "raised" => ~complete'
  BY <1>1 DEF Complete
<1>7. QED
  BY <1>1, <1>5, <1>6 DEF PathsInv, HeldInv, CountInv

LEMMA FindSegmentsKeeps ==
  ASSUME DecoderTypes, ReaderTypes, WrittenInv, EntriesInv, HeldInv, FindSegments
  PROVE  EntriesInv' /\ PathsInv' /\ HeldInv' /\ CountInv'
<1> DEFINE f == query.family
<1>1. /\ pc = "finding" /\ query' = query /\ entries' = entries /\ held' = held
      /\ result' = result /\ disturbed' = disturbed /\ complete' = complete
      /\ paths' = SegmentPaths(f) /\ pc' \in {"returned", "opening"}
      /\ pc' = "opening" => paths'.count # 0
  BY DEF FindSegments, callVars
<1>2. DecoderWaits
  BY DEF FindSegments, decoderVars, DecoderWaits, DecodeSame
<1>3. /\ \A g : Segments(g)' = Segments(g) /\ Numberable(g)' = Numberable(g)
      /\ Complete' = Complete /\ Matched(query)' = Matched(query)
      /\ single' = single /\ directory' = directory
  BY <1>1, <1>2, WaitingSame DEF DecoderWaits, DecodeSame
<1>4. Listing /\ Listing'
  BY <1>1 DEF Listing
<1>5. EntriesInv'
  BY <1>1, <1>3, <1>4 DEF EntriesInv
<1>6. f \in Families
  BY <1>4, AskedFor
<1>7. /\ paths'.single = single /\ paths'.count \in Nat /\ Segments(f) \in Nat
      /\ paths'.count <= Segments(f)
      /\ Numberable(f) => paths'.count = Segments(f)
  <2> HIDE DEF f
  <2>1. /\ Segments(f) \in Nat /\ Numbered \in Nat /\ paths'.single = single
        /\ paths'.count = (IF single THEN Segments(f) ELSE Least(Segments(f), Numbered))
        /\ paths'.count <= Segments(f)
        /\ paths' \in [count : Nat, single : BOOLEAN]
    BY <1>1, <1>6, PathsTyped
  <2>2. QED
    BY <2>1 DEF Numberable, Least
<1>8. PathsInv'
  <2>1. ASSUME pc' = "opening"
        PROVE  /\ paths'.count \in 1 .. Segments(f) /\ paths'.single = single
               /\ Numberable(f) => paths'.count = Segments(f)
    <3> HIDE DEF f
    <3>1. paths'.count # 0
      BY <1>1, <2>1
    <3>2. QED
      BY <1>7, <3>1
  <2>2. QED
    BY <1>1, <1>3, <2>1 DEF PathsInv
<1>9. held' = <<>>
  BY <1>1 DEF HeldInv
<1>10. HeldInv'
  <2>1. Len(held') = 0 /\ 1 .. 0 = {}
    BY <1>9
  <2>2. pc' = "opening" => Len(held') <= paths'.count
    BY <1>7, <2>1
  <2>3. \A i \in 1 .. Len(held') : FALSE
    BY <2>1
  <2>4. QED
    BY <1>1, <2>2, <2>3 DEF HeldInv
<1>11. QED
  BY <1>1, <1>5, <1>8, <1>10 DEF CountInv

LEMMA OpenSegmentKeeps ==
  ASSUME DecoderTypes, ReaderTypes, WrittenInv, EntriesInv, PathsInv, HeldInv, OpenSegment
  PROVE  EntriesInv' /\ PathsInv' /\ HeldInv' /\ CountInv'
<1> DEFINE f == query.family
           i == Len(held) + 1
           s == [decode |-> decodes, capacity |-> CapacityRead(f, i), size |-> Capacity(f),
                 start |-> (i - 1) * Capacity(f)]
<1>1. /\ pc = "opening" /\ Len(held) < paths.count
      /\ query' = query /\ entries' = entries
      /\ disturbed' = disturbed /\ complete' = complete
      /\ \/ /\ Exists(f, i) /\ Headed(f, i)
            /\ held' = Append(held, s) /\ pc' = pc /\ paths' = paths
         \/ ~(Exists(f, i) /\ Headed(f, i)) /\ held' = <<>> /\ pc' = "raised"
  BY DEF OpenSegment, callVars
<1>2. DecoderWaits
  BY DEF OpenSegment, decoderVars, DecoderWaits, DecodeSame
<1>3. /\ \A g : /\ Segments(g)' = Segments(g) /\ Numberable(g)' = Numberable(g)
                /\ Capacity(g)' = Capacity(g)
      /\ Complete' = Complete /\ Matched(query)' = Matched(query)
      /\ single' = single /\ directory' = directory /\ decodes' = decodes
      /\ finished' = finished
  BY <1>1, <1>2, WaitingSame DEF DecoderWaits, DecodeSame
<1> HIDE DEF s
<1>4. Listing /\ f \in Families
  BY <1>1, AskedFor DEF Listing
<1>5. EntriesInv'
  BY <1>1, <1>3, <1>4 DEF EntriesInv, Listing
<1>6. CASE disturbed
  BY <1>1, <1>5, <1>6 DEF PathsInv, HeldInv, CountInv
<1>7. CASE ~disturbed
  <2>1. /\ paths.count \in 1 .. Segments(f) /\ paths.single = single
        /\ complete /\ Numberable(f) => paths.count = Segments(f)
    BY <1>1, <1>7 DEF PathsInv
  <2>2. Segments(f) \in Nat /\ Len(held) \in Nat /\ paths.count \in Nat
    <3>1. Segments(f) \in Nat
      <4> HIDE DEF f
      <4>1. QED
        BY <1>4, PathsTyped
    <3>2. QED
      BY <3>1, <2>1 DEF ReaderTypes
  <2>3. i \in 1 .. Segments(f) /\ i <= paths.count /\ Exists(f, i)
    <3> HIDE DEF f
    <3>1. i \in 1 .. Segments(f) /\ i <= paths.count
      BY <1>1, <2>1, <2>2
    <3>2. QED
      BY <2>1, <3>1 DEF Exists
  <2>4. CASE pc' = "raised"
    <3>1. ~Headed(f, i)
      BY <1>1, <2>3, <2>4
    <3>2. complete => finished[f] = Segments(f)
      BY <1>4, <1>7 DEF EntriesInv, Complete
    <3>3. ~complete
      BY <2>3, <3>1, <3>2 DEF Headed
    <3>4. QED
      BY <1>1, <1>5, <2>4, <3>3 DEF PathsInv, HeldInv, CountInv
  <2> SUFFICES ASSUME pc' # "raised" PROVE EntriesInv' /\ PathsInv' /\ HeldInv' /\ CountInv'
    BY <2>4
  <2>12. held' = Append(held, s) /\ pc' = "opening" /\ paths' = paths
    BY <1>1
  <2>5. s \in HeldSegments /\ Capacity(f) \in Nat /\ finished[f] \in Nat
    <3> HIDE DEF f
    <3>1. Capacity(f) \in Nat /\ finished[f] \in Nat /\ decodes \in Nat
      BY <1>4, DecodeFacts DEF DecoderTypes
    <3>2. CapacityRead(f, i) \in Nat /\ (i - 1) * Capacity(f) \in Nat
      BY <2>2, <3>1 DEF CapacityRead
    <3> HIDE DEF i
    <3>3. QED
      BY <3>1, <3>2 DEF HeldSegments, s
  <2>6. /\ Len(held') = i /\ held'[i] = s
        /\ \A j \in 1 .. Len(held) : held'[j] = held[j]
    BY <2>12, <2>5, OneMore DEF ReaderTypes
  <2>7. i < paths.count \/ complete => i <= finished[f]
    <3>1. complete => finished[f] = Segments(f)
      BY <1>4, <1>7 DEF EntriesInv, Complete
    <3>2. Segments(f) <= finished[f] + 1
      BY <1>4, SegmentsWritten DEF WrittenInv
    <3> HIDE DEF f, i
    <3>3. QED
      BY <2>1, <2>2, <2>3, <2>5, <3>1, <3>2
  <2>8. ASSUME NEW k \in 1 .. Len(held') PROVE HeldRightly(k, f)'
    <3>1. f' = f
      BY <1>1
    <3>2. CASE k \in 1 .. Len(held)
      <4>1. HeldRightly(k, f) /\ held'[k] = held[k]
        BY <1>1, <1>7, <2>6, <3>2 DEF HeldInv
      <4>2. QED
        BY <1>1, <1>3, <2>12, <3>1, <4>1 DEF HeldRightly
    <3>3. CASE k \notin 1 .. Len(held)
      <4>1. k = i
        BY <2>2, <2>6, <3>3
      <4>2. /\ s.decode = decodes /\ s.size = Capacity(f) /\ s.start = (k - 1) * Capacity(f)
            /\ s.capacity = (IF k <= finished[f] THEN Capacity(f) ELSE 0)
        BY <4>1 DEF s, CapacityRead
      <4>3. held'[k] = s /\ (k < paths.count \/ complete => k <= finished[f])
        BY <2>6, <2>7, <4>1
      <4> HIDE DEF i
      <4>4. QED
        BY <1>1, <1>3, <2>12, <3>1, <4>2, <4>3 DEF HeldRightly
    <3>4. QED
      BY <3>2, <3>3
  <2>9. PathsInv'
    BY <1>1, <1>3, <2>1, <2>12 DEF PathsInv
  <2>10. HeldInv'
    <3>1. Len(held') <= paths'.count
      BY <2>3, <2>6, <2>12
    <3>2. QED
      BY <1>1, <2>12, <2>8, <3>1 DEF HeldInv
  <2>11. QED
    BY <1>5, <2>12, <2>9, <2>10 DEF CountInv
<1>8. QED
  BY <1>6, <1>7

LEMMA ReadSamplesKeeps ==
  ASSUME DecoderTypes, EntriesInv, ReadSamples
  PROVE  EntriesInv' /\ PathsInv' /\ HeldInv' /\ CountInv'
<1>1. /\ pc = "opening" /\ pc' = "returned" /\ query' = query /\ entries' = entries
      /\ disturbed' = disturbed /\ complete' = complete
  BY DEF ReadSamples, callVars
<1>2. DecoderWaits
  BY DEF ReadSamples, decoderVars, DecoderWaits, DecodeSame
<1>3. Complete' = Complete /\ Matched(query)' = Matched(query) /\ directory' = directory
  BY <1>1, <1>2, WaitingSame DEF DecoderWaits
<1>4. QED
  BY <1>1, <1>3 DEF EntriesInv, PathsInv, HeldInv, CountInv, Listing

LEMMA RefreshKeeps ==
  ASSUME DecoderTypes, WrittenInv, Refresh
  PROVE  EntriesInv' /\ PathsInv' /\ HeldInv' /\ CountInv'
<1> DEFINE f == "row_index"
           S == Segments(f)
           c == Capacity(f)
           n == rows[f]
<1>1. /\ pc' = "counting" /\ paths' = SegmentPaths(f) /\ held' = <<>> /\ counted' = 0
      /\ before' = n
  BY DEF Refresh
<1>2. DecoderWaits
  BY DEF Refresh, decoderVars, DecoderWaits, DecodeSame
<1>3. /\ Segments(f)' = S /\ Capacity(f)' = c /\ Numberable(f)' = Numberable(f)
      /\ single' = single /\ rows' = rows
  BY <1>2, WaitingSame DEF DecoderWaits, DecodeSame
<1>4. f \in Families /\ n \in Nat /\ c \in Nat
  BY ReaderAssumption, DecodeFacts
<1>5. /\ S \in Nat /\ n <= S * c /\ S * c \in Nat /\ Numbered \in Nat
      /\ SegmentPaths(f).count = (IF single THEN S ELSE Least(S, Numbered))
      /\ SegmentPaths(f).count <= S /\ SegmentPaths(f).single = single
      /\ SegmentPaths(f).count \in Nat
  BY <1>4, SegmentsWritten, PathsTyped DEF WrittenInv
<1>6. Numberable(f) => SegmentPaths(f).count = S
  BY <1>5 DEF Numberable, Least
<1>7. Len(held') = 0 /\ 0 * c = 0
  BY <1>1, <1>4
<1>8. CountedIn(Len(held))'
  <2>1. Least(n, 0) = 0
    BY <1>4 DEF Least
  <2>2. QED
    BY <1>1, <1>3, <1>7, <2>1 DEF CountedIn
<1>9. Numberable(f)' => before' <= paths'.count * c
  BY <1>1, <1>3, <1>5, <1>6
<1>10. CountInv'
  <2> HIDE DEF S, c, n
  <2>1. n <= n /\ 0 <= SegmentPaths(f).count
    BY <1>4, <1>5
  <2>2. before' <= rows'[f]
    BY <1>1, <1>3, <2>1 DEF n
  <2>3. /\ Len(held') <= paths'.count /\ paths'.count <= Segments(f)'
        /\ paths'.single = single'
    BY <1>1, <1>3, <1>5, <1>7, <2>1
  <2>4. QED
    BY <1>1, <1>3, <1>8, <1>9, <2>2, <2>3 DEF CountInv
<1>11. QED
  BY <1>1, <1>10 DEF EntriesInv, PathsInv, HeldInv, Listing

(* Adding what is written in one more segment.                               *)
LEMMA OneMoreCounted ==
  ASSUME NEW b \in Nat, NEW n \in Nat, NEW a \in Nat, NEW c \in Nat, NEW k \in Nat,
         b <= n, a <= n, Least(b, a) <= k, k <= Least(n, a)
  PROVE  /\ Least(b, a + c) <= k + Least(n - a, c)
         /\ k + Least(n - a, c) <= Least(n, a + c)
BY DEF Least

LEMMA CountSegmentKeeps ==
  ASSUME DecoderTypes, ReaderTypes, WrittenInv, CountInv, CountSegment
  PROVE  EntriesInv' /\ PathsInv' /\ HeldInv' /\ CountInv'
<1> DEFINE f == "row_index"
           S == Segments(f)
           c == Capacity(f)
           n == rows[f]
           k == Len(held)
           s == [decode |-> decodes, capacity |-> 0, size |-> 0, start |-> 0]
<1>1. /\ pc = "counting" /\ k < paths.count /\ held' = Append(held, s) /\ pc' = pc
      /\ counted' = counted + (IF Exists(f, k + 1) THEN WriteCount(k + 1) ELSE 0)
      /\ paths' = paths /\ disturbed' = disturbed /\ before' = before
  BY DEF CountSegment, callVars
<1>2. DecoderWaits
  BY DEF CountSegment, decoderVars, DecoderWaits, DecodeSame
<1>3. /\ Segments(f)' = S /\ Capacity(f)' = c /\ Numberable(f)' = Numberable(f)
      /\ single' = single /\ rows' = rows
  BY <1>2, WaitingSame DEF DecoderWaits, DecodeSame
<1>4. EntriesInv' /\ PathsInv' /\ HeldInv'
  BY <1>1 DEF EntriesInv, PathsInv, HeldInv, Listing
<1>5. CASE disturbed
  BY <1>1, <1>4, <1>5 DEF CountInv
<1>6. CASE ~disturbed
  <2>1. /\ before <= n /\ paths.count <= S /\ (paths.count # 0 => paths.single = single)
        /\ Numberable(f) => before <= paths.count * c
        /\ CountedIn(k)
    BY <1>1, <1>6 DEF CountInv
  <2>2. /\ k \in Nat /\ paths.count \in Nat /\ S \in Nat /\ before \in Nat /\ counted \in Nat
        /\ f \in Families
    BY ReaderAssumption, PathsTyped DEF ReaderTypes
  <2>3. k + 1 <= S /\ k + 1 <= paths.count /\ paths.single = single
    <3> HIDE DEF k, S
    <3>1. QED
      BY <1>1, <2>1, <2>2
  <2>4. Exists(f, k + 1)
    BY <2>3 DEF Exists
  <2>5. /\ n \in Nat /\ c \in Nat /\ k * c \in Nat /\ k * c <= n
        /\ WriteCount(k + 1) = Least(n - k * c, c) /\ (k + 1) * c = k * c + c
    BY <2>2, <2>3, WriteCountFits
  <2>6. Least(before, k * c) <= counted /\ counted <= Least(n, k * c)
    BY <2>1 DEF CountedIn
  <2>7. counted' = counted + Least(n - k * c, c)
    BY <1>1, <2>4, <2>5
  <2> DEFINE a == k * c
  <2>8. /\ Least(before, (k + 1) * c) <= counted'
        /\ counted' <= Least(n, (k + 1) * c)
    <3>1. /\ a \in Nat /\ a <= n /\ Least(before, a) <= counted /\ counted <= Least(n, a)
          /\ (k + 1) * c = a + c /\ counted' = counted + Least(n - a, c)
      BY <2>5, <2>6, <2>7
    <3> HIDE DEF a, n, c
    <3>2. /\ Least(before, a + c) <= counted + Least(n - a, c)
          /\ counted + Least(n - a, c) <= Least(n, a + c)
      BY <2>1, <2>2, <2>5, <3>1, OneMoreCounted
    <3>3. QED
      BY <3>1, <3>2
  <2>9. Len(held') = k + 1
    <3>1. s \in HeldSegments
      BY DEF HeldSegments, DecoderTypes
    <3> HIDE DEF s
    <3>2. QED
      BY <1>1, <3>1, OneMore DEF ReaderTypes
  <2>10. CountedIn(Len(held))'
    <3> HIDE DEF k
    <3>1. QED
      BY <1>1, <1>3, <2>8, <2>9 DEF CountedIn
  <2>11. CountInv'
    <3>1. Len(held') <= paths'.count /\ paths'.count <= S /\ paths'.single = single'
      BY <1>1, <1>3, <2>1, <2>3, <2>9
    <3> HIDE DEF k, S, c
    <3>2. QED
      BY <1>1, <1>3, <2>1, <2>10, <3>1 DEF CountInv, S, c
  <2>12. QED
    BY <1>4, <2>11
<1>7. QED
  BY <1>5, <1>6

LEMMA RefreshedKeeps ==
  ASSUME DecoderTypes, ReaderTypes, WrittenInv, CountInv, Refreshed
  PROVE  EntriesInv' /\ PathsInv' /\ HeldInv' /\ CountInv'
<1> DEFINE f == "row_index"
           c == Capacity(f)
           n == rows[f]
           a == paths.count * c
<1>1. /\ pc = "counting" /\ Len(held) = paths.count /\ pc' = "refreshed"
      /\ counted' = counted /\ disturbed' = disturbed /\ before' = before
  BY DEF Refreshed, callVars
<1>2. DecoderWaits
  BY DEF Refreshed, decoderVars, DecoderWaits, DecodeSame
<1>3. rows' = rows /\ Numberable(f)' = Numberable(f)
  BY <1>2, WaitingSame DEF DecoderWaits, DecodeSame
<1>4. ASSUME ~disturbed PROVE before <= n /\ counted <= n /\ (Numberable(f) => before <= counted)
  <2>1. /\ before <= n /\ (Numberable(f) => before <= a)
        /\ Least(before, a) <= counted /\ counted <= Least(n, a)
    BY <1>1, <1>4 DEF CountInv, CountedIn
  <2>2. before \in Nat /\ counted \in Nat /\ n \in Nat /\ a \in Nat
    <3>1. f \in Families /\ c \in Nat /\ n \in Nat
      BY ReaderAssumption, DecodeFacts
    <3>2. QED
      BY <3>1 DEF ReaderTypes
  <2> HIDE DEF a, n
  <2>3. QED
    BY <2>1, <2>2 DEF Least
<1>5. CountInv'
  BY <1>1, <1>3, <1>4 DEF CountInv
<1>6. QED
  BY <1>1, <1>5 DEF EntriesInv, PathsInv, HeldInv, Listing

LEMMA ReaderStep ==
  ASSUME ReaderInv, [ReaderNext]_allVars
  PROVE  ReaderInv'
<1>1. /\ DecoderTypes /\ ReaderTypes /\ WrittenInv /\ EntriesInv /\ PathsInv /\ HeldInv
      /\ CountInv
  BY DEF ReaderInv
<1>2. DecoderTypes'
  BY <1>1, DecoderTyped
<1>3. ReaderTypes'
  BY <1>1, ReaderTyped
<1>4. WrittenInv'
  BY <1>1, <1>2, WrittenStep
<1>5. EntriesInv' /\ PathsInv' /\ HeldInv' /\ CountInv'
  <2>1. CASE Reader
    BY <1>1, <2>1, GetListKeeps, FindSegmentsKeeps, OpenSegmentKeeps, ReadSamplesKeeps,
       RefreshKeeps, CountSegmentKeeps, RefreshedKeeps DEF Reader
  <2>2. CASE Decoder \/ UNCHANGED allVars
    <3>1. Onward
      BY <1>1, <1>2, <2>2, DecoderGoesOn
    <3>2. QED
      BY <1>1, <1>2, <1>4, <3>1, OnwardEntries, OnwardPaths, OnwardCount
  <2>3. CASE RemoveFiles
    BY <1>1, <2>3, RemovalKeeps
  <2>4. QED
    BY <2>1, <2>2, <2>3 DEF ReaderNext
<1>6. QED
  BY <1>2, <1>3, <1>4, <1>5 DEF ReaderInv

LEMMA ReaderInvInit ==
  ASSUME ReaderInit
  PROVE  ReaderInv
<1>1. /\ decodes = 0 /\ layout = <<>> /\ single = FALSE
      /\ rows = [f \in Families |-> 0] /\ finished = rows /\ directory = "none"
      /\ opened = [f \in Families |-> "none"]
      /\ pc = "idle" /\ held = <<>> /\ paths = NoPaths
      /\ counted = 0 /\ disturbed = FALSE /\ complete = FALSE /\ before = 0
  BY DEF ReaderInit
<1>2. DecoderTypes
  <2>1. layout \in Seq(Signals)
    BY <1>1
  <2>2. /\ rows \in [Families -> Nat] /\ finished \in [Families -> Nat]
        /\ opened \in [Families -> {"none", "blank", "headed"}]
    BY <1>1
  <2>3. QED
    BY <1>1, <2>1, <2>2 DEF DecoderTypes
<1>3. ReaderTypes
  <2>1. held \in Seq(HeldSegments)
    BY <1>1
  <2>2. QED
    BY <1>1, <2>1, NoPathsTyped DEF ReaderTypes, Stages
<1>4. WrittenInv
  <2> SUFFICES ASSUME NEW f \in Families PROVE Written(f)
    BY DEF WrittenInv
  <2>1. rows[f] = 0 /\ finished[f] = 0 /\ opened[f] = "none"
    BY <1>1
  <2>2. Total(f) \in Nat /\ Capacity(f) \in Nat
    BY <1>2, DecodeFacts
  <2>3. QED
    BY <2>1, <2>2, NothingWritten DEF Written
<1>5. EntriesInv /\ PathsInv /\ HeldInv /\ CountInv
  BY <1>1 DEF EntriesInv, PathsInv, HeldInv, CountInv, Listing
<1>6. QED
  BY <1>2, <1>3, <1>4, <1>5 DEF ReaderInv

-----------------------------------------------------------------------------
(* What is read.                                                             *)

(* The segments held are those the positions are looked for in: full for all *)
(* of them is F, the number of those with a capacity.                        *)
HeldFull(K, F, c, n) ==
  /\ K \in Nat \ {0} /\ F \in {K - 1, K} /\ Len(held) = K
  /\ \A i \in 1 .. K : /\ held[i].capacity = IF i <= F THEN c ELSE 0
                       /\ held[i].size = c /\ held[i].start = (i - 1) * c
                       /\ held[i].decode = n

LEMMA MinIsLeast ==
  ASSUME NEW T \in SUBSET Nat, NEW m \in T
  PROVE  Min(T) \in T /\ Min(T) \in Nat /\ Min(T) <= m
<1>1. \E n \in T : \A k \in T : n <= k
  BY Smallest
<1>2. Min(T) \in T /\ \A k \in T : Min(T) <= k
  BY <1>1 DEF Min
<1>3. QED
  BY <1>2

(* Segments before the last hold the same.                                   *)
LEMMA RemainsOf ==
  ASSUME NEW K, NEW F, NEW c \in Nat, NEW n, HeldFull(K, F, c, n),
         NEW pos \in Nat, NEW i \in 1 .. K
  PROVE  Remains(pos, i) = pos - (i - 1) * c
<1> DEFINE N == i - 1
           r == [j \in 1 .. i - 1 |-> held[j].capacity]
           g == [j \in 0 .. N |-> j * c]
<1>1. N \in Nat /\ \A j \in 1 .. N : held[j].capacity = c
  <2>1. K \in Nat /\ F \in {K - 1, K}
    BY DEF HeldFull
  <2>2. N \in Nat
    BY <2>1
  <2>3. ASSUME NEW j \in 1 .. N PROVE held[j].capacity = c
    <3>1. j \in 1 .. K /\ j <= F
      BY <2>1
    <3>2. QED
      BY <3>1 DEF HeldFull
  <2>4. QED
    BY <2>2, <2>3
<1>2. r = [j \in 1 .. N |-> r[j]] /\ \A j \in 1 .. N : r[j] \in Nat /\ r[j] = c
  BY <1>1
<1>3. /\ \A j \in 0 .. N : g[j] = j * c
      /\ g = [j \in 0 .. N |-> g[j]]
  OBVIOUS
<1>4. Remains(pos, i) = pos - SumOf(r)
  BY DEF Remains
<1> HIDE DEF N, r, g
<1>5. r \in Seq(Nat) /\ Len(r) = N
  <2> DEFINE V == Nat
  <2>1. \A j \in 1 .. N : r[j] \in V
    BY <1>2
  <2> HIDE DEF V
  <2>2. IsList(r, N, V)
    BY <1>2, <2>1 DEF IsList
  <2>3. r \in Seq(V) /\ Len(r) = N
    BY <1>1, <2>2, ListIsSeq
  <2>4. QED
    BY <2>3 DEF V
<1>6. SumsBy(g, r)
  <2>1. g \in [0 .. N -> Nat]
    <3>1. \A j \in 0 .. N : g[j] \in Nat
      BY <1>3
    <3>2. QED
      BY <1>3, <3>1
  <2>2. g[0] = 0
    <3>1. 0 \in 0 .. N /\ 0 * c = 0
      BY <1>1
    <3>2. QED
      BY <1>3, <3>1
  <2>3. ASSUME NEW j \in 1 .. N PROVE g[j] = g[j - 1] + r[j]
    <3>1. j \in 0 .. N /\ j - 1 \in 0 .. N /\ j \in Nat /\ j - 1 \in Nat
      BY <1>1
    <3>2. j * c = (j - 1) * c + c
      <4>1. (j - 1 + 1) * c = (j - 1) * c + c /\ j - 1 + 1 = j
        BY <3>1
      <4>2. QED
        BY <4>1
    <3>3. QED
      BY <1>2, <1>3, <3>1, <3>2
  <2>4. QED
    BY <1>5, <2>1, <2>2, <2>3 DEF SumsBy
<1>7. SumOf(r) = N * c
  <2>1. SumOf(r) = g[Len(r)]
    BY <1>5, <1>6, SumIs
  <2>2. N \in 0 .. N
    BY <1>1
  <2>3. QED
    BY <1>3, <1>5, <2>1, <2>2
<1>8. QED
  BY <1>4, <1>7 DEF N

(* A position within the full segments is read where it is, from its decode. *)
LEMMA ReadInside ==
  ASSUME NEW K, NEW F, NEW c \in Nat \ {0}, NEW n, HeldFull(K, F, c, n),
         NEW pos \in Nat, pos < F * c
  PROVE  ReadScalar(pos) = <<[decode |-> n, at |-> pos]>>
<1> DEFINE q == pos \div c
           T == Found(pos)
           i == Min(T)
<1>1. K \in Nat \ {0} /\ F \in {K - 1, K} /\ F \in Nat /\ Len(held) = K /\ DOMAIN held = 1 .. K
  <2>1. K \in Nat \ {0} /\ F \in {K - 1, K} /\ Len(held) = K
    BY DEF HeldFull
  <2>2. QED
    BY <2>1
<1>2. q \in Nat /\ q * c \in Nat /\ q * c <= pos /\ pos < q * c + c
  <2> DEFINE r == pos % c
  <2>1. q \in Nat /\ r \in 0 .. c - 1 /\ pos = c * q + r
    OBVIOUS
  <2> HIDE DEF q, r
  <2>2. c * q = q * c /\ q * c \in Nat
    BY <2>1
  <2>3. QED
    BY <2>1, <2>2
<1> HIDE DEF q
<1>3. q + 1 \in 1 .. K /\ q + 1 <= F
  <2>1. q < F
    <3>1. SUFFICES ASSUME F <= q PROVE FALSE
      BY <1>1, <1>2
    <3>2. F * c <= q * c
      <4>1. CASE F = q
        BY <4>1, <1>2
      <4>2. CASE F < q
        <5>1. F * c + c <= q * c /\ F * c \in Nat
          BY <1>1, <1>2, <4>2, MoreTimes
        <5>2. QED
          BY <1>2, <5>1
      <4>3. QED
        BY <1>1, <1>2, <3>1, <4>1, <4>2
    <3>3. QED
      BY <1>1, <1>2, <3>2
  <2>2. QED
    BY <1>1, <1>2, <2>1
<1>4. PICK k \in T : k = q + 1
  <2>1. PICK k \in 1 .. K : k = q + 1
    BY <1>3
  <2>2. k - 1 = q /\ k <= F
    BY <1>2, <1>3, <2>1
  <2>3. held[k].capacity = c
    BY <2>2 DEF HeldFull
  <2>4. Remains(pos, k) = pos - (k - 1) * c
    BY RemainsOf
  <2>5. pos - (k - 1) * c < c
    BY <1>2, <2>2
  <2>6. k \in T
    BY <1>1, <2>3, <2>4, <2>5 DEF Found, Holds
  <2>7. QED
    BY <2>1, <2>6
<1>5. T \in SUBSET Nat /\ T # {} /\ T = Found(pos)
  BY <1>1, <1>4 DEF Found
<1> HIDE DEF T
<1>6. i \in T /\ i \in Nat /\ i <= q + 1
  BY <1>4, <1>5, MinIsLeast
<1>7. i = Min(Found(pos))
  BY <1>5
<1> HIDE DEF i
<1>8. i \in 1 .. K /\ Remains(pos, i) = pos - (i - 1) * c /\ Remains(pos, i) < held[i].capacity
  <2>1. i \in 1 .. K /\ Remains(pos, i) < held[i].capacity
    BY <1>1, <1>5, <1>6 DEF Found, Holds
  <2>2. QED
    BY <2>1, RemainsOf
<1> DEFINE a == (i - 1) * c
<1>9. a \in Nat /\ a <= q * c
  <2>1. i - 1 \in Nat /\ (i - 1 = q \/ i - 1 < q)
    BY <1>2, <1>6, <1>8
  <2>2. a \in Nat
    BY <2>1
  <2>3. i - 1 < q => a + c <= q * c
    BY <1>2, <2>1, MoreTimes
  <2>4. QED
    BY <1>2, <2>1, <2>2, <2>3
<1>10. held[i].capacity \in {0, c} /\ held[i].size = c /\ held[i].start = a /\ held[i].decode = n
  BY <1>8 DEF HeldFull
<1> HIDE DEF a
<1>11. Remains(pos, i) = pos - a /\ pos - a < c /\ a + (pos - a) = pos
  <2>1. Remains(pos, i) = pos - a
    BY <1>8 DEF a
  <2>2. QED
    BY <1>2, <1>8, <1>9, <1>10, <2>1
<1>12. ~(Remains(pos, i) >= held[i].size) /\ held[i].start + Remains(pos, i) = pos
  BY <1>9, <1>10, <1>11
<1>13. QED
  BY <1>5, <1>7, <1>10, <1>12 DEF ReadScalar

(* One beyond them is not read.                                              *)
LEMMA ReadBeyond ==
  ASSUME NEW K, NEW F, NEW c \in Nat \ {0}, NEW n, HeldFull(K, F, c, n),
         NEW pos \in Nat, F * c <= pos
  PROVE  ReadScalar(pos) = <<>>
<1>1. K \in Nat \ {0} /\ F \in {K - 1, K} /\ F \in Nat /\ Len(held) = K /\ DOMAIN held = 1 .. K
  <2>1. K \in Nat \ {0} /\ F \in {K - 1, K} /\ Len(held) = K
    BY DEF HeldFull
  <2>2. QED
    BY <2>1
<1>2. ASSUME NEW i \in 1 .. K PROVE ~(Remains(pos, i) < held[i].capacity)
  <2> DEFINE a == (i - 1) * c
             b == F * c
  <2>1. Remains(pos, i) = pos - a
    BY RemainsOf
  <2>2. i - 1 \in Nat /\ i \in Nat /\ a \in Nat /\ b \in Nat
    BY <1>1
  <2>3. CASE i <= F
    <3>1. held[i].capacity = c
      BY <2>3 DEF HeldFull
    <3>2. a + c <= b
      BY <1>1, <2>2, <2>3, MoreTimes
    <3> HIDE DEF a, b
    <3>3. b <= pos
      BY DEF b
    <3>4. QED
      BY <2>1, <2>2, <3>1, <3>2, <3>3
  <2>4. CASE ~(i <= F)
    <3>1. held[i].capacity = 0 /\ i - 1 = F
      BY <1>1, <2>2, <2>4 DEF HeldFull
    <3>2. a <= pos
      BY <3>1
    <3> HIDE DEF a
    <3>3. QED
      BY <2>1, <2>2, <3>1, <3>2
  <2>5. QED
    BY <2>3, <2>4
<1>3. Found(pos) = {}
  BY <1>1, <1>2 DEF Found, Holds
<1>4. QED
  BY <1>3 DEF ReadScalar


(* So what is read of some positions is that part of them which lies before  *)
(* the end of the full segments.                                             *)
ReadEnd(F, c, t) == Least(F * c, t)

LEMMA ReadByPosition ==
  ASSUME NEW K, NEW F, NEW c \in Nat \ {0}, HeldFull(K, F, c, decodes),
         NEW t \in Nat, NEW wanted \in Seq(0 .. t - 1)
  PROVE  FlattenSeq([i \in DOMAIN wanted |-> ReadScalar(wanted[i])])
           = Select(Samples(wanted), [decode : {decodes}, at : 0 .. ReadEnd(F, c, t) - 1])
<1> DEFINE N == Len(wanted)
           p == ReadEnd(F, c, t)
           P == [decode : {decodes}, at : 0 .. p - 1]
           X == [decode : {decodes}, at : Nat]
           s == Samples(wanted)
           rs == [i \in DOMAIN wanted |-> ReadScalar(wanted[i])]
<1>1. /\ N \in Nat /\ DOMAIN wanted = 1 .. N
      /\ \A i \in 1 .. N : wanted[i] \in Nat /\ wanted[i] < t
  OBVIOUS
<1>2. F * c \in Nat
  <2>1. K \in Nat \ {0} /\ F \in {K - 1, K}
    BY DEF HeldFull
  <2>2. QED
    BY <2>1
<1>3. /\ s = [i \in 1 .. N |-> s[i]]
      /\ \A i \in 1 .. N : s[i] = [decode |-> decodes, at |-> wanted[i]]
  BY <1>1 DEF Samples
<1> HIDE DEF s
<1>4. s \in Seq(X) /\ Len(s) = N
  <2>1. \A i \in 1 .. N : s[i] \in X
    BY <1>1, <1>3
  <2> HIDE DEF N, X
  <2>2. IsList(s, N, X)
    BY <1>3, <2>1 DEF IsList
  <2>3. QED
    BY <1>1, <2>2, ListIsSeq
<1>5. ASSUME NEW i \in 1 .. N
      PROVE  ReadScalar(wanted[i]) = IF s[i] \in P THEN <<s[i]>> ELSE <<>>
  <2>1. PICK pos \in Nat : pos = wanted[i] /\ pos < t
    BY <1>1
  <2>2. s[i] = [decode |-> decodes, at |-> pos]
    BY <1>3, <2>1
  <2>3. CASE pos < F * c
    <3>1. ReadScalar(pos) = <<[decode |-> decodes, at |-> pos]>>
      BY <2>3, ReadInside
    <3>2. pos \in 0 .. p - 1
      <4> DEFINE a == F * c
      <4>1. a \in Nat /\ pos < a
        BY <1>2, <2>3
      <4> HIDE DEF a
      <4>2. pos \in 0 .. Least(a, t) - 1
        BY <2>1, <4>1 DEF Least
      <4>3. QED
        BY <4>2 DEF a, ReadEnd
    <3> HIDE DEF p
    <3>3. s[i] \in P
      BY <2>2, <3>2
    <3>4. QED
      BY <2>1, <2>2, <3>1, <3>3
  <2>4. CASE ~(pos < F * c)
    <3>1. F * c <= pos
      BY <1>2, <2>4
    <3>2. ReadScalar(pos) = <<>>
      BY <3>1, ReadBeyond
    <3>3. pos \notin 0 .. p - 1
      <4> DEFINE a == F * c
      <4>1. a \in Nat /\ a <= pos
        BY <1>2, <3>1
      <4> HIDE DEF a
      <4>2. pos \notin 0 .. Least(a, t) - 1
        BY <2>1, <4>1 DEF Least
      <4>3. QED
        BY <4>2 DEF a, ReadEnd
    <3> HIDE DEF p
    <3>4. s[i].at = pos /\ \A x \in P : x.at \in 0 .. p - 1
      BY <2>2
    <3>5. s[i] \notin P
      BY <3>3, <3>4
    <3>6. QED
      BY <2>1, <3>2, <3>5
  <2>5. QED
    BY <2>3, <2>4
<1>6. rs = Singles(s, P)
  <2> HIDE DEF P
  <2>1. rs = [i \in 1 .. N |-> IF s[i] \in P THEN <<s[i]>> ELSE <<>>]
    BY <1>1, <1>5
  <2> HIDE DEF rs, N
  <2>2. QED
    BY <1>4, <2>1 DEF Singles
<1> HIDE DEF rs, X, P
<1>7. FlattenSeq(rs) = Select(s, P)
  BY <1>4, <1>6, FlattenSingles
<1>8. QED
  BY <1>7 DEF rs, P, s

(* What is held at the end of the openings. *)
LEMMA HeldIsFull ==
  ASSUME ReaderInv, ~disturbed, pc = "opening", Len(held) = paths.count
  PROVE  LET f == query.family
         IN  /\ Capacity(f) \in Nat \ {0} /\ f \in Families
             /\ \E F \in Nat : /\ HeldFull(paths.count, F, Capacity(f), decodes)
                               /\ F <= finished[f] /\ F <= Segments(f)
                               /\ complete => F = paths.count
<1> DEFINE f == query.family
           K == paths.count
           c == Capacity(f)
           F == IF held[K].capacity = 0 THEN K - 1 ELSE K
<1>1. DecoderTypes /\ WrittenInv /\ EntriesInv /\ PathsInv /\ HeldInv
  BY DEF ReaderInv
<1>2. f \in Families
  BY <1>1, AskedFor DEF Listing
<1>3. K \in 1 .. Segments(f) /\ \A i \in 1 .. K : HeldRightly(i, f)
  BY <1>1 DEF PathsInv, HeldInv
<1>4. Segments(f) \in Nat /\ finished[f] \in Nat /\ c \in Nat \ {0}
  <2> HIDE DEF f
  <2>1. Segments(f) \in Nat /\ (Segments(f) # 0 => Capacity(f) # 0)
    BY <1>1, <1>2, SegmentsWritten DEF WrittenInv
  <2>2. Capacity(f) \in Nat /\ finished[f] \in Nat
    BY <1>1, <1>2, DecodeFacts
  <2>3. QED
    BY <1>3, <2>1, <2>2
<1> HIDE DEF c
<1>5. \A i \in 1 .. K : /\ held[i].decode = decodes /\ held[i].size = c
                        /\ held[i].start = (i - 1) * c /\ held[i].capacity \in {0, c}
                        /\ held[i].capacity # 0 => i <= finished[f]
                        /\ i < K \/ complete => held[i].capacity = c
  BY <1>3 DEF HeldRightly, c
<1> HIDE DEF f, K
<1>6. K \in Nat \ {0} /\ F \in {K - 1, K} /\ F \in Nat /\ F <= Segments(f) /\ K \in 1 .. K
  BY <1>3, <1>4
<1>7. ASSUME NEW i \in 1 .. K PROVE held[i].capacity = IF i <= F THEN c ELSE 0
  <2>1. CASE i = K
    BY <1>4, <1>5, <1>6, <2>1
  <2>2. CASE i < K
    <3>1. held[i].capacity = c /\ i <= F
      BY <1>5, <1>6, <2>2
    <3>2. QED
      BY <3>1
  <2>3. QED
    BY <1>6, <2>1, <2>2
<1>8. complete => F = K
  BY <1>4, <1>5, <1>6
<1>9. F <= finished[f]
  <2>1. CASE F = 0
    BY <1>4, <2>1
  <2>2. CASE F # 0
    <3>1. F \in 1 .. K
      BY <1>6, <2>2
    <3> HIDE DEF F
    <3>2. held[F].capacity = c
      BY <1>6, <1>7, <3>1
    <3>3. QED
      BY <1>4, <1>5, <3>1, <3>2
  <2>3. QED
    BY <2>1, <2>2
<1> HIDE DEF F
<1>10. HeldFull(K, F, c, decodes)
  BY <1>5, <1>6, <1>7 DEF HeldFull, K
<1>11. QED
  BY <1>2, <1>4, <1>6, <1>8, <1>9, <1>10 DEF K, f, c

-----------------------------------------------------------------------------
(* The list returned.                                                        *)

(* What SamplesAreTheirs says of a list.                                     *)
SamplesOf(d, wanted) == [i \in DOMAIN wanted |-> [decode |-> d, at |-> wanted[i]]]

ReadUpTo(r, es, f, d, n) ==
  \E p \in 0 .. n : r = Select(SamplesOf(d, Wanted(es, f)), [decode : {d}, at : 0 .. p - 1])

LEMMA SamplesTyped ==
  ASSUME NEW wanted \in Seq(Nat), NEW d
  PROVE  LET X == [decode : {d}, at : Nat]
             s == SamplesOf(d, wanted)
         IN  /\ s \in Seq(X) /\ Len(s) = Len(wanted)
             /\ \A i \in 1 .. Len(wanted) : s[i].at = wanted[i] /\ s[i].decode = d
<1> DEFINE N == Len(wanted)
           X == [decode : {d}, at : Nat]
           s == SamplesOf(d, wanted)
<1>1. N \in Nat /\ DOMAIN wanted = 1 .. N /\ \A i \in 1 .. N : wanted[i] \in Nat
  OBVIOUS
<1>2. /\ s = [i \in 1 .. N |-> s[i]]
      /\ \A i \in 1 .. N : s[i] = [decode |-> d, at |-> wanted[i]]
  BY <1>1 DEF SamplesOf
<1> HIDE DEF s, N
<1>3. \A i \in 1 .. N : s[i] \in X /\ s[i].at = wanted[i] /\ s[i].decode = d
  BY <1>1, <1>2
<1> HIDE DEF X
<1>4. IsList(s, N, X)
  BY <1>2, <1>3 DEF IsList
<1>5. s \in Seq(X) /\ Len(s) = N
  BY <1>1, <1>4, ListIsSeq
<1>6. QED
  BY <1>3, <1>5 DEF N, X, s

(* The empty list has been read up to row 0.                                 *)
LEMMA ReadNothing ==
  ASSUME NEW es, NEW f, Wanted(es, f) \in Seq(Nat), NEW d, NEW n \in Nat
  PROVE  ReadUpTo(<<>>, es, f, d, n)
<1> DEFINE w == Wanted(es, f)
           X == [decode : {d}, at : Nat]
           s == SamplesOf(d, w)
           P == [decode : {d}, at : 0 .. 0 - 1]
<1>1. s \in Seq(X)
  <2> HIDE DEF w
  <2>1. w \in Seq(Nat)
    BY DEF w
  <2>2. QED
    BY <2>1, SamplesTyped
<1>2. P = {}
  <2>1. 0 .. 0 - 1 = {}
    OBVIOUS
  <2>2. ASSUME NEW x \in P PROVE FALSE
    <3>1. x.at \in 0 .. 0 - 1
      OBVIOUS
    <3>2. QED
      BY <2>1, <3>1
  <2>3. QED
    BY <2>2
<1> HIDE DEF s, X, P
<1>3. Select(s, P) = <<>>
  BY <1>1, <1>2, SelectNothing
<1>4. 0 \in 0 .. n
  OBVIOUS
<1>5. QED
  BY <1>3, <1>4 DEF ReadUpTo, s, P, w

LEMMA EntriesWanted ==
  ASSUME ReaderInv, ~disturbed, Listing, entries # <<>>
  PROVE  LET f == query.family
         IN  /\ Wanted(entries, f) \in Seq(0 .. Total(f) - 1)
             /\ f \in Families /\ Total(f) \in Nat
<1> DEFINE f == query.family
<1>1. f \in Families /\ entries = Matched(query) /\ layout \in Seq(Signals) /\ Total(f) \in Nat
  BY AskedFor, DecodeFacts DEF ReaderInv, EntriesInv, DecoderTypes
<1>2. PICK X : Matched(query) \in Seq(X) /\ \A e \in X : EntryFits(e)
  BY <1>1, MatchedFits
<1> HIDE DEF f
<1>3. Wanted(entries, f) \in Seq(0 .. Total(f) - 1)
  BY <1>1, <1>2, WantedInside
<1>4. QED
  BY <1>1, <1>3 DEF f

LEMMA SequenceOfNat ==
  ASSUME NEW t \in Nat, NEW s \in Seq(0 .. t - 1)
  PROVE  s \in Seq(Nat)
<1>1. Len(s) \in Nat /\ s = [i \in 1 .. Len(s) |-> s[i]] /\ \A i \in 1 .. Len(s) : s[i] \in 0 .. t - 1
  OBVIOUS
<1>2. \A i \in 1 .. Len(s) : s[i] \in Nat
  BY <1>1
<1> DEFINE V == Nat
<1>3. IsList(s, Len(s), V)
  BY <1>1, <1>2 DEF IsList
<1> HIDE DEF V
<1>4. s \in Seq(V)
  BY <1>1, <1>3, ListIsSeq
<1>5. QED
  BY <1>4 DEF V

(* Reading the samples.                                                      *)
LEMMA ReadSamplesReads ==
  ASSUME ReaderInv, ~disturbed, ReadSamples
  PROVE  LET f == query.family
         IN  /\ ReadUpTo(result', entries, f, decodes, rows[f])
             /\ complete /\ Numberable(f) => Len(result') = Len(Wanted(entries, f))
<1> DEFINE f == query.family
           c == Capacity(f)
           K == paths.count
           t == Total(f)
           S == Segments(f)
           n == rows[f]
           wanted == Wanted(entries, f)
           s == SamplesOf(decodes, wanted)
<1>1. /\ pc = "opening" /\ Len(held) = K
      /\ result' = FlattenSeq([i \in DOMAIN wanted |-> ReadScalar(wanted[i])])
  BY DEF ReadSamples
<1>2. DecoderTypes /\ WrittenInv /\ EntriesInv /\ PathsInv
  BY DEF ReaderInv
<1>3. f \in Families /\ c \in Nat \ {0}
  BY <1>1, HeldIsFull
<1>4. PICK F \in Nat : /\ HeldFull(K, F, c, decodes) /\ F <= finished[f] /\ F <= S
                       /\ complete => F = K
  BY <1>1, HeldIsFull
<1>5. wanted \in Seq(0 .. t - 1) /\ t \in Nat
  BY <1>1, <1>2, EntriesWanted DEF Listing, EntriesInv
<1>6. /\ n \in Nat /\ finished[f] \in Nat /\ n <= t /\ S \in Nat /\ n <= S * c
      /\ Least(finished[f] * c, t) <= n
  BY <1>2, <1>3, DecodeFacts, SegmentsWritten DEF WrittenInv
<1> DEFINE p == ReadEnd(F, c, t)
           P == [decode : {decodes}, at : 0 .. p - 1]
<1>8. F * c \in Nat
  BY <1>3
<1>9. result' = Select(s, P)
  <2> HIDE DEF f, c, K, t, wanted
  <2>1. FlattenSeq([i \in DOMAIN wanted |-> ReadScalar(wanted[i])]) = Select(Samples(wanted), P)
    BY <1>3, <1>4, <1>5, ReadByPosition
  <2>2. Samples(wanted) = s
    BY DEF Samples, SamplesOf
  <2>3. QED
    BY <1>1, <2>1, <2>2
<1> HIDE DEF f, c, K, t, S, n, wanted, s
<1>10. p \in 0 .. n
  <2>1. p \in Nat
    BY <1>5, <1>8 DEF Least, ReadEnd
  <2> DEFINE a == F * c
             b == finished[f] * c
  <2>2. a <= b /\ b \in Nat
    <3> DEFINE k == finished[f]
    <3>1. k \in Nat /\ (F = k \/ F < k)
      BY <1>4, <1>6
    <3> HIDE DEF k
    <3>2. F < k => F * c + c <= k * c
      BY <1>3, <3>1, MoreTimes
    <3>3. k * c \in Nat
      BY <1>3, <3>1
    <3> DEFINE x == F * c
               y == k * c
    <3>4. x \in Nat /\ y \in Nat /\ (x = y \/ x + c <= y)
      BY <1>8, <3>1, <3>2, <3>3
    <3> HIDE DEF x, y
    <3>5. x <= y
      BY <1>3, <3>4
    <3>6. QED
      BY <3>3, <3>5 DEF x, y, k
  <2>3. Least(b, t) <= n /\ a \in Nat /\ p = Least(a, t)
    BY <1>6, <1>8 DEF ReadEnd
  <2> HIDE DEF a, b, p
  <2>4. QED
    BY <1>5, <1>6, <2>1, <2>2, <2>3 DEF Least
<1>11. ReadUpTo(result', entries, f, decodes, n)
  <2> HIDE DEF p
  <2>1. QED
    BY <1>9, <1>10 DEF ReadUpTo, s, wanted
<1>12. ASSUME complete, Numberable(f) PROVE Len(result') = Len(wanted)
  <2>1. F = S
    <3>1. F = K
      BY <1>4, <1>12
    <3>2. K = S
      BY <1>1, <1>2, <1>12 DEF PathsInv, K, S, f
    <3>3. QED
      BY <3>1, <3>2
  <2>2. n = t
    <3>1. Complete
      BY <1>1, <1>2, <1>12 DEF EntriesInv, Listing
    <3>2. QED
      BY <1>3, <3>1 DEF Complete, n, t
  <2>3. p = t
    <3> DEFINE a == F * c
    <3>1. a \in Nat /\ t <= a
      BY <1>6, <1>8, <2>1, <2>2
    <3> HIDE DEF a
    <3>2. Least(a, t) = t
      BY <1>5, <3>1 DEF Least
    <3>3. QED
      BY <3>2 DEF a, ReadEnd
  <2>4. wanted \in Seq(Nat) /\ \A i \in 1 .. Len(wanted) : wanted[i] \in 0 .. t - 1
    BY <1>5, SequenceOfNat
  <2> DEFINE X == [decode : {decodes}, at : Nat]
  <2>5. /\ s \in Seq(X) /\ Len(s) = Len(wanted)
        /\ \A i \in 1 .. Len(wanted) : s[i].at = wanted[i] /\ s[i].decode = decodes
    BY <2>4, SamplesTyped DEF s
  <2>6. ASSUME NEW i \in 1 .. Len(s) PROVE s[i] \in P
    <3> HIDE DEF p, X
    <3>1. i \in 1 .. Len(wanted) /\ i \in DOMAIN s
      BY <2>5
    <3>2. s[i] \in X
      BY <2>5, <3>1
    <3>3. s[i].at \in 0 .. p - 1 /\ s[i].decode = decodes
      BY <2>3, <2>4, <2>5, <3>1
    <3>4. QED
      BY <3>2, <3>3 DEF X
  <2> HIDE DEF X, P
  <2>7. Len(Select(s, P)) = Len(s)
    BY <2>5, <2>6, SelectAllLength
  <2>8. QED
    BY <1>9, <2>5, <2>7
<1>13. QED
  BY <1>11, <1>12 DEF f, n, wanted

-----------------------------------------------------------------------------
(* The list through every step.                                              *)

ResultInv == SamplesAreTheirs /\ WholeWhenComplete

LEMMA TheirsMeans ==
  /\ SamplesAreTheirs <=>
       (Answered => ReadUpTo(result, entries, query.family, decodes, rows[query.family]))
  /\ SamplesAreTheirs' <=>
       (Answered' => ReadUpTo(result', entries', query'.family, decodes', rows'[query'.family]))
<1>1. SamplesAreTheirs <=>
        (Answered => ReadUpTo(result, entries, query.family, decodes, rows[query.family]))
  BY DEF SamplesAreTheirs, ReadUpTo, Samples, SamplesOf
<1>2. Wanted(entries, query.family)' = Wanted(entries', query'.family)
  BY DEF Wanted, Positions
<1>3. SamplesAreTheirs' <=>
        (Answered' => ReadUpTo(result', entries', query'.family, decodes', rows'[query'.family]))
  BY <1>2 DEF SamplesAreTheirs, ReadUpTo, Samples, SamplesOf
<1>4. QED
  BY <1>1, <1>3

LEMMA EmptyWanted ==
  ASSUME NEW f
  PROVE  Wanted(<<>>, f) = <<>> /\ <<>> \in Seq(Nat) /\ Len(<<>>) = 0
<1>1. <<>> \in Seq(Nat) /\ Len(<<>>) = 0
  OBVIOUS
<1>2. QED
  BY <1>1, NothingWanted

LEMMA GetListAnswers ==
  ASSUME DecoderTypes, NEW q \in Queries, GetList(q)
  PROVE  ResultInv'
<1>1. /\ query' = q /\ entries' = Matched(q) /\ result' = <<>>
      /\ pc' = "returned" => entries' = <<>>
      /\ pc' = "raised" => directory = "blank"
      /\ complete' = Complete
  BY DEF GetList
<1>2. DecoderWaits
  BY DEF GetList, decoderVars, DecoderWaits, DecodeSame
<1>3. Matched(query)' = Matched(q)
  BY <1>1, <1>2, WaitingSame
<1>4. Answered' => entries' = <<>>
  BY <1>1 DEF Answered
<1>5. SamplesAreTheirs'
  <2>1. q.family \in Families /\ rows' = rows
    BY <1>2, ReaderAssumption DEF DecoderWaits, DecodeSame
  <2>2. rows'[q.family] \in Nat
    BY <2>1 DEF DecoderTypes
  <2>3. Wanted(<<>>, q.family) \in Seq(Nat)
    BY EmptyWanted
  <2>4. ReadUpTo(<<>>, <<>>, q.family, decodes', rows'[q.family])
    BY <2>2, <2>3, ReadNothing
  <2>5. QED
    BY <1>1, <1>4, <2>4, TheirsMeans
<1>6. WholeWhenComplete'
  <2>1. Wanted(Matched(query), query.family)' = Wanted(Matched(q), q.family)
    BY <1>1, <1>3 DEF Wanted, Positions
  <2>2. Answered' => Wanted(Matched(q), q.family) = <<>>
    BY <1>1, <1>4, EmptyWanted
  <2>3. complete' => pc' # "raised"
    BY <1>1 DEF Complete
  <2>4. QED
    BY <1>1, <2>1, <2>2, <2>3 DEF WholeWhenComplete, Answered
<1>7. QED
  BY <1>5, <1>6 DEF ResultInv

LEMMA FindSegmentsAnswers ==
  ASSUME ReaderInv, FindSegments
  PROVE  ResultInv'
<1> DEFINE f == query.family
           w == Wanted(entries, f)
<1>1. /\ pc = "finding" /\ query' = query /\ entries' = entries /\ result' = result
      /\ disturbed' = disturbed /\ complete' = complete /\ paths' = SegmentPaths(f)
      /\ pc' = IF paths'.count = 0 THEN "returned" ELSE "opening"
  BY DEF FindSegments, callVars
<1>2. DecoderWaits
  BY DEF FindSegments, decoderVars, DecoderWaits, DecodeSame
<1>3. /\ Numberable(f)' = Numberable(f) /\ Matched(query)' = Matched(query)
      /\ rows' = rows /\ decodes' = decodes
  <2>1. \A g : Numberable(g)' = Numberable(g)
    BY <1>2, WaitingSame
  <2>2. Numberable(query.family)' = Numberable(query.family)
    BY <1>1, <2>1
  <2>3. QED
    BY <1>1, <1>2, <2>2, WaitingSame DEF DecoderWaits, DecodeSame
<1>4. result' = <<>> /\ Listing /\ DecoderTypes /\ WrittenInv /\ EntriesInv
  BY <1>1 DEF ReaderInv, HeldInv, Listing
<1>5. ASSUME ~disturbed PROVE w \in Seq(0 .. Total(f) - 1) /\ f \in Families /\ Total(f) \in Nat
  BY <1>1, <1>4, <1>5, EntriesWanted DEF EntriesInv
<1>6. SamplesAreTheirs'
  <2>1. ASSUME ~disturbed PROVE ReadUpTo(<<>>, entries, f, decodes, rows[f])
    <3> HIDE DEF f
    <3>1. rows[f] \in Nat /\ w \in Seq(Nat)
      BY <1>4, <1>5, <2>1, SequenceOfNat DEF DecoderTypes
    <3>2. QED
      BY <3>1, ReadNothing
  <2>2. Answered' => ~disturbed
    BY <1>1 DEF Answered
  <2>3. QED
    BY <1>1, <1>3, <1>4, <2>1, <2>2, TheirsMeans
<1>7. WholeWhenComplete'
  <2>1. ASSUME Answered', complete', Numberable(f) PROVE Len(result') = Len(w)
    <3>1. ~disturbed /\ complete /\ paths'.count = 0
      BY <1>1, <2>1 DEF Answered
    <3>2. Complete /\ f \in Families
      BY <1>4, <1>5, <3>1 DEF EntriesInv
    <3>3. Segments(f) = 0
      <4> HIDE DEF f
      <4>1. /\ Segments(f) \in Nat /\ Numbered \in Nat
            /\ SegmentPaths(f).count = IF single THEN Segments(f) ELSE Least(Segments(f), Numbered)
        BY <1>4, <3>2, PathsTyped
      <4>2. QED
        BY <1>1, <2>1, <3>1, <4>1 DEF Numberable, Least
    <3>4. Total(f) = 0
      <4> HIDE DEF f
      <4>1. rows[f] = 0
        BY <1>4, <3>2, <3>3, SegmentsWritten DEF WrittenInv
      <4>2. QED
        BY <3>2, <4>1 DEF Complete
    <3>5. w \in Seq(0 .. 0 - 1)
      BY <1>5, <3>1, <3>4
    <3> HIDE DEF w
    <3>6. Len(w) = 0
      <4>1. 0 .. 0 - 1 = {} /\ Len(w) \in Nat /\ \A i \in 1 .. Len(w) : w[i] \in 0 .. 0 - 1
        BY <3>5
      <4>2. QED
        BY <4>1
    <3>7. Len(<<>>) = 0
      OBVIOUS
    <3>8. QED
      BY <1>4, <3>6, <3>7
  <2>2. complete => Matched(query) = entries \/ disturbed
    BY <1>4 DEF EntriesInv
  <2>3. Answered' => ~disturbed
    BY <1>1 DEF Answered
  <2>4. Matched(query)' = Matched(query)
    BY <1>3
  <2>5. Wanted(Matched(query), query.family)' = Wanted(Matched(query), f)
    BY <1>1, <2>4 DEF Wanted, Positions
  <2>6. Numberable(query.family)' = Numberable(f)
    BY <1>3
  <2>7. QED
    BY <1>1, <2>1, <2>2, <2>3, <2>5, <2>6 DEF WholeWhenComplete, Answered
<1>8. QED
  BY <1>6, <1>7 DEF ResultInv

LEMMA ReadSamplesAnswers ==
  ASSUME ReaderInv, ReadSamples
  PROVE  ResultInv'
<1> DEFINE f == query.family
           w == Wanted(entries, f)
<1>1. /\ pc = "opening" /\ pc' = "returned" /\ query' = query /\ entries' = entries
      /\ disturbed' = disturbed /\ complete' = complete
  BY DEF ReadSamples, callVars
<1>2. DecoderWaits
  BY DEF ReadSamples, decoderVars, DecoderWaits, DecodeSame
<1>3. /\ Numberable(f)' = Numberable(f) /\ Matched(query)' = Matched(query)
      /\ rows' = rows /\ decodes' = decodes
  <2>1. \A g : Numberable(g)' = Numberable(g)
    BY <1>2, WaitingSame
  <2>2. Numberable(query.family)' = Numberable(query.family)
    BY <1>1, <2>1
  <2>3. QED
    BY <1>1, <1>2, <2>2, WaitingSame DEF DecoderWaits, DecodeSame
<1>4. Answered' => ~disturbed
  BY <1>1 DEF Answered
<1>5. ~disturbed => /\ ReadUpTo(result', entries, f, decodes, rows[f])
                    /\ complete /\ Numberable(f) => Len(result') = Len(w)
  BY ReadSamplesReads
<1>6. SamplesAreTheirs'
  BY <1>1, <1>3, <1>4, <1>5, TheirsMeans
<1>7. complete => Matched(query) = entries \/ disturbed
  BY <1>1 DEF ReaderInv, EntriesInv, Listing
<1>8. WholeWhenComplete'
  <2>1. Wanted(Matched(query), query.family)' = Wanted(Matched(query), f)
    BY <1>1, <1>3 DEF Wanted, Positions
  <2>2. Numberable(query.family)' = Numberable(f)
    BY <1>3
  <2>3. QED
    BY <1>1, <1>4, <1>5, <1>7, <2>1, <2>2 DEF WholeWhenComplete, Answered
<1>9. QED
  BY <1>6, <1>8 DEF ResultInv

(* An answer given stays right while the decoder goes on.                    *)
LEMMA AnswerStays ==
  ASSUME ReaderInv, DecoderTypes', ResultInv, Onward
  PROVE  ResultInv'
<1> DEFINE f == query.family
<1>1. /\ pc' = pc /\ query' = query /\ entries' = entries /\ result' = result
      /\ disturbed' = disturbed /\ complete' = complete
  BY DEF Onward, readerVars, callVars
<1>2. CASE ~Answered
  BY <1>1, <1>2 DEF ResultInv, SamplesAreTheirs, WholeWhenComplete, Answered
<1>3. CASE Answered
  <2>1. Listing /\ ~disturbed /\ f \in Families /\ EntriesInv
    BY <1>3, AskedFor DEF Answered, Listing, ReaderInv
  <2>2. rows[f] \in Nat /\ rows'[f] \in Nat /\ rows[f] <= rows'[f]
    BY <2>1 DEF ReaderInv, DecoderTypes, Onward
  <2>3. ReadUpTo(result, entries, f, decodes, rows[f])
    BY <1>3, TheirsMeans DEF ResultInv
  <2>4. ReadUpTo(result, entries, f, decodes', rows'[f])
    <3>1. CASE entries # <<>>
      <4>1. decodes' = decodes
        BY <2>1, <3>1 DEF EntriesInv, Onward
      <4>2. \A p \in 0 .. rows[f] : p \in 0 .. rows'[f]
        BY <2>2
      <4>3. QED
        BY <2>3, <4>1, <4>2 DEF ReadUpTo
    <3>2. CASE entries = <<>>
      <4> HIDE DEF f
      <4>1. Wanted(entries, f) = <<>> /\ Wanted(entries, f) \in Seq(Nat)
        BY <3>2, EmptyWanted
      <4>2. result = <<>>
        <5>1. SamplesOf(decodes, <<>>) = <<>>
          BY DEF SamplesOf
        <5>2. PICK p : result = Select(SamplesOf(decodes, Wanted(entries, f)),
                                       [decode : {decodes}, at : 0 .. p - 1])
          BY <2>3 DEF ReadUpTo
        <5>3. QED
          BY <4>1, <5>1, <5>2, SelectEmpty
      <4>3. QED
        BY <2>2, <4>1, <4>2, ReadNothing
    <3>3. QED
      BY <3>1, <3>2
  <2>5. SamplesAreTheirs'
    BY <1>1, <2>4, TheirsMeans
  <2>6. WholeWhenComplete'
    <3>1. CASE ~complete
      BY <1>1, <3>1 DEF WholeWhenComplete
    <3>2. CASE complete
      <4>1. Complete
        BY <2>1, <3>2 DEF EntriesInv
      <4>2. DecoderWaits
        BY <4>1, CompleteStays DEF DecoderWaits
      <4>3. Matched(query)' = Matched(query) /\ \A g : Numberable(g)' = Numberable(g)
        BY <1>1, <4>2, WaitingSame
      <4>4. Numberable(query.family)' = Numberable(f)
        BY <1>1, <4>3
      <4>5. Wanted(Matched(query), query.family)' = Wanted(Matched(query), f)
        BY <1>1, <4>3 DEF Wanted, Positions
      <4>6. QED
        BY <1>1, <1>3, <4>4, <4>5 DEF ResultInv, WholeWhenComplete, Answered
    <3>3. QED
      BY <3>1, <3>2
  <2>7. QED
    BY <2>5, <2>6 DEF ResultInv
<1>4. QED
  BY <1>2, <1>3

LEMMA ResultStep ==
  ASSUME ReaderInv, ReaderInv', ResultInv, [ReaderNext]_allVars
  PROVE  ResultInv'
<1>1. CASE \E q \in Queries : GetList(q)
  BY <1>1, GetListAnswers DEF ReaderInv
<1>2. CASE FindSegments
  BY <1>2, FindSegmentsAnswers
<1>3. CASE ReadSamples
  BY <1>3, ReadSamplesAnswers
<1>4. CASE OpenSegment \/ Refresh \/ CountSegment \/ Refreshed \/ RemoveFiles
  <2>1. ~Answered' /\ (disturbed' \/ pc' # "returned")
    BY <1>4 DEF OpenSegment, Refresh, CountSegment, Refreshed, RemoveFiles, Answered
  <2>2. pc' = "raised" => disturbed' \/ ~complete'
    BY DEF ReaderInv, HeldInv
  <2>3. QED
    BY <2>1, <2>2 DEF ResultInv, SamplesAreTheirs, WholeWhenComplete
<1>5. CASE Decoder \/ UNCHANGED allVars
  <2>1. Onward
    BY <1>5, DecoderGoesOn DEF ReaderInv
  <2>2. QED
    BY <2>1, AnswerStays DEF ReaderInv
<1>6. QED
  BY <1>1, <1>2, <1>3, <1>4, <1>5 DEF ReaderNext, Reader

-----------------------------------------------------------------------------
(* The theorems.                                                             *)

(* The decoder's files, the entries and segments found, what is held and     *)
(* what is counted are as ReaderInv says in every reachable state.           *)
THEOREM ReaderInvariant == ReaderSpec => []ReaderInv
<1>1. ReaderInit => ReaderInv
  BY ReaderInvInit
<1>2. ReaderInv /\ [ReaderNext]_allVars => ReaderInv'
  BY ReaderStep
<1>3. QED
  BY <1>1, <1>2, PTL DEF ReaderSpec

LEMMA ResultInvariant == ReaderSpec => []ResultInv
<1>1. ReaderInit => ResultInv
  BY DEF ReaderInit, ResultInv, SamplesAreTheirs, WholeWhenComplete, Answered
<1>2. ReaderInv /\ ReaderInv' /\ ResultInv /\ [ReaderNext]_allVars => ResultInv'
  BY ResultStep
<1>3. QED
  BY <1>1, <1>2, ReaderInvariant, PTL DEF ReaderSpec

(* A list read with no file removed meanwhile holds, of the samples of the   *)
(* signals asked for, exactly those before some row that the decoder has     *)
(* passed, in order: whatever the decoder wrote between the directory, the   *)
(* openings and the reads (CANLogDecodedDiskFile's get_signal_..._list).     *)
THEOREM SamplesRight == ReaderSpec => []SamplesAreTheirs
<1>1. ResultInv => SamplesAreTheirs
  BY DEF ResultInv
<1>2. QED
  BY <1>1, ResultInvariant, PTL

(* It holds all of them if the decode was complete when it was called and    *)
(* its segments have three-digit numbers.                                    *)
THEOREM WholeLists == ReaderSpec => []WholeWhenComplete
<1>1. ResultInv => WholeWhenComplete
  BY DEF ResultInv
<1>2. QED
  BY <1>1, ResultInvariant, PTL

(* refresh_decode_mmap_runtime counts, segment by segment, a number of rows  *)
(* that the decoder had written at some moment of the refresh, as long as no  *)
(* file is removed.                                                          *)
THEOREM CountsAreWritten == ReaderSpec => []CountedAreWritten
<1>1. ReaderInv => CountedAreWritten
  BY DEF ReaderInv, CountInv, CountedAreWritten
<1>2. QED
  BY <1>1, ReaderInvariant, PTL

=============================================================================
