--------------------------- MODULE ParseJobsProofs ---------------------------
(***************************************************************************)
(* Theorems about ParseJobs, for any number of calls.                        *)
(***************************************************************************)
EXTENDS ParseJobs, SequenceTheorems, FiniteSetTheorems, TLAPS

-----------------------------------------------------------------------------
(* Types. *)

(* Posting one status appends its event. *)
LEMMA PostOne ==
  ASSUME NEW status \in Statuses, NEW j \in Jobs, posts \in Seq(Events),
         Post(<<status>>, j)
  PROVE  /\ posts' = Append(posts, Event(status, j))
         /\ Event(status, j) \in Events
         /\ posts' \in Seq(Events)
<1> DEFINE one == [n \in DOMAIN <<status>> |-> Event(<<status>>[n], j)]
<1>1. one = <<Event(status, j)>>
  OBVIOUS
<1>2. Event(status, j) \in Events
  BY DEF Event, Events
<1>3. posts' = posts \o <<Event(status, j)>>
  BY <1>1 DEF Post
<1>4. posts' = Append(posts, Event(status, j))
  BY <1>2, <1>3, AppendIsConcat
<1>5. QED
  BY <1>2, <1>4, AppendProperties

(* What a call or a callback posts when a future is done. *)
LEMMA PostOutcome ==
  ASSUME NEW j \in Jobs, posts \in Seq(Events), Post(Outcome(future[j]), j)
  PROVE  \E status \in Outcomes :
            /\ status = IF future[j] = "raised" THEN "FAILED" ELSE "DONE"
            /\ posts' = Append(posts, Event(status, j))
            /\ Event(status, j) \in Events
            /\ posts' \in Seq(Events)
<1>1. CASE future[j] = "raised"
  BY <1>1, PostOne DEF Outcome, Outcomes, Statuses
<1>2. CASE future[j] # "raised"
  BY <1>2, PostOne DEF Outcome, Outcomes, Statuses
<1>3. QED
  BY <1>1, <1>2

(* Every reachable state of the calls, the pool and the posts is well typed. *)
THEOREM Typing == Spec => []TypeOK
<1>1. Init => TypeOK
  <2> SUFFICES ASSUME Init PROVE TypeOK
    OBVIOUS
  <2>1. <<>> \in Seq(Jobs) /\ <<>> \in Seq(Events)
        /\ <<>> \in Seq([job : Jobs, result : Results])
    OBVIOUS
  <2>2. job \in 0 .. MaxJobs
    BY JobsAssumption DEF Init
  <2>3. QED
    BY <2>1, <2>2 DEF Init, TypeOK
<1>2. TypeOK /\ [Next]_vars => TypeOK'
  <2> SUFFICES ASSUME TypeOK, [Next]_vars PROVE TypeOK'
    OBVIOUS
  <2>1. CASE Start \/ Stop \/ WorkerDies \/ DetectDeath \/ UNCHANGED vars
    BY <2>1 DEF TypeOK, Start, Stop, WorkerDies, DetectDeath, vars, serviceVars,
                futureVars, workerVars, managerVars, eventVars
  <2>2. CASE ParseLogFile
    <3>1. job' = job + 1 /\ job' \in 0 .. MaxJobs /\ job' \in Jobs
      BY <2>2, JobsAssumption DEF ParseLogFile, TypeOK, Jobs
    <3>2. CASE broken
      <4>1. Post(<<"FAILED">>, job')
        BY <2>2, <3>2 DEF ParseLogFile, Refusal
      <4>2. "FAILED" \in Statuses /\ posts \in Seq(Events)
        BY DEF TypeOK, Statuses, Outcomes
      <4>3. posts' \in Seq(Events)
        BY <4>1, <4>2, <3>1, PostOne
      <4>4. QED
        BY <2>2, <3>1, <3>2, <4>3 DEF ParseLogFile, TypeOK, managerVars
    <3>3. CASE ~broken
      <4>1. waiting' \in Seq(Jobs)
        <5>1. waiting' = Append(waiting, job')
          BY <2>2, <3>3 DEF ParseLogFile
        <5>2. waiting \in Seq(Jobs)
          BY DEF TypeOK
        <5>3. QED
          BY <3>1, <5>1, <5>2, AppendProperties
      <4>2. future' \in [Jobs -> {"none", "pending", "refused"} \cup Results]
        BY <2>2, <3>3 DEF ParseLogFile, TypeOK
      <4>3. at' = "submitted" /\ posts' = posts
        BY <2>2, <3>3 DEF ParseLogFile
      <4>4. QED
        BY <2>2, <3>1, <4>1, <4>2, <4>3 DEF ParseLogFile, TypeOK, managerVars
    <3>4. QED
      BY <3>2, <3>3
  <2>3. CASE AddDoneCallback
    <3>1. job \in Jobs
      BY <2>3 DEF AddDoneCallback, TypeOK
    <3>2. posts' \in Seq(Events)
      <4>1. CASE IsDone(job)
        BY <2>3, <3>1, <4>1, PostOutcome DEF AddDoneCallback, TypeOK
      <4>2. CASE ~IsDone(job)
        BY <2>3, <4>2 DEF AddDoneCallback, TypeOK
      <4>3. QED  BY <4>1, <4>2
    <3>3. attached' \subseteq Jobs
      BY <2>3, <3>1 DEF AddDoneCallback, TypeOK
    <3>4. QED
      BY <2>3, <3>1, <3>2, <3>3 DEF AddDoneCallback, TypeOK, workerVars, managerVars
  <2>4. CASE PostStarted
    <3>1. job \in Jobs
      BY <2>4 DEF PostStarted, TypeOK
    <3>2. posts' \in Seq(Events)
      BY <2>4, <3>1, PostOne DEF PostStarted, TypeOK, Statuses
    <3>3. QED
      BY <2>4, <3>2 DEF PostStarted, TypeOK, futureVars, workerVars, managerVars
  <2>5. CASE WorkerTakes
    <3>1. Head(waiting) \in Jobs /\ Tail(waiting) \in Seq(Jobs)
      BY <2>5, HeadTailProperties DEF WorkerTakes, TypeOK
    <3>2. QED
      BY <2>5, <3>1 DEF WorkerTakes, TypeOK, serviceVars, futureVars, managerVars, eventVars
  <2>6. CASE \E j \in Jobs, result \in Results : WorkerEnds(j, result)
    BY <2>6 DEF WorkerEnds, TypeOK, serviceVars, futureVars, eventVars
  <2>7. CASE SetResult
    <3>1. Head(results) \in [job : Jobs, result : Results]
          /\ Tail(results) \in Seq([job : Jobs, result : Results])
      BY <2>7, HeadTailProperties DEF SetResult, TypeOK
    <3>2. QED
      BY <2>7, <3>1 DEF SetResult, TypeOK, serviceVars, workerVars, eventVars
  <2>8. CASE FailPending
    BY <2>8 DEF FailPending, TypeOK, Results, serviceVars, workerVars, eventVars
  <2>9. CASE RunCallbacks
    <3>1. posts' \in Seq(Events)
      <4>1. CASE calling \in attached
        BY <2>9, <4>1, PostOutcome DEF RunCallbacks, TypeOK
      <4>2. CASE calling \notin attached
        BY <2>9, <4>2 DEF RunCallbacks, TypeOK
      <4>3. QED  BY <4>1, <4>2
    <3>2. QED
      BY <2>9, <3>1 DEF RunCallbacks, TypeOK, serviceVars, workerVars
  <2>10. CASE Dispatch
    <3>1. Head(posts) \in Events /\ Tail(posts) \in Seq(Events)
      BY <2>10, HeadTailProperties DEF Dispatch, TypeOK
    <3>2. QED
      BY <2>10, <3>1 DEF Dispatch, TypeOK, serviceVars, futureVars, workerVars, managerVars
  <2>11. QED
    BY <2>1, <2>2, <2>3, <2>4, <2>5, <2>6, <2>7, <2>8, <2>9, <2>10
       DEF Next, Caller, Worker, Manager
<1>3. QED
  BY <1>1, <1>2, PTL DEF Spec

-----------------------------------------------------------------------------
(* The inductive invariant: what is told of a job is never more than its      *)
(* future says, and a callback still to run has told nothing yet.            *)

(* What was posted, delivered or not. *)
All == delivered \o posts

(* The calls: one future for each, and a callback that is attached or about  *)
(* to be is one of a call the pool accepted.                                 *)
CallInv ==
  /\ \A j \in Jobs : future[j] = "none" <=> job < j
  /\ at # "returned" => future[job] # "refused"
  /\ at = "submitted" => job \notin attached
  /\ \A j \in attached : future[j] \notin {"none", "refused"}

(* The manager breaks the pool when it has received all that was sent.       *)
ManagerInv ==
  /\ broken => ~alive /\ results = <<>>
  /\ calling # Idle => future[calling] \in Results

(* Until then a job is in one place on its way through the pool, and its     *)
(* future is pending.                                                        *)
QueueInv ==
  ~broken =>
    /\ \A n \in DOMAIN waiting : future[waiting[n]] = "pending"
    /\ \A m, n \in DOMAIN waiting : waiting[m] = waiting[n] => m = n
    /\ \A j \in working : /\ future[j] = "pending"
                          /\ \A n \in DOMAIN waiting : waiting[n] # j
    /\ \A n \in DOMAIN results :
          /\ future[results[n].job] = "pending"
          /\ results[n].job \notin working
          /\ \A m \in DOMAIN waiting : waiting[m] # results[n].job
    /\ \A m, n \in DOMAIN results : results[m].job = results[n].job => m = n

Rightful(e) ==
  /\ future[e.job] # "none"
  /\ e.status \in Outcomes => future[e.job] \in Results \cup {"refused"}
  /\ e.status = "DONE" => future[e.job] \in {"returned", "error code"}
  /\ future[e.job] = "refused" => e.status = "FAILED"

(* The end of the job of e is neither still to be told by a callback nor by   *)
(* the call that is attaching one.                                           *)
Settled(e) == e.status \in Outcomes => /\ e.job \notin attached
                                       /\ at = "submitted" => e.job # job

StaysSettled(e) == e.status \in Outcomes => /\ e.job \notin attached'
                                            /\ at' = "submitted" => e.job # job'

EventInv ==
  /\ \A n \in DOMAIN All : Rightful(All[n]) /\ Settled(All[n])
  /\ \A m, n \in DOMAIN All :
        All[m].job = All[n].job /\ {All[m].status, All[n].status} \subseteq Outcomes => m = n

(* The pool is a queue: the worker's one job is behind the results sent and  *)
(* before the jobs waiting, and every pending job is on its way.             *)
InPool(j) == \/ j \in working
             \/ \E n \in DOMAIN waiting : waiting[n] = j
             \/ \E n \in DOMAIN results : results[n].job = j

InLine ==
  ~broken =>
    /\ \A m, n \in DOMAIN waiting : m < n => waiting[m] < waiting[n]
    /\ \A i, j \in working : i = j
    /\ \A j \in working : \A n \in DOMAIN waiting : j < waiting[n]
    /\ \A n \in DOMAIN results :
          /\ \A m \in DOMAIN results : n < m => results[n].job < results[m].job
          /\ \A j \in working : results[n].job < j
          /\ \A m \in DOMAIN waiting : results[n].job < waiting[m]
    /\ \A j \in Jobs : future[j] = "pending" => InPool(j)

Returned == {"returned", "error code"}

(* A job that returned has none pending before it, and none that returned    *)
(* behind it while its callbacks are run.                                    *)
EarlierEnded ==
  /\ \A i, j \in Jobs : i < j /\ future[j] \in Returned => future[i] # "pending"
  /\ calling # Idle => \A j \in Jobs : calling < j => future[j] \notin Returned

Told(j) == \E n \in DOMAIN All : All[n].job = j /\ All[n].status \in Outcomes

(* Somebody is to tell the end of each job: a callback, or the call in hand. *)
EndsAreTold ==
  /\ \A j \in Jobs : future[j] = "pending" => j \in attached \/ (at = "submitted" /\ j = job)
  /\ \A j \in Jobs : future[j] \in Results \cup {"refused"} =>
        \/ Told(j)
        \/ calling = j /\ j \in attached
        \/ at = "submitted" /\ j = job

ToldBefore(n, i) == \E m \in DOMAIN All : m < n /\ All[m].job = i /\ All[m].status \in Outcomes

DoneFollows ==
  \A n \in DOMAIN All : All[n].status = "DONE" =>
     \A i \in 1 .. All[n].job - 1 : ToldBefore(n, i)

(* A future that has a result keeps it. *)
FutureGrows ==
  \A j \in Jobs :
     /\ future[j] \in Results \cup {"refused"} => future'[j] = future[j]
     /\ future[j] # "none" => future'[j] # "none"
     /\ future'[j] = "refused" => future[j] \in {"refused", "none"}

-----------------------------------------------------------------------------
(* What is told of a job stays true. *)
LEMMA StaysRightful ==
  ASSUME FutureGrows, NEW e \in Events, Rightful(e)
  PROVE  Rightful(e)'
  BY DEF FutureGrows, Rightful, Events, Results, Outcomes

(* Nothing is posted: the events stay as they are if they stay settled.      *)
LEMMA NoPost ==
  ASSUME TypeOK, EventInv, FutureGrows, All' = All,
         \A n \in DOMAIN All : StaysSettled(All[n])
  PROVE  EventInv'
<1>1. All' = All /\ All \in Seq(Events)
  BY ConcatProperties DEF All, TypeOK
<1>2. \A n \in DOMAIN All : All[n] \in Events
  BY <1>1
<1>3. \A n \in DOMAIN All : Rightful(All[n])'
  BY <1>1, <1>2, StaysRightful DEF EventInv
<1>4. QED
  BY <1>1, <1>3 DEF EventInv, Settled, StaysSettled

(* What is posted comes behind all that was. *)
LEMMA AppendsAll ==
  ASSUME TypeOK, NEW e \in Events, posts' = Append(posts, e), delivered' = delivered
  PROVE  /\ DOMAIN All = 1 .. Len(All) /\ Len(All) \in Nat
         /\ DOMAIN All' = 1 .. Len(All) + 1
         /\ \A n \in DOMAIN All : All'[n] = All[n] /\ All[n] \in Events
         /\ All'[Len(All) + 1] = e
<1>1. All \in Seq(Events) /\ posts \in Seq(Events) /\ delivered \in Seq(Events)
  BY ConcatProperties DEF All, TypeOK
<1>2. posts' = posts \o <<e>> /\ <<e>> \in Seq(Events)
  BY <1>1, AppendIsConcat
<1>3. All' = delivered \o (posts \o <<e>>)
  BY <1>2 DEF All
<1>4. All' = All \o <<e>>
  BY <1>1, <1>2, <1>3, ConcatAssociative DEF All
<1>5. All' = Append(All, e)
  BY <1>1, <1>4, AppendIsConcat
<1>6. QED
  BY <1>1, <1>5, AppendProperties, LenProperties

(* One event is posted: of a job whose end was not told, if it tells one.     *)
LEMMA OnePost ==
  ASSUME TypeOK, EventInv, FutureGrows, NEW e \in Events,
         posts' = Append(posts, e), delivered' = delivered,
         \A n \in DOMAIN All : StaysSettled(All[n]),
         Rightful(e)', StaysSettled(e),
         e.status \in Outcomes =>
           \A n \in DOMAIN All : All[n].status \in Outcomes => All[n].job # e.job
  PROVE  EventInv'
<1>1. /\ DOMAIN All = 1 .. Len(All) /\ Len(All) \in Nat
      /\ DOMAIN All' = 1 .. Len(All) + 1
      /\ \A n \in DOMAIN All : All'[n] = All[n]
      /\ All'[Len(All) + 1] = e
  BY AppendsAll
<1>2. \A n \in DOMAIN All : All[n] \in Events
  BY AppendsAll
<1>3. \A n \in DOMAIN All : Rightful(All[n])'
  <2> SUFFICES ASSUME NEW n \in DOMAIN All PROVE Rightful(All[n])'
    OBVIOUS
  <2>1. All[n] \in Events /\ Rightful(All[n]) /\ All'[n] = All[n]
    BY <1>1, <1>2 DEF EventInv
  <2>2. QED
    BY <2>1, StaysRightful DEF Rightful
<1>4. \A n \in DOMAIN All' : Rightful(All[n])' /\ Settled(All[n])'
  <2> SUFFICES ASSUME NEW n \in DOMAIN All' PROVE Rightful(All[n])' /\ Settled(All[n])'
    OBVIOUS
  <2>1. CASE n \in DOMAIN All
    BY <1>1, <1>3, <2>1 DEF Settled, StaysSettled
  <2>2. CASE n = Len(All) + 1
    BY <1>1, <2>2 DEF Settled, StaysSettled, Rightful
  <2>3. QED
    BY <1>1, <2>1, <2>2
<1>5. \A m, n \in DOMAIN All' :
        All'[m].job = All'[n].job /\ {All'[m].status, All'[n].status} \subseteq Outcomes
          => m = n
  <2> SUFFICES ASSUME NEW m \in DOMAIN All', NEW n \in DOMAIN All',
                      All'[m].job = All'[n].job,
                      All'[m].status \in Outcomes, All'[n].status \in Outcomes
               PROVE  m = n
    OBVIOUS
  <2>1. CASE m \in DOMAIN All /\ n \in DOMAIN All
    BY <1>1, <2>1 DEF EventInv
  <2>2. CASE m \in DOMAIN All /\ n = Len(All) + 1
    BY <1>1, <2>2
  <2>3. CASE m = Len(All) + 1 /\ n \in DOMAIN All
    BY <1>1, <2>3
  <2>4. QED
    BY <1>1, <2>1, <2>2, <2>3
<1>6. QED
  BY <1>4, <1>5 DEF EventInv

-----------------------------------------------------------------------------
(* What each step does to the calls, the manager and the queues. *)

FlowInv == CallInv /\ ManagerInv /\ QueueInv

LEMMA SentJobs ==
  ASSUME TypeOK, NEW n \in DOMAIN results
  PROVE  results[n].job \in Jobs
<1> DEFINE Sent == [job : Jobs, result : Results]
<1>1. results \in Seq(Sent)
  BY DEF TypeOK
<1>2. results[n] \in Sent
  <2> HIDE DEF Sent
  <2>1. QED
    BY <1>1
<1>3. QED
  BY <1>2

(* A new call: the pool takes it behind those waiting, or refuses it.        *)
LEMMA CallFlows ==
  ASSUME TypeOK, FlowInv, ParseLogFile
  PROVE  FlowInv' /\ FutureGrows
<1>1. /\ job' = job + 1 /\ job \in Nat /\ job' \in Jobs /\ future[job'] = "none"
      /\ job' \notin attached
  BY JobsAssumption DEF ParseLogFile, TypeOK, Jobs, FlowInv, CallInv
<1>2. calling # Idle => calling # job'
  BY <1>1 DEF FlowInv, ManagerInv, Results
<1>3. CASE broken
  <2>1. future' = [future EXCEPT ![job'] = "refused"] /\ at' = at /\ at = "returned"
        /\ UNCHANGED <<attached, alive, results, calling, broken>>
    BY <1>3 DEF ParseLogFile, managerVars
  <2>2. FutureGrows
    BY <1>1, <2>1 DEF FutureGrows, TypeOK, Results
  <2>3. CallInv'
    BY <1>1, <2>1 DEF FlowInv, CallInv, TypeOK, Jobs
  <2>4. ManagerInv'
    BY <1>1, <1>2, <2>1 DEF FlowInv, ManagerInv, TypeOK
  <2>5. QueueInv'
    BY <1>3, <2>1 DEF QueueInv
  <2>6. QED
    BY <2>2, <2>3, <2>4, <2>5 DEF FlowInv
<1>4. CASE ~broken
  <2>1. future' = [future EXCEPT ![job'] = "pending"] /\ at' = "submitted"
        /\ waiting' = Append(waiting, job')
        /\ UNCHANGED <<attached, working, alive, results, calling, broken>>
    BY <1>4 DEF ParseLogFile, managerVars
  <2>2. FutureGrows
    BY <1>1, <2>1 DEF FutureGrows, TypeOK, Results
  <2>3. CallInv'
    BY <1>1, <2>1 DEF FlowInv, CallInv, TypeOK, Jobs
  <2>4. ManagerInv'
    BY <1>1, <1>2, <2>1 DEF FlowInv, ManagerInv, TypeOK
  <2>5. QueueInv'
    <3>1. waiting \in Seq(Jobs) /\ results \in Seq([job : Jobs, result : Results])
          /\ working \subseteq Jobs /\ future \in [Jobs -> {"none", "pending", "refused"} \cup Results]
      BY DEF TypeOK
    <3>2. /\ DOMAIN waiting = 1 .. Len(waiting) /\ Len(waiting) \in Nat
          /\ DOMAIN waiting' = 1 .. Len(waiting) + 1
          /\ \A n \in DOMAIN waiting : waiting'[n] = waiting[n] /\ waiting[n] \in Jobs
          /\ waiting'[Len(waiting) + 1] = job'
      BY <1>1, <2>1, <3>1, AppendProperties, LenProperties
    <3>3. \A j \in Jobs : future[j] = "pending" => future'[j] = "pending" /\ j # job'
      BY <1>1, <2>1, <3>1
    <3>4. \A n \in DOMAIN results : results[n].job \in Jobs
      BY SentJobs
    <3>5. QueueInv
      BY DEF FlowInv
    <3>6. \A n \in DOMAIN waiting' : future'[waiting'[n]] = "pending"
      BY <1>1, <1>4, <2>1, <3>1, <3>2, <3>3, <3>5 DEF QueueInv
    <3>7. \A m, n \in DOMAIN waiting' : waiting'[m] = waiting'[n] => m = n
      BY <1>4, <3>2, <3>3, <3>5 DEF QueueInv
    <3>8. \A j \in working : /\ future'[j] = "pending"
                             /\ \A n \in DOMAIN waiting' : waiting'[n] # j
      BY <1>4, <3>1, <3>2, <3>3, <3>5 DEF QueueInv
    <3>9. \A n \in DOMAIN results :
             /\ future'[results[n].job] = "pending"
             /\ \A m \in DOMAIN waiting' : waiting'[m] # results[n].job
      BY <1>4, <3>2, <3>3, <3>4, <3>5 DEF QueueInv
    <3>10. QED
      BY <1>4, <2>1, <3>5, <3>6, <3>7, <3>8, <3>9 DEF QueueInv
  <2>6. QED
    BY <2>2, <2>3, <2>4, <2>5 DEF FlowInv
<1>5. QED
  BY <1>3, <1>4

(* The worker takes the oldest job waiting. *)
LEMMA WorkerTakesFlows ==
  ASSUME TypeOK, FlowInv, WorkerTakes
  PROVE  FlowInv' /\ FutureGrows
<1>1. /\ waiting # <<>> /\ waiting \in Seq(Jobs) /\ Tail(waiting) \in Seq(Jobs)
      /\ working' = working \cup {Head(waiting)} /\ waiting' = Tail(waiting)
      /\ UNCHANGED <<service, job, at, future, attached, alive, results, calling, broken>>
  BY HeadTailProperties DEF WorkerTakes, TypeOK, serviceVars, futureVars, managerVars
<1>2. /\ DOMAIN waiting = 1 .. Len(waiting) /\ Len(waiting) \in Nat /\ Len(waiting) >= 1
      /\ DOMAIN waiting' = 1 .. Len(waiting) - 1
      /\ Head(waiting) = waiting[1]
      /\ \A n \in DOMAIN waiting' : n + 1 \in DOMAIN waiting /\ waiting'[n] = waiting[n + 1]
  BY <1>1, HeadTailProperties, LenProperties, EmptySeq
<1>3. FutureGrows
  BY <1>1 DEF FutureGrows
<1>4. CallInv' /\ ManagerInv'
  BY <1>1 DEF FlowInv, CallInv, ManagerInv
<1>5. QueueInv'
  <2> SUFFICES ASSUME ~broken PROVE QueueInv'
    BY <1>1 DEF QueueInv
  <2>1. \A n \in DOMAIN waiting' : n # 0 /\ n + 1 # 1
    BY <1>2
  <2>2. \A n \in DOMAIN waiting' : future'[waiting'[n]] = "pending"
    BY <1>1, <1>2 DEF FlowInv, QueueInv
  <2>3. \A m, n \in DOMAIN waiting' : waiting'[m] = waiting'[n] => m = n
    BY <1>2 DEF FlowInv, QueueInv
  <2>4. \A n \in DOMAIN waiting' : waiting'[n] # Head(waiting)
    BY <1>2, <2>1 DEF FlowInv, QueueInv
  <2>5. \A j \in working' : /\ future'[j] = "pending"
                            /\ \A n \in DOMAIN waiting' : waiting'[n] # j
    BY <1>1, <1>2, <2>4 DEF FlowInv, QueueInv
  <2>6. \A n \in DOMAIN results :
           /\ results[n].job \notin working'
           /\ \A m \in DOMAIN waiting' : waiting'[m] # results[n].job
    BY <1>1, <1>2 DEF FlowInv, QueueInv
  <2>7. QED
    BY <1>1, <2>2, <2>3, <2>5, <2>6 DEF FlowInv, QueueInv
<1>6. QED
  BY <1>3, <1>4, <1>5 DEF FlowInv

(* The worker sends the result of a job it was running. *)
LEMMA WorkerEndsFlows ==
  ASSUME TypeOK, FlowInv, NEW j \in Jobs, NEW result \in Results, WorkerEnds(j, result)
  PROVE  FlowInv' /\ FutureGrows
<1> DEFINE sent == [job |-> j, result |-> result]
<1>1. /\ alive /\ j \in working /\ working' = working \ {j}
      /\ results' = Append(results, sent) /\ sent \in [job : Jobs, result : Results]
      /\ UNCHANGED <<service, job, at, future, attached, waiting, alive, calling, broken>>
  BY DEF WorkerEnds, serviceVars, futureVars
<1>2. /\ DOMAIN results = 1 .. Len(results) /\ Len(results) \in Nat
      /\ DOMAIN results' = 1 .. Len(results) + 1
      /\ \A n \in DOMAIN results : results'[n] = results[n]
      /\ results'[Len(results) + 1] = sent
  BY <1>1, AppendProperties, LenProperties DEF TypeOK
<1>3. FutureGrows
  BY <1>1 DEF FutureGrows
<1>4. ~broken
  BY <1>1 DEF FlowInv, ManagerInv
<1>5. CallInv' /\ ManagerInv'
  BY <1>1, <1>4 DEF FlowInv, CallInv, ManagerInv
<1>6. QueueInv'
  <2>1. \A n \in DOMAIN results' :
           /\ future'[results'[n].job] = "pending"
           /\ results'[n].job \notin working'
           /\ \A m \in DOMAIN waiting' : waiting'[m] # results'[n].job
    <3> SUFFICES ASSUME NEW n \in DOMAIN results'
                 PROVE  /\ future'[results'[n].job] = "pending"
                        /\ results'[n].job \notin working'
                        /\ \A m \in DOMAIN waiting' : waiting'[m] # results'[n].job
      OBVIOUS
    <3>1. CASE n \in DOMAIN results
      BY <1>1, <1>2, <1>4, <3>1 DEF FlowInv, QueueInv
    <3>2. CASE n = Len(results) + 1
      <4>1. results'[n].job = j
        BY <1>2, <3>2
      <4>2. QED
        BY <1>1, <1>4, <4>1 DEF FlowInv, QueueInv
    <3>3. QED
      BY <1>2, <3>1, <3>2
  <2>2. \A n \in DOMAIN results : results[n].job # j
    BY <1>1, <1>4 DEF FlowInv, QueueInv
  <2>3. \A m, n \in DOMAIN results' : results'[m].job = results'[n].job => m = n
    <3> SUFFICES ASSUME NEW m \in DOMAIN results', NEW n \in DOMAIN results',
                        results'[m].job = results'[n].job
                 PROVE  m = n
      OBVIOUS
    <3>1. results'[Len(results) + 1].job = j
      BY <1>2
    <3>2. CASE m \in DOMAIN results /\ n \in DOMAIN results
      BY <1>2, <1>4, <3>2 DEF FlowInv, QueueInv
    <3>3. CASE m \notin DOMAIN results \/ n \notin DOMAIN results
      BY <1>2, <2>2, <3>1, <3>3
    <3>4. QED
      BY <3>2, <3>3
  <2>4. \A i \in working' : /\ future'[i] = "pending"
                            /\ \A n \in DOMAIN waiting' : waiting'[n] # i
    BY <1>1, <1>4 DEF FlowInv, QueueInv
  <2>5. QED
    BY <1>1, <1>4, <2>1, <2>3, <2>4 DEF FlowInv, QueueInv
<1>7. QED
  BY <1>3, <1>5, <1>6 DEF FlowInv

(* The manager gives a future the result that was sent for it. *)
LEMMA SetResultFlows ==
  ASSUME TypeOK, FlowInv, SetResult
  PROVE  FlowInv' /\ FutureGrows
<1> DEFINE sent == Head(results)
<1>1. /\ results # <<>> /\ results \in Seq([job : Jobs, result : Results])
      /\ sent \in [job : Jobs, result : Results]
      /\ future' = [future EXCEPT ![sent.job] = sent.result]
      /\ calling' = sent.job /\ results' = Tail(results)
      /\ UNCHANGED <<service, job, at, attached, waiting, working, alive, broken>>
  BY HeadTailProperties DEF SetResult, TypeOK, serviceVars, workerVars
<1>2. /\ DOMAIN results = 1 .. Len(results) /\ Len(results) \in Nat /\ Len(results) >= 1
      /\ DOMAIN results' = 1 .. Len(results) - 1
      /\ sent = results[1] /\ 1 \in DOMAIN results
      /\ \A n \in DOMAIN results' : n + 1 \in DOMAIN results /\ results'[n] = results[n + 1]
  BY <1>1, HeadTailProperties, LenProperties, EmptySeq
<1>3. ~broken
  BY <1>1 DEF FlowInv, ManagerInv
<1>4. /\ future[sent.job] = "pending" /\ sent.job \in Jobs /\ sent.result \in Results
      /\ sent.job \notin working
      /\ \A m \in DOMAIN waiting : waiting[m] # sent.job
  BY <1>1, <1>2, <1>3 DEF FlowInv, QueueInv
<1>5. /\ future'[sent.job] = sent.result
      /\ \A j \in Jobs : j # sent.job => future'[j] = future[j]
  BY <1>1, <1>4 DEF TypeOK
<1>6. FutureGrows
  BY <1>4, <1>5 DEF FutureGrows, Results
<1>7. CallInv'
  BY <1>1, <1>4, <1>5 DEF FlowInv, CallInv, TypeOK, Results
<1>8. ManagerInv'
  BY <1>1, <1>3, <1>4, <1>5 DEF ManagerInv
<1>9. QueueInv'
  <2>1. \A n \in DOMAIN waiting : waiting[n] \in Jobs
    BY DEF TypeOK
  <2>2. \A n \in DOMAIN results : results[n].job \in Jobs
    BY SentJobs
  <2>3. \A n \in DOMAIN waiting' : future'[waiting'[n]] = "pending"
    BY <1>1, <1>3, <1>4, <1>5, <2>1 DEF FlowInv, QueueInv
  <2>4. \A j \in working' : /\ future'[j] = "pending"
                            /\ \A n \in DOMAIN waiting' : waiting'[n] # j
    BY <1>1, <1>3, <1>4, <1>5 DEF FlowInv, QueueInv, TypeOK
  <2>5. \A n \in DOMAIN results' : results'[n].job \in Jobs /\ results'[n].job # sent.job
    BY <1>2, <1>3, <2>2 DEF FlowInv, QueueInv
  <2>6. \A n \in DOMAIN results' :
           /\ future'[results'[n].job] = "pending"
           /\ results'[n].job \notin working'
           /\ \A m \in DOMAIN waiting' : waiting'[m] # results'[n].job
    BY <1>1, <1>2, <1>3, <1>5, <2>5 DEF FlowInv, QueueInv
  <2>7. \A m, n \in DOMAIN results' : results'[m].job = results'[n].job => m = n
    BY <1>2, <1>3 DEF FlowInv, QueueInv
  <2>8. QED
    BY <1>1, <1>3, <2>3, <2>4, <2>6, <2>7 DEF FlowInv, QueueInv
<1>10. QED
  BY <1>6, <1>7, <1>8, <1>9 DEF FlowInv

(* A broken pool fails the oldest future left. *)
LEMMA FailPendingFlows ==
  ASSUME TypeOK, FlowInv, FailPending
  PROVE  FlowInv' /\ FutureGrows
<1>1. PICK j \in Jobs : /\ future[j] = "pending" /\ calling' = j /\ broken
                        /\ future' = [future EXCEPT ![j] = "raised"]
  BY DEF FailPending
<1>2. UNCHANGED <<service, job, at, attached, waiting, working, alive, results, broken>>
  BY DEF FailPending, serviceVars, workerVars
<1>3. future'[j] = "raised" /\ \A i \in Jobs : i # j => future'[i] = future[i]
  BY <1>1 DEF TypeOK
<1>4. FutureGrows
  BY <1>1, <1>3 DEF FutureGrows, Results
<1>5. CallInv'
  BY <1>1, <1>2, <1>3 DEF FlowInv, CallInv, TypeOK
<1>6. ManagerInv'
  BY <1>1, <1>2, <1>3 DEF FlowInv, ManagerInv, Results
<1>7. QueueInv'
  BY <1>1, <1>2 DEF QueueInv
<1>8. QED
  BY <1>4, <1>5, <1>6, <1>7 DEF FlowInv

(* The steps that only attach, call back, notice a death or deliver.         *)
LEMMA OthersFlow ==
  ASSUME TypeOK, FlowInv,
         \/ Start \/ Stop \/ AddDoneCallback \/ PostStarted \/ WorkerDies
         \/ DetectDeath \/ RunCallbacks \/ Dispatch
  PROVE  FlowInv' /\ FutureGrows
<1>1. CASE Start \/ Stop \/ Dispatch \/ WorkerDies
  BY <1>1 DEF FlowInv, CallInv, ManagerInv, QueueInv, FutureGrows, Start, Stop, Dispatch,
              WorkerDies, serviceVars, futureVars, workerVars, managerVars
<1>2. CASE AddDoneCallback
  <2>1. /\ UNCHANGED <<job, future, waiting, working, alive, results, calling, broken>>
        /\ at = "submitted" /\ at' = "attached"
        /\ attached' \subseteq attached \cup {job}
    BY <1>2 DEF AddDoneCallback, workerVars, managerVars
  <2>2. job \in Jobs /\ future[job] \notin {"none", "refused"}
    BY <2>1 DEF FlowInv, CallInv, TypeOK, Jobs
  <2>3. QED
    BY <2>1, <2>2 DEF FlowInv, CallInv, ManagerInv, QueueInv, FutureGrows
<1>3. CASE PostStarted
  BY <1>3 DEF FlowInv, CallInv, ManagerInv, QueueInv, FutureGrows, PostStarted,
              futureVars, workerVars, managerVars
<1>4. CASE DetectDeath
  BY <1>4 DEF FlowInv, CallInv, ManagerInv, QueueInv, FutureGrows, DetectDeath,
              serviceVars, futureVars, workerVars
<1>5. CASE RunCallbacks
  <2>1. /\ UNCHANGED <<job, at, future, waiting, working, alive, results, broken>>
        /\ calling' = Idle /\ attached' \subseteq attached
    BY <1>5 DEF RunCallbacks, serviceVars, workerVars
  <2>2. QED
    BY <2>1 DEF FlowInv, CallInv, ManagerInv, QueueInv, FutureGrows
<1>6. QED
  BY <1>1, <1>2, <1>3, <1>4, <1>5

LEMMA StepFlows ==
  ASSUME TypeOK, FlowInv, Next
  PROVE  FlowInv' /\ FutureGrows
  BY CallFlows, WorkerTakesFlows, WorkerEndsFlows, SetResultFlows, FailPendingFlows,
     OthersFlow DEF Next, Caller, Worker, Manager

-----------------------------------------------------------------------------
(* What each step does to the events. *)

LEMMA EventsTyped ==
  ASSUME TypeOK, NEW n \in DOMAIN All
  PROVE  All[n] \in Events /\ All[n].job \in Jobs
<1>1. All \in Seq(Events)
  BY ConcatProperties DEF All, TypeOK
<1>2. All[n] \in Events
  BY <1>1
<1>3. QED
  BY <1>2 DEF Events

(* Delivering moves an event from what is posted to what is delivered.       *)
LEMMA DispatchKeepsAll ==
  ASSUME TypeOK, Dispatch
  PROVE  All' = All
<1>1. posts \in Seq(Events) /\ delivered \in Seq(Events) /\ posts # <<>>
  BY DEF TypeOK, Dispatch
<1>2. Head(posts) \in Events /\ Tail(posts) \in Seq(Events)
      /\ posts = <<Head(posts)>> \o Tail(posts)
  BY <1>1, HeadTailProperties
<1>3. delivered' = delivered \o <<Head(posts)>> /\ posts' = Tail(posts)
  BY <1>1, <1>2, AppendIsConcat DEF Dispatch
<1>4. <<Head(posts)>> \in Seq(Events)
  BY <1>2
<1>5. (delivered \o <<Head(posts)>>) \o Tail(posts)
        = delivered \o (<<Head(posts)>> \o Tail(posts))
  BY <1>1, <1>2, <1>4, ConcatAssociative
<1>6. QED
  BY <1>2, <1>3, <1>5 DEF All

(* A refused call tells of a job of which nothing was told; an accepted one  *)
(* tells nothing, and of its job nothing was told.                           *)
LEMMA CallTells ==
  ASSUME TypeOK, FlowInv, EventInv, FutureGrows, ParseLogFile
  PROVE  EventInv'
<1>1. /\ job' = job + 1 /\ job \in Nat /\ job' \in Jobs /\ future[job'] = "none"
      /\ job' \notin attached
  BY JobsAssumption DEF ParseLogFile, TypeOK, Jobs, FlowInv, CallInv
<1>2. \A n \in DOMAIN All : All[n].job # job' /\ Settled(All[n])
  BY <1>1 DEF EventInv, Rightful
<1>3. CASE broken
  <2>1. /\ at' = "returned" /\ attached' = attached /\ delivered' = delivered
        /\ Post(<<"FAILED">>, job') /\ future'[job'] = "refused"
    BY <1>1, <1>3 DEF ParseLogFile, Refusal, TypeOK
  <2>2. PICK told \in Events :
           posts' = Append(posts, told) /\ told = Event("FAILED", job')
    BY <1>1, <2>1, PostOne DEF TypeOK, Statuses, Outcomes
  <2>3. told.job = job' /\ told.status = "FAILED"
    BY <2>2 DEF Event
  <2>4. \A n \in DOMAIN All : StaysSettled(All[n])
    BY <1>2, <2>1 DEF Settled, StaysSettled
  <2>5. Rightful(told)'
    BY <2>1, <2>3 DEF Rightful, Results
  <2>6. StaysSettled(told)
    BY <1>1, <2>1, <2>3 DEF StaysSettled
  <2>7. QED
    BY <1>2, <2>1, <2>2, <2>3, <2>4, <2>5, <2>6, OnePost
<1>4. CASE ~broken
  <2>1. attached' = attached /\ All' = All
    BY <1>4 DEF ParseLogFile, All
  <2>2. \A n \in DOMAIN All : StaysSettled(All[n])
    BY <1>2, <2>1 DEF Settled, StaysSettled
  <2>3. QED
    BY <2>1, <2>2, NoPost
<1>5. QED
  BY <1>3, <1>4

(* What a callback posts for j, given that no end of j was told before.      *)
LEMMA CallbackTells ==
  ASSUME TypeOK, EventInv, FutureGrows, NEW j \in Jobs,
         future[j] \in Results, UNCHANGED <<future, delivered, job>>,
         Post(Outcome(future[j]), j),
         \A n \in DOMAIN All : StaysSettled(All[n]),
         \A n \in DOMAIN All : All[n].status \in Outcomes => All[n].job # j,
         j \notin attached', at' = "submitted" => j # job'
  PROVE  EventInv'
<1>1. PICK status \in Outcomes :
         /\ status = IF future[j] = "raised" THEN "FAILED" ELSE "DONE"
         /\ posts' = Append(posts, Event(status, j))
         /\ Event(status, j) \in Events
  BY PostOutcome DEF TypeOK
<1> DEFINE told == Event(status, j)
<1>2. told.job = j /\ told.status = status
  BY DEF Event
<1>3. StaysSettled(told)
  BY <1>2 DEF StaysSettled
<1>4. Rightful(told)'
  BY <1>1, <1>2 DEF Rightful, Results, Event
<1>5. told \in Events /\ posts' = Append(posts, told)
  BY <1>1
<1> HIDE DEF told
<1>6. QED
  BY <1>2, <1>3, <1>4, <1>5, OnePost

LEMMA AddCallbackTells ==
  ASSUME TypeOK, FlowInv, EventInv, FutureGrows, AddDoneCallback
  PROVE  EventInv'
<1>1. /\ at = "submitted" /\ at' = "attached" /\ job \in Jobs /\ job \notin attached
      /\ UNCHANGED <<future, delivered, job>>
  BY DEF AddDoneCallback, FlowInv, CallInv, TypeOK
<1>2. \A n \in DOMAIN All : All[n].status \in Outcomes =>
         All[n].job # job /\ All[n].job \notin attached
  BY <1>1 DEF EventInv, Settled
<1>3. CASE IsDone(job)
  <2>1. attached' = attached /\ Post(Outcome(future[job]), job) /\ future[job] \in Results
    BY <1>3 DEF AddDoneCallback, IsDone
  <2>2. \A n \in DOMAIN All : StaysSettled(All[n])
    BY <1>1, <1>2, <2>1 DEF StaysSettled
  <2>3. QED
    BY <1>1, <1>2, <2>1, <2>2, CallbackTells
<1>4. CASE ~IsDone(job)
  <2>1. attached' = attached \cup {job} /\ All' = All
    BY <1>4 DEF AddDoneCallback, All
  <2>2. \A n \in DOMAIN All : StaysSettled(All[n])
    BY <1>1, <1>2, <2>1 DEF StaysSettled
  <2>3. QED
    BY <2>1, <2>2, NoPost
<1>5. QED
  BY <1>3, <1>4

LEMMA RunCallbacksTells ==
  ASSUME TypeOK, FlowInv, EventInv, FutureGrows, RunCallbacks
  PROVE  EventInv'
<1>1. /\ calling \in Jobs /\ future[calling] \in Results
      /\ UNCHANGED <<future, delivered, job, at>>
      /\ attached' = attached \ {calling}
  BY DEF RunCallbacks, FlowInv, ManagerInv, TypeOK, serviceVars
<1>2. \A n \in DOMAIN All : StaysSettled(All[n])
  BY <1>1 DEF EventInv, Settled, StaysSettled
<1>3. CASE calling \in attached
  <2>1. Post(Outcome(future[calling]), calling)
    BY <1>3 DEF RunCallbacks
  <2>2. \A n \in DOMAIN All : All[n].status \in Outcomes => All[n].job # calling
    BY <1>3 DEF EventInv, Settled
  <2>3. at' = "submitted" => calling # job'
    BY <1>1, <1>3 DEF FlowInv, CallInv
  <2>4. calling \notin attached'
    BY <1>1
  <2>5. QED
    BY <1>1, <1>2, <2>1, <2>2, <2>3, <2>4, CallbackTells
<1>4. CASE calling \notin attached
  <2>1. All' = All
    BY <1>1, <1>4 DEF RunCallbacks, All
  <2>2. QED
    BY <1>2, <2>1, NoPost
<1>5. QED
  BY <1>3, <1>4

LEMMA PostStartedTells ==
  ASSUME TypeOK, FlowInv, EventInv, FutureGrows, PostStarted
  PROVE  EventInv'
<1>1. /\ at = "attached" /\ at' = "returned" /\ job \in Jobs
      /\ UNCHANGED <<future, attached, job, delivered>> /\ Post(<<"STARTED">>, job)
  BY DEF PostStarted, TypeOK, futureVars
<1>2. PICK told \in Events : posts' = Append(posts, told) /\ told = Event("STARTED", job)
  BY <1>1, PostOne DEF TypeOK, Statuses
<1>3. told.job = job /\ told.status = "STARTED" /\ "STARTED" \notin Outcomes
  BY <1>2 DEF Event, Outcomes
<1>4. \A n \in DOMAIN All : StaysSettled(All[n])
  BY <1>1 DEF EventInv, Settled, StaysSettled
<1>5. future[job] \notin {"none", "refused"}
  BY <1>1 DEF FlowInv, CallInv, TypeOK, Jobs
<1>6. Rightful(told)'
  BY <1>1, <1>3, <1>5 DEF Rightful, Outcomes
<1>7. StaysSettled(told)
  BY <1>3 DEF StaysSettled
<1>8. QED
  BY <1>1, <1>2, <1>3, <1>4, <1>6, <1>7, OnePost

LEMMA StepTells ==
  ASSUME TypeOK, FlowInv, EventInv, FutureGrows, Next
  PROVE  EventInv'
<1>1. CASE Start \/ Stop \/ WorkerDies \/ Worker \/ SetResult \/ DetectDeath \/ FailPending
           \/ Dispatch
  <2>1. UNCHANGED <<job, at, attached>>
    BY <1>1 DEF Start, Stop, WorkerDies, Worker, WorkerTakes, WorkerEnds, SetResult,
                DetectDeath, FailPending, Dispatch, serviceVars, futureVars
  <2>2. All' = All
    <3>1. CASE Dispatch
      BY <3>1, DispatchKeepsAll
    <3>2. CASE ~Dispatch
      BY <1>1, <3>2 DEF Start, Stop, WorkerDies, Worker, WorkerTakes, WorkerEnds, SetResult,
                        DetectDeath, FailPending, eventVars, All
    <3>3. QED
      BY <3>1, <3>2
  <2>3. \A n \in DOMAIN All : StaysSettled(All[n])
    BY <2>1 DEF EventInv, Settled, StaysSettled
  <2>4. QED
    BY <2>2, <2>3, NoPost
<1>2. CASE ParseLogFile \/ AddDoneCallback \/ PostStarted \/ RunCallbacks
  BY <1>2, CallTells, AddCallbackTells, PostStartedTells, RunCallbacksTells
<1>3. QED
  BY <1>1, <1>2 DEF Next, Caller, Manager

-----------------------------------------------------------------------------
(* The theorems. *)

LEMMA Invariance == Spec => [](FlowInv /\ EventInv)
<1>1. Init => FlowInv /\ EventInv
  <2> SUFFICES ASSUME Init PROVE FlowInv /\ EventInv
    OBVIOUS
  <2>1. FlowInv
    BY JobsAssumption DEF Init, FlowInv, CallInv, ManagerInv, QueueInv, Jobs
  <2>2. DOMAIN All = {}
    BY DEF Init, All
  <2>3. QED
    BY <2>1, <2>2 DEF EventInv
<1>2. TypeOK /\ FlowInv /\ EventInv /\ [Next]_vars => FlowInv' /\ EventInv'
  <2> SUFFICES ASSUME TypeOK, FlowInv, EventInv, [Next]_vars
               PROVE  FlowInv' /\ EventInv'
    OBVIOUS
  <2>1. CASE Next
    BY <2>1, StepFlows, StepTells
  <2>2. CASE UNCHANGED vars
    <3>1. All' = All /\ UNCHANGED <<job, at, future, attached, waiting, working, alive,
                                   results, calling, broken>>
      BY <2>2 DEF vars, serviceVars, futureVars, workerVars, managerVars, eventVars, All
    <3>2. FlowInv'
      BY <3>1 DEF FlowInv, CallInv, ManagerInv, QueueInv
    <3>3. EventInv'
      <4>1. \A n \in DOMAIN All : StaysSettled(All[n])
        BY <3>1 DEF EventInv, Settled, StaysSettled
      <4>2. FutureGrows
        BY <3>1 DEF FutureGrows, Results
      <4>3. QED
        BY <3>1, <4>1, <4>2, NoPost
    <3>4. QED
      BY <3>2, <3>3
  <2>3. QED
    BY <2>1, <2>2
<1>3. QED
  BY <1>1, <1>2, Typing, PTL DEF Spec

(* What was delivered is the first part of what was posted.                  *)
LEMMA DeliveredFirst ==
  ASSUME TypeOK, NEW n \in DOMAIN delivered
  PROVE  n \in DOMAIN All /\ All[n] = delivered[n]
<1>1. posts \in Seq(Events) /\ delivered \in Seq(Events)
  BY DEF TypeOK
<1>2. QED
  BY <1>1, ConcatProperties, LenProperties DEF All

(* The observers of the service hear of the end of a job at most once,       *)
(* whatever thread posts it and whenever the worker dies.                    *)
THEOREM OneOutcome == Spec => []AtMostOneOutcome
<1>1. TypeOK /\ EventInv => AtMostOneOutcome
  BY DeliveredFirst DEF AtMostOneOutcome, Seen, EventInv
<1>2. QED
  BY <1>1, Typing, Invariance, PTL

(* DONE is delivered only of a job whose worker returned.                    *)
THEOREM DoneParsed == Spec => []DoneWasParsed
<1>1. TypeOK /\ EventInv => DoneWasParsed
  BY DeliveredFirst DEF DoneWasParsed, Seen, EventInv, Rightful
<1>2. QED
  BY <1>1, Typing, Invariance, PTL

(* Of a job the broken pool refused nothing but FAILED is delivered.         *)
THEOREM RefusedStays == Spec => []RefusedNeverStarts
<1>1. TypeOK /\ EventInv => RefusedNeverStarts
  BY DeliveredFirst DEF RefusedNeverStarts, Seen, EventInv, Rightful
<1>2. QED
  BY <1>1, Typing, Invariance, PTL

-----------------------------------------------------------------------------
(* The order of the ends: the pool is a queue. *)

LineInv == InLine /\ EarlierEnded

(* A new call is behind all others. *)
LEMMA CallInLine ==
  ASSUME TypeOK, FlowInv, LineInv, ParseLogFile
  PROVE  LineInv'
<1>1. /\ job' = job + 1 /\ job \in Nat /\ job' \in Jobs /\ future[job'] = "none"
      /\ \A j \in Jobs : future[j] # "none" => j < job'
      /\ UNCHANGED <<working, results, calling, broken>>
  BY JobsAssumption DEF ParseLogFile, TypeOK, Jobs, FlowInv, CallInv, managerVars
<1>2. /\ \A j \in Jobs : j # job' => future'[j] = future[j]
      /\ future'[job'] \in {"pending", "refused"}
  BY <1>1 DEF ParseLogFile, TypeOK
<1>3. EarlierEnded'
  <2>1. \A j \in Jobs : future'[j] \in Returned => future[j] \in Returned /\ j < job'
    BY <1>1, <1>2 DEF Returned
  <2>2. \A i, j \in Jobs : i < j /\ j < job' => i # job'
    BY <1>1 DEF Jobs
  <2>3. QED
    BY <1>1, <1>2, <2>1, <2>2 DEF LineInv, EarlierEnded
<1>4. ASSUME ~broken PROVE InLine'
  <2>1. waiting' = Append(waiting, job') /\ waiting \in Seq(Jobs)
    BY <1>4 DEF ParseLogFile, TypeOK
  <2>2. /\ DOMAIN waiting = 1 .. Len(waiting) /\ Len(waiting) \in Nat
        /\ DOMAIN waiting' = 1 .. Len(waiting) + 1
        /\ \A n \in DOMAIN waiting : waiting'[n] = waiting[n] /\ waiting[n] \in Jobs
        /\ waiting'[Len(waiting) + 1] = job'
    BY <1>1, <2>1, AppendProperties, LenProperties
  <2>3. \A n \in DOMAIN waiting : waiting[n] < job'
    BY <1>1, <1>4, <2>2 DEF FlowInv, QueueInv
  <2>4. \A j \in working : j < job'
    BY <1>1, <1>4 DEF FlowInv, QueueInv, TypeOK
  <2>5. \A n \in DOMAIN results : results[n].job < job'
    BY <1>1, <1>4, SentJobs DEF FlowInv, QueueInv
  <2>6. \A m, n \in DOMAIN waiting' : m < n => waiting'[m] < waiting'[n]
    BY <1>4, <2>2, <2>3 DEF LineInv, InLine
  <2>7. \A j \in working : \A n \in DOMAIN waiting' : j < waiting'[n]
    BY <1>4, <2>2, <2>4 DEF LineInv, InLine
  <2>8. \A n \in DOMAIN results : \A m \in DOMAIN waiting' : results[n].job < waiting'[m]
    BY <1>4, <2>2, <2>5 DEF LineInv, InLine
  <2>9. ASSUME NEW j \in Jobs, future'[j] = "pending" PROVE InPool(j)'
    <3>1. CASE j = job'
      BY <2>2, <3>1 DEF InPool
    <3>2. CASE j # job'
      <4>1. InPool(j)
        BY <1>2, <1>4, <2>9, <3>2 DEF LineInv, InLine
      <4>2. QED
        BY <1>1, <2>2, <4>1 DEF InPool
    <3>3. QED
      BY <3>1, <3>2
  <2>10. QED
    BY <1>1, <1>4, <2>6, <2>7, <2>8, <2>9 DEF LineInv, InLine
<1>5. QED
  BY <1>1, <1>3, <1>4 DEF LineInv, InLine

(* The worker takes the first of the line when it has no job. *)
LEMMA WorkerTakesInLine ==
  ASSUME TypeOK, FlowInv, LineInv, WorkerTakes
  PROVE  LineInv'
<1>1. /\ waiting # <<>> /\ waiting \in Seq(Jobs) /\ Tail(waiting) \in Seq(Jobs)
      /\ working' = working \cup {Head(waiting)} /\ waiting' = Tail(waiting)
      /\ UNCHANGED <<future, results, calling, broken>>
  BY HeadTailProperties DEF WorkerTakes, TypeOK, futureVars, managerVars
<1>2. working = {}
  <2>1. IsFiniteSet(Jobs)
    BY JobsAssumption, FS_Interval DEF Jobs
  <2>2. IsFiniteSet(working) /\ Cardinality(working) \in Nat
    BY <2>1, FS_Subset, FS_CardinalityType DEF TypeOK
  <2>3. Cardinality(working) = 0
    BY <2>2 DEF WorkerTakes, MaxWorkers
  <2>4. QED
    BY <2>2, <2>3, FS_EmptySet
<1>3. /\ DOMAIN waiting = 1 .. Len(waiting) /\ Len(waiting) \in Nat /\ Len(waiting) >= 1
      /\ DOMAIN waiting' = 1 .. Len(waiting) - 1
      /\ Head(waiting) = waiting[1] /\ 1 \in DOMAIN waiting
      /\ \A n \in DOMAIN waiting' : n + 1 \in DOMAIN waiting /\ waiting'[n] = waiting[n + 1]
  BY <1>1, HeadTailProperties, LenProperties, EmptySeq
<1>4. working' = {waiting[1]}
  BY <1>1, <1>2, <1>3
<1>5. EarlierEnded'
  BY <1>1 DEF LineInv, EarlierEnded
<1>6. ASSUME ~broken PROVE InLine'
  <2>1. \A m, n \in DOMAIN waiting' : m < n => waiting'[m] < waiting'[n]
    <3> SUFFICES ASSUME NEW m \in DOMAIN waiting', NEW n \in DOMAIN waiting', m < n
                 PROVE  waiting'[m] < waiting'[n]
      OBVIOUS
    <3>1. m + 1 < n + 1
      BY <1>3
    <3>2. QED
      BY <1>3, <1>6, <3>1 DEF LineInv, InLine
  <2>2. \A n \in DOMAIN waiting' : waiting[1] < waiting'[n]
    <3> SUFFICES ASSUME NEW n \in DOMAIN waiting' PROVE waiting[1] < waiting'[n]
      OBVIOUS
    <3>1. 1 < n + 1
      BY <1>3
    <3>2. QED
      BY <1>3, <1>6, <3>1 DEF LineInv, InLine
  <2>3. \A n \in DOMAIN results : /\ results[n].job < waiting[1]
                                  /\ \A m \in DOMAIN waiting' : results[n].job < waiting'[m]
    BY <1>3, <1>6 DEF LineInv, InLine
  <2>4. ASSUME NEW j \in Jobs, future'[j] = "pending" PROVE InPool(j)'
    <3>1. InPool(j)
      BY <1>1, <1>6, <2>4 DEF LineInv, InLine
    <3>2. CASE \E n \in DOMAIN waiting : waiting[n] = j
      <4>1. PICK n \in DOMAIN waiting : waiting[n] = j
        BY <3>2
      <4>2. CASE n = 1
        BY <1>4, <4>1, <4>2 DEF InPool
      <4>3. CASE n # 1
        <5>1. n - 1 \in DOMAIN waiting' /\ (n - 1) + 1 = n
          BY <1>3, <4>3
        <5>2. waiting'[n - 1] = j
          BY <1>3, <4>1, <5>1
        <5>3. QED
          BY <5>1, <5>2 DEF InPool
      <4>4. QED
        BY <4>2, <4>3
    <3>3. CASE \E n \in DOMAIN results : results[n].job = j
      BY <1>1, <3>3 DEF InPool
    <3>4. QED
      BY <1>2, <3>1, <3>2, <3>3 DEF InPool
  <2>5. QED
    BY <1>1, <1>4, <1>6, <2>1, <2>2, <2>3, <2>4 DEF LineInv, InLine
<1>7. QED
  BY <1>1, <1>5, <1>6 DEF LineInv, InLine

(* What the worker sends is behind all it sent before. *)
LEMMA WorkerEndsInLine ==
  ASSUME TypeOK, FlowInv, LineInv,
         NEW j \in Jobs, NEW result \in Results, WorkerEnds(j, result)
  PROVE  LineInv'
<1> DEFINE sent == [job |-> j, result |-> result]
<1>1. /\ j \in working /\ working' = working \ {j}
      /\ results' = Append(results, sent) /\ sent \in [job : Jobs, result : Results]
      /\ UNCHANGED <<future, waiting, calling, broken>>
  BY DEF WorkerEnds, futureVars
<1>2. /\ DOMAIN results = 1 .. Len(results) /\ Len(results) \in Nat
      /\ DOMAIN results' = 1 .. Len(results) + 1
      /\ \A n \in DOMAIN results : results'[n] = results[n]
      /\ results'[Len(results) + 1].job = j
  BY <1>1, AppendProperties, LenProperties DEF TypeOK
<1>3. EarlierEnded'
  BY <1>1 DEF LineInv, EarlierEnded
<1>4. ASSUME ~broken PROVE InLine'
  <2>1. working' = {}
    BY <1>1, <1>4 DEF LineInv, InLine
  <2>2. \A n \in DOMAIN results' : \A m \in DOMAIN results' :
           n < m => results'[n].job < results'[m].job
    BY <1>1, <1>2, <1>4 DEF LineInv, InLine
  <2>3. \A n \in DOMAIN results' : \A m \in DOMAIN waiting : results'[n].job < waiting[m]
    BY <1>1, <1>2, <1>4 DEF LineInv, InLine
  <2>4. ASSUME NEW i \in Jobs, future'[i] = "pending" PROVE InPool(i)'
    <3>1. InPool(i)
      BY <1>1, <1>4, <2>4 DEF LineInv, InLine
    <3>2. CASE i = j
      BY <1>2, <3>2 DEF InPool
    <3>3. CASE i # j
      BY <1>1, <1>2, <3>1, <3>3 DEF InPool
    <3>4. QED
      BY <3>2, <3>3
  <2>5. QED
    BY <1>1, <1>4, <2>1, <2>2, <2>3, <2>4 DEF LineInv, InLine
<1>5. QED
  BY <1>1, <1>3, <1>4 DEF LineInv, InLine

(* The manager receives the result of the first job still pending. *)
LEMMA SetResultInLine ==
  ASSUME TypeOK, FlowInv, LineInv, SetResult
  PROVE  LineInv'
<1> DEFINE sent == Head(results)
<1>1. /\ results # <<>> /\ results \in Seq([job : Jobs, result : Results])
      /\ sent \in [job : Jobs, result : Results]
      /\ future' = [future EXCEPT ![sent.job] = sent.result]
      /\ calling' = sent.job /\ results' = Tail(results)
      /\ UNCHANGED <<waiting, working, broken>>
  BY HeadTailProperties DEF SetResult, TypeOK, workerVars
<1>2. /\ DOMAIN results = 1 .. Len(results) /\ Len(results) \in Nat /\ Len(results) >= 1
      /\ DOMAIN results' = 1 .. Len(results) - 1
      /\ sent = results[1] /\ 1 \in DOMAIN results
      /\ \A n \in DOMAIN results' : n + 1 \in DOMAIN results /\ results'[n] = results[n + 1]
  BY <1>1, HeadTailProperties, LenProperties, EmptySeq
<1>3. ~broken
  BY <1>1 DEF FlowInv, ManagerInv
<1> DEFINE first == sent.job
<1>4. /\ future[first] = "pending" /\ first \in Jobs
      /\ future'[first] \in Results
      /\ \A j \in Jobs : j # first => future'[j] = future[j]
  BY <1>1, <1>2, <1>3 DEF FlowInv, QueueInv, TypeOK
<1>5. first = results[1].job
  BY <1>2
<1> HIDE DEF first, sent
<1>6. ASSUME NEW n \in DOMAIN results PROVE n = 1 \/ first < results[n].job
  <2>1. n = 1 \/ 1 < n
    BY <1>2
  <2>2. QED
    BY <1>2, <1>3, <1>5, <2>1 DEF LineInv, InLine
<1>7. \A j \in Jobs : future[j] = "pending" => j = first \/ first < j
  <2> SUFFICES ASSUME NEW j \in Jobs, future[j] = "pending" PROVE j = first \/ first < j
    OBVIOUS
  <2>1. InPool(j)
    BY <1>3 DEF LineInv, InLine
  <2>2. CASE j \in working \/ \E n \in DOMAIN waiting : waiting[n] = j
    BY <1>2, <1>3, <1>5, <2>2 DEF LineInv, InLine
  <2>3. CASE \E n \in DOMAIN results : results[n].job = j
    BY <1>5, <1>6, <2>3
  <2>4. QED
    BY <2>1, <2>2, <2>3 DEF InPool
<1>8. EarlierEnded'
  <2>1. \A i, j \in Jobs : i < j /\ future'[j] \in Returned => future'[i] # "pending"
    <3> SUFFICES ASSUME NEW i \in Jobs, NEW j \in Jobs, i < j, future'[j] \in Returned,
                        future'[i] = "pending"
                 PROVE  FALSE
      OBVIOUS
    <3>1. i # first /\ future[i] = "pending"
      BY <1>4 DEF Results
    <3>2. CASE j = first
      BY <1>7, <3>1, <3>2 DEF Jobs
    <3>3. CASE j # first
      BY <1>4, <3>1, <3>3 DEF LineInv, EarlierEnded
    <3>4. QED
      BY <3>2, <3>3
  <2>2. \A j \in Jobs : first < j => future'[j] \notin Returned
    <3> SUFFICES ASSUME NEW j \in Jobs, first < j, future'[j] \in Returned PROVE FALSE
      OBVIOUS
    <3>1. future[j] \in Returned
      BY <1>4 DEF Jobs
    <3>2. QED
      BY <1>4, <3>1 DEF LineInv, EarlierEnded
  <2>3. calling' = first
    BY <1>1 DEF first
  <2>4. QED
    BY <2>1, <2>2, <2>3 DEF EarlierEnded
<1>9. InLine'
  <2>1. \A n, m \in DOMAIN results' : n < m => results'[n].job < results'[m].job
    <3> SUFFICES ASSUME NEW n \in DOMAIN results', NEW m \in DOMAIN results', n < m
                 PROVE  results'[n].job < results'[m].job
      OBVIOUS
    <3>1. n + 1 < m + 1
      BY <1>2
    <3>2. QED
      BY <1>2, <1>3, <3>1 DEF LineInv, InLine
  <2>2. \A n \in DOMAIN results' : /\ \A j \in working : results'[n].job < j
                                   /\ \A m \in DOMAIN waiting : results'[n].job < waiting[m]
    BY <1>2, <1>3 DEF LineInv, InLine
  <2>3. ASSUME NEW j \in Jobs, future'[j] = "pending" PROVE InPool(j)'
    <3>1. j # first /\ future[j] = "pending"
      BY <1>4, <2>3 DEF Results
    <3>2. InPool(j)
      BY <1>3, <3>1 DEF LineInv, InLine
    <3>3. ASSUME NEW n \in DOMAIN results, results[n].job = j
          PROVE  \E m \in DOMAIN results' : results'[m].job = j
      <4>1. n # 1
        BY <1>5, <3>1, <3>3
      <4>2. n - 1 \in DOMAIN results' /\ (n - 1) + 1 = n
        BY <1>2, <4>1
      <4>3. QED
        BY <1>2, <3>3, <4>2
    <3>4. QED
      BY <1>1, <3>2, <3>3 DEF InPool
  <2>4. QED
    BY <1>1, <1>3, <2>1, <2>2, <2>3 DEF LineInv, InLine
<1>10. QED
  BY <1>8, <1>9 DEF LineInv

(* A broken pool: the oldest pending future fails. *)
LEMMA FailPendingInLine ==
  ASSUME TypeOK, LineInv, FailPending
  PROVE  LineInv'
<1>1. PICK j \in Jobs : /\ future[j] = "pending" /\ calling' = j /\ broken
                        /\ future' = [future EXCEPT ![j] = "raised"]
  BY DEF FailPending
<1>2. broken' = broken
  BY DEF FailPending
<1>3. future'[j] = "raised" /\ \A i \in Jobs : i # j => future'[i] = future[i]
  BY <1>1 DEF TypeOK
<1>4. \A i \in Jobs : /\ future'[i] \in Returned => future[i] \in Returned
                      /\ future'[i] = "pending" => future[i] = "pending"
  BY <1>3 DEF Returned
<1>5. QED
  BY <1>1, <1>2, <1>4 DEF LineInv, InLine, EarlierEnded

LEMMA OthersInLine ==
  ASSUME LineInv,
         \/ Start \/ Stop \/ AddDoneCallback \/ PostStarted \/ WorkerDies
         \/ DetectDeath \/ RunCallbacks \/ Dispatch \/ UNCHANGED vars
  PROVE  LineInv'
<1>1. /\ UNCHANGED <<future, waiting, working, results>>
      /\ broken' = FALSE => broken = FALSE
      /\ broken' = broken \/ broken'
      /\ calling' = calling \/ calling' = Idle
  BY DEF Start, Stop, AddDoneCallback, PostStarted, WorkerDies, DetectDeath, RunCallbacks,
         Dispatch, vars, serviceVars, futureVars, workerVars, managerVars
<1>2. InLine' /\ EarlierEnded'
  BY <1>1 DEF LineInv, InLine, InPool, EarlierEnded
<1>3. QED
  BY <1>2 DEF LineInv

LEMMA StepInLine ==
  ASSUME TypeOK, FlowInv, LineInv, [Next]_vars
  PROVE  LineInv'
  BY CallInLine, WorkerTakesInLine, WorkerEndsInLine, SetResultInLine, FailPendingInLine,
     OthersInLine DEF Next, Caller, Worker, Manager

-----------------------------------------------------------------------------
(* Each end is told, and after those before it. *)

OrderInv == EndsAreTold /\ DoneFollows

(* Nothing is posted, and whoever was to tell an end still is.               *)
LEMMA NoPostOrder ==
  ASSUME OrderInv, All' = All,
         \A j \in Jobs :
            /\ future'[j] = "pending" =>
                 j \in attached' \/ (at' = "submitted" /\ j = job')
            /\ future'[j] \in Results \cup {"refused"} =>
                 \/ Told(j)
                 \/ calling' = j /\ j \in attached'
                 \/ at' = "submitted" /\ j = job'
  PROVE  OrderInv'
  BY DEF OrderInv, EndsAreTold, DoneFollows, Told, ToldBefore

(* An event of j is posted; if it is DONE, the ends before it were told.     *)
LEMMA OnePostOrder ==
  ASSUME TypeOK, OrderInv, NEW e \in Events, posts' = Append(posts, e),
         delivered' = delivered,
         e.status = "DONE" => \A i \in 1 .. e.job - 1 : Told(i),
         \A j \in Jobs :
            /\ future'[j] = "pending" =>
                 j \in attached' \/ (at' = "submitted" /\ j = job')
            /\ future'[j] \in Results \cup {"refused"} =>
                 \/ Told(j)
                 \/ e.job = j /\ e.status \in Outcomes
                 \/ calling' = j /\ j \in attached'
                 \/ at' = "submitted" /\ j = job'
  PROVE  OrderInv'
<1>1. /\ DOMAIN All = 1 .. Len(All) /\ Len(All) \in Nat
      /\ DOMAIN All' = 1 .. Len(All) + 1
      /\ \A n \in DOMAIN All : All'[n] = All[n]
      /\ All'[Len(All) + 1] = e
  BY AppendsAll
<1>2. \A j : Told(j) => Told(j)'
  BY <1>1 DEF Told
<1>3. e.status \in Outcomes => Told(e.job)'
  BY <1>1 DEF Told
<1>4. EndsAreTold'
  BY <1>2, <1>3 DEF EndsAreTold
<1>5. ASSUME NEW n \in DOMAIN All', All'[n].status = "DONE", NEW i \in 1 .. All'[n].job - 1
      PROVE  ToldBefore(n, i)'
  <2>1. CASE n \in DOMAIN All
    <3>1. PICK m \in DOMAIN All : m < n /\ All[m].job = i /\ All[m].status \in Outcomes
      BY <1>1, <1>5, <2>1 DEF OrderInv, DoneFollows, ToldBefore
    <3>2. QED
      BY <1>1, <3>1 DEF ToldBefore
  <2>2. CASE n = Len(All) + 1
    <3>1. PICK m \in DOMAIN All : All[m].job = i /\ All[m].status \in Outcomes
      BY <1>1, <1>5, <2>2 DEF Told
    <3>2. m < n
      BY <1>1, <2>2
    <3>3. QED
      BY <1>1, <3>1, <3>2 DEF ToldBefore
  <2>3. QED
    BY <1>1, <2>1, <2>2
<1>6. QED
  BY <1>4, <1>5 DEF OrderInv, DoneFollows

(* A callback that tells of j the end of a job that returned: the ends       *)
(* before it were told.                                                      *)
LEMMA EarlierTold ==
  ASSUME TypeOK, FlowInv, LineInv, OrderInv, NEW j \in Jobs, future[j] \in Returned,
         calling = j \/ j = job
  PROVE  \A i \in 1 .. j - 1 : Told(i)
<1> SUFFICES ASSUME NEW i \in 1 .. j - 1 PROVE Told(i)
  OBVIOUS
<1>1. i \in Jobs /\ i < j
  BY JobsAssumption DEF Jobs
<1>2. j <= job /\ job \in Nat
  <2>1. future[j] # "none" /\ job \in 0 .. MaxJobs
    BY DEF Returned, TypeOK
  <2>2. ~(job < j)
    BY <2>1 DEF FlowInv, CallInv
  <2>3. QED
    BY <2>1, <2>2, JobsAssumption DEF Jobs
<1>3. future[i] \notin {"none", "pending"}
  BY <1>1, <1>2 DEF FlowInv, CallInv, LineInv, EarlierEnded, Jobs
<1>4. future[i] \in Results \cup {"refused"}
  BY <1>1, <1>3 DEF TypeOK
<1>5. calling # i
  BY <1>1 DEF LineInv, EarlierEnded, Jobs, Idle
<1>6. i # job
  BY <1>1, <1>2 DEF Jobs
<1>7. QED
  BY <1>1, <1>4, <1>5, <1>6 DEF OrderInv, EndsAreTold

(* What a callback posts for j keeps the order. *)
LEMMA CallbackOrder ==
  ASSUME TypeOK, OrderInv, NEW j \in Jobs, future[j] \in Results,
         UNCHANGED <<future, delivered>>, Post(Outcome(future[j]), j),
         future[j] \in Returned => \A i \in 1 .. j - 1 : Told(i),
         \A i \in Jobs :
            /\ future[i] = "pending" =>
                 i \in attached' \/ (at' = "submitted" /\ i = job')
            /\ future[i] \in Results \cup {"refused"} =>
                 \/ Told(i) \/ i = j
                 \/ calling' = i /\ i \in attached'
                 \/ at' = "submitted" /\ i = job'
  PROVE  OrderInv'
<1>1. PICK status \in Outcomes :
         /\ status = IF future[j] = "raised" THEN "FAILED" ELSE "DONE"
         /\ posts' = Append(posts, Event(status, j))
         /\ Event(status, j) \in Events
  BY PostOutcome DEF TypeOK
<1>2. PICK told \in Events : told = Event(status, j)
  BY <1>1
<1>3. told.job = j /\ told.status = status
  BY <1>2 DEF Event
<1>4. told.status = "DONE" => \A i \in 1 .. told.job - 1 : Told(i)
  BY <1>1, <1>3 DEF Results, Returned
<1>5. posts' = Append(posts, told)
  BY <1>1, <1>2
<1>6. QED
  BY <1>3, <1>4, <1>5, OnePostOrder

LEMMA CallOrder ==
  ASSUME TypeOK, FlowInv, OrderInv, ParseLogFile
  PROVE  OrderInv'
<1>1. /\ job' = job + 1 /\ job \in Nat /\ job' \in Jobs /\ future[job'] = "none"
      /\ at = "returned" /\ UNCHANGED <<attached, calling>>
  BY JobsAssumption DEF ParseLogFile, TypeOK, Jobs, FlowInv, CallInv, managerVars
<1>2. \A j \in Jobs : j # job' => future'[j] = future[j]
  BY <1>1 DEF ParseLogFile, TypeOK
<1>3. CASE broken
  <2>1. /\ delivered' = delivered /\ Post(<<"FAILED">>, job') /\ future'[job'] = "refused"
    BY <1>1, <1>3 DEF ParseLogFile, Refusal, TypeOK
  <2>2. PICK told \in Events :
           posts' = Append(posts, told) /\ told = Event("FAILED", job')
    BY <1>1, <2>1, PostOne DEF TypeOK, Statuses, Outcomes
  <2>3. told.job = job' /\ told.status = "FAILED" /\ told.status \in Outcomes
    BY <2>2 DEF Event, Outcomes
  <2>4. QED
    BY <1>1, <1>2, <2>1, <2>2, <2>3, OnePostOrder DEF OrderInv, EndsAreTold
<1>4. CASE ~broken
  <2>1. at' = "submitted" /\ All' = All
    BY <1>4 DEF ParseLogFile, All
  <2>2. QED
    BY <1>1, <1>2, <2>1, NoPostOrder DEF OrderInv, EndsAreTold
<1>5. QED
  BY <1>3, <1>4

LEMMA AddCallbackOrder ==
  ASSUME TypeOK, FlowInv, LineInv, OrderInv, AddDoneCallback
  PROVE  OrderInv'
<1>1. /\ at = "submitted" /\ at' = "attached" /\ job \in Jobs
      /\ UNCHANGED <<future, delivered, job, calling>>
      /\ future[job] \notin {"none", "refused"}
  BY DEF AddDoneCallback, FlowInv, CallInv, TypeOK, managerVars, Jobs
<1>2. CASE IsDone(job)
  <2>1. attached' = attached /\ Post(Outcome(future[job]), job) /\ future[job] \in Results
    BY <1>2 DEF AddDoneCallback, IsDone
  <2>2. future[job] \in Returned => \A i \in 1 .. job - 1 : Told(i)
    BY <1>1, EarlierTold
  <2>3. \A i \in Jobs :
            /\ future[i] = "pending" => i \in attached'
            /\ future[i] \in Results \cup {"refused"} =>
                 Told(i) \/ i = job \/ (calling' = i /\ i \in attached')
    BY <1>1, <2>1 DEF OrderInv, EndsAreTold, Results
  <2>4. QED
    BY <1>1, <2>1, <2>2, <2>3, CallbackOrder
<1>3. CASE ~IsDone(job)
  <2>1. attached' = attached \cup {job} /\ All' = All /\ future[job] \notin Results
    BY <1>3 DEF AddDoneCallback, All, IsDone
  <2>2. QED
    BY <1>1, <2>1, NoPostOrder DEF OrderInv, EndsAreTold
<1>4. QED
  BY <1>2, <1>3

LEMMA RunCallbacksOrder ==
  ASSUME TypeOK, FlowInv, LineInv, OrderInv, RunCallbacks
  PROVE  OrderInv'
<1>1. /\ calling \in Jobs /\ future[calling] \in Results
      /\ UNCHANGED <<future, delivered, job, at>>
      /\ attached' = attached \ {calling} /\ calling' = Idle
  BY DEF RunCallbacks, FlowInv, ManagerInv, TypeOK, serviceVars
<1>2. CASE calling \in attached
  <2>1. Post(Outcome(future[calling]), calling)
    BY <1>2 DEF RunCallbacks
  <2>2. future[calling] \in Returned => \A i \in 1 .. calling - 1 : Told(i)
    BY <1>1, EarlierTold
  <2>3. \A i \in Jobs :
            /\ future[i] = "pending" => i \in attached' \/ (at' = "submitted" /\ i = job')
            /\ future[i] \in Results \cup {"refused"} =>
                 Told(i) \/ i = calling \/ (at' = "submitted" /\ i = job')
    BY <1>1 DEF OrderInv, EndsAreTold, Results
  <2>4. QED
    BY <1>1, <2>1, <2>2, <2>3, CallbackOrder
<1>3. CASE calling \notin attached
  <2>1. All' = All
    BY <1>1, <1>3 DEF RunCallbacks, All
  <2>2. attached' = attached
    BY <1>1, <1>3
  <2>3. QED
    BY <1>1, <1>3, <2>1, <2>2, NoPostOrder DEF OrderInv, EndsAreTold
<1>4. QED
  BY <1>2, <1>3

LEMMA PostStartedOrder ==
  ASSUME TypeOK, OrderInv, PostStarted
  PROVE  OrderInv'
<1>1. /\ at = "attached" /\ at' = "returned" /\ job \in Jobs
      /\ UNCHANGED <<future, attached, job, delivered, calling>> /\ Post(<<"STARTED">>, job)
  BY DEF PostStarted, TypeOK, futureVars, managerVars
<1>2. PICK told \in Events : posts' = Append(posts, told) /\ told = Event("STARTED", job)
  BY <1>1, PostOne DEF TypeOK, Statuses
<1>3. told.status = "STARTED"
  BY <1>2 DEF Event
<1>4. QED
  BY <1>1, <1>2, <1>3, OnePostOrder DEF OrderInv, EndsAreTold

(* A future that is set is that of the job the manager calls back for.       *)
LEMMA FutureSetOrder ==
  ASSUME TypeOK, FlowInv, OrderInv, SetResult \/ FailPending
  PROVE  OrderInv'
<1>1. /\ calling = Idle /\ UNCHANGED <<at, job, attached, posts, delivered>>
  BY DEF SetResult, FailPending, serviceVars, eventVars
<1>2. PICK j \in Jobs : /\ future[j] = "pending" /\ calling' = j
                        /\ future'[j] # "pending"
                        /\ \A i \in Jobs : i # j => future'[i] = future[i]
  <2>1. CASE FailPending
    BY <2>1 DEF FailPending, TypeOK
  <2>2. CASE SetResult
    <3> DEFINE sent == Head(results)
    <3>1. /\ results # <<>> /\ results \in Seq([job : Jobs, result : Results])
          /\ sent \in [job : Jobs, result : Results]
          /\ future' = [future EXCEPT ![sent.job] = sent.result] /\ calling' = sent.job
      BY <2>2, HeadTailProperties DEF SetResult, TypeOK
    <3>2. 1 \in DOMAIN results /\ sent = results[1]
      BY <3>1, HeadTailProperties, LenProperties, EmptySeq
    <3>3. ~broken
      BY <3>1 DEF FlowInv, ManagerInv
    <3>4. future[sent.job] = "pending" /\ sent.result \in Results /\ sent.job \in Jobs
      BY <3>1, <3>2, <3>3 DEF FlowInv, QueueInv
    <3>5. future'[sent.job] # "pending"
          /\ \A i \in Jobs : i # sent.job => future'[i] = future[i]
      BY <3>1, <3>4 DEF TypeOK, Results
    <3>6. QED
      BY <3>1, <3>4, <3>5
  <2>3. QED
    BY <2>1, <2>2
<1>3. All' = All
  BY <1>1 DEF All
<1>4. QED
  BY <1>1, <1>2, <1>3, NoPostOrder DEF OrderInv, EndsAreTold, Idle, Jobs

LEMMA StepOrder ==
  ASSUME TypeOK, FlowInv, LineInv, OrderInv, [Next]_vars
  PROVE  OrderInv'
<1>1. CASE Start \/ Stop \/ WorkerDies \/ Worker \/ DetectDeath \/ Dispatch \/ UNCHANGED vars
  <2>1. UNCHANGED <<future, job, at, attached, calling>>
    BY <1>1 DEF Start, Stop, WorkerDies, Worker, WorkerTakes, WorkerEnds, DetectDeath,
                Dispatch, serviceVars, futureVars, managerVars, vars
  <2>2. All' = All
    <3>1. CASE Dispatch
      BY <3>1, DispatchKeepsAll
    <3>2. CASE ~Dispatch
      BY <1>1, <3>2 DEF Start, Stop, WorkerDies, Worker, WorkerTakes, WorkerEnds,
                        DetectDeath, eventVars, vars, All
    <3>3. QED
      BY <3>1, <3>2
  <2>3. QED
    BY <2>1, <2>2, NoPostOrder DEF OrderInv, EndsAreTold
<1>2. CASE ParseLogFile \/ AddDoneCallback \/ PostStarted \/ RunCallbacks
  BY <1>2, CallOrder, AddCallbackOrder, PostStartedOrder, RunCallbacksOrder
<1>3. CASE SetResult \/ FailPending
  BY <1>3, FutureSetOrder
<1>4. QED
  BY <1>1, <1>2, <1>3 DEF Next, Caller, Manager

(* The ends are delivered in the order of the calls: with one worker, one    *)
(* manager and one queue of posts, DONE of a job follows the end of each     *)
(* earlier one.                                                              *)
THEOREM EndsInOrder == Spec => []DoneInOrder
<1>1. Init => LineInv /\ OrderInv
  <2> SUFFICES ASSUME Init PROVE LineInv /\ OrderInv
    OBVIOUS
  <2>1. DOMAIN All = {}
    BY DEF Init, All
  <2>2. QED
    BY <2>1 DEF Init, LineInv, InLine, InPool, EarlierEnded, OrderInv, EndsAreTold,
                DoneFollows, Returned, Results
<1>2. TypeOK /\ FlowInv /\ LineInv /\ OrderInv /\ [Next]_vars => LineInv' /\ OrderInv'
  BY StepInLine, StepOrder
<1>3. TypeOK /\ OrderInv => DoneInOrder
  <2> SUFFICES ASSUME TypeOK, OrderInv, NEW j \in Jobs, NEW n \in Seen({"DONE"}, j),
                      NEW i \in 1 .. j - 1
               PROVE  \E m \in Seen(Outcomes, i) : m < n
    BY DEF DoneInOrder
  <2>1. n \in DOMAIN delivered /\ delivered[n].job = j /\ delivered[n].status = "DONE"
    BY DEF Seen
  <2>2. n \in DOMAIN All /\ All[n] = delivered[n]
    BY <2>1, DeliveredFirst
  <2>3. PICK m \in DOMAIN All : m < n /\ All[m].job = i /\ All[m].status \in Outcomes
    BY <2>1, <2>2 DEF OrderInv, DoneFollows, ToldBefore
  <2>4. m \in DOMAIN delivered
    <3>1. posts \in Seq(Events) /\ delivered \in Seq(Events)
      BY DEF TypeOK
    <3>2. DOMAIN delivered = 1 .. Len(delivered) /\ Len(delivered) \in Nat
          /\ DOMAIN All = 1 .. Len(All) /\ Len(All) \in Nat
      BY <3>1, ConcatProperties, LenProperties DEF All
    <3>3. QED
      BY <2>1, <2>3, <3>2
  <2>5. QED
    BY <2>3, <2>4, DeliveredFirst DEF Seen
<1>4. QED
  BY <1>1, <1>2, <1>3, Typing, Invariance, PTL DEF Spec

=============================================================================
