------------------------------ MODULE ParseJobs ------------------------------
(***************************************************************************)
(* FileService.parse_log_file (file_service.py): log files parsed by a pool *)
(* of one worker process, and the status events posted to the main          *)
(* dispatcher for each of them.                                             *)
(*                                                                         *)
(* Four threads of control interleave: the application thread in            *)
(* parse_log_file, the worker process in run_worker_segmented, the          *)
(* executor's manager thread, which completes futures and runs their done   *)
(* callbacks, and the main dispatcher.  ProcessPoolExecutor, Future and     *)
(* MainThreadDispatcher are not in the repository: they are modelled from   *)
(* the calls made here.                                                     *)
(***************************************************************************)
EXTENDS Integers, FiniteSets, SequencesExt

CONSTANT MaxJobs   \* bound: calls of parse_log_file

ASSUME JobsAssumption == MaxJobs \in Nat

Jobs == 1 .. MaxJobs
Idle == 0
Results == {"returned", "error code", "raised"}

VARIABLES
  service,    \* BaseService.state: "RUNNING", or not
  job,        \* the call the application thread is in, or made last
  at,         \* where in parse_log_file it is
  future,     \* by job: "none", "pending", a result, or "refused"
  attached,   \* futures holding _on_parse_completed
  waiting,    \* jobs the worker has not taken
  working,    \* the jobs the worker processes run
  alive,      \* no worker process has died
  results,    \* what the worker sent and the manager has not received
  calling,    \* the future whose callbacks the manager runs, or Idle
  broken,     \* ProcessPoolExecutor._broken
  posts,      \* events posted to the main dispatcher
  delivered   \* events the observers were given

serviceVars == <<service, job, at>>
futureVars == <<future, attached>>
workerVars == <<waiting, working, alive>>
managerVars == <<results, calling, broken>>
eventVars == <<posts, delivered>>
vars == <<serviceVars, futureVars, workerVars, managerVars, eventVars>>

Init == /\ service = "STOPPED"
        /\ job = 0 /\ at = "returned"
        /\ future = [j \in Jobs |-> "none"] /\ attached = {}
        /\ waiting = <<>> /\ working = {} /\ alive = TRUE
        /\ results = <<>> /\ calling = Idle /\ broken = FALSE
        /\ posts = <<>> /\ delivered = <<>>

Event(status, j) == [status |-> status, job |-> j]

-----------------------------------------------------------------------------
(* Seeded faults: each replaces the definition of the model it is named     *)
(* after in one mutant run.                                                 *)

(* DONE is posted after the try statement instead of in its else. *)
OutcomeThenDone(result) ==
  IF result = "raised" THEN <<"FAILED", "DONE">> ELSE <<"DONE">>

(* The except clause of the callback only logs. *)
OutcomeIfDone(result) == IF result = "raised" THEN <<>> ELSE <<"DONE">>

(* The callback posts DONE without asking the future for its result. *)
OutcomeUnasked(result) == <<"DONE">>

(* The except clause of parse_log_file falls through to the STARTED post. *)
RefusalThenStarted == <<"FAILED", "STARTED">>

(* A pool of two workers. *)
TwoWorkers == 2

-----------------------------------------------------------------------------
(* Posting. *)

(* _on_parse_completed: future.result() raises, or any return value. *)
Outcome(result) == IF result = "raised" THEN <<"FAILED">> ELSE <<"DONE">>

(* The except clause of parse_log_file. *)
Refusal == <<"FAILED">>

Post(statuses, j) ==
  posts' = posts \o [n \in DOMAIN statuses |-> Event(statuses[n], j)]

IsDone(j) == future[j] \in Results

-----------------------------------------------------------------------------
(* The service and parse_log_file, on the application thread. *)

Start == /\ service = "STOPPED"
         /\ service' = "RUNNING"
         /\ UNCHANGED <<job, at, futureVars, workerVars, managerVars, eventVars>>

(* _do_stop leaves the pool and its jobs alone. *)
Stop == /\ service = "RUNNING" /\ at = "returned"
        /\ service' = "STOPPED"
        /\ UNCHANGED <<job, at, futureVars, workerVars, managerVars, eventVars>>

(* Up to submit, which raises on a broken pool. *)
ParseLogFile ==
  /\ service = "RUNNING" /\ at = "returned" /\ job < MaxJobs
  /\ job' = job + 1
  /\ IF broken
       THEN /\ Post(Refusal, job')
            /\ future' = [future EXCEPT ![job'] = "refused"]
            /\ UNCHANGED <<at, waiting>>
       ELSE /\ future' = [future EXCEPT ![job'] = "pending"]
            /\ waiting' = Append(waiting, job')
            /\ at' = "submitted"
            /\ UNCHANGED posts
  /\ UNCHANGED <<service, attached, working, alive, managerVars, delivered>>

(* add_done_callback: on a future already done it calls back at once. *)
AddDoneCallback ==
  /\ at = "submitted"
  /\ at' = "attached"
  /\ IF IsDone(job)
       THEN Post(Outcome(future[job]), job) /\ UNCHANGED attached
       ELSE attached' = attached \cup {job} /\ UNCHANGED posts
  /\ UNCHANGED <<service, job, future, workerVars, managerVars, delivered>>

PostStarted ==
  /\ at = "attached"
  /\ at' = "returned"
  /\ Post(<<"STARTED">>, job)
  /\ UNCHANGED <<service, job, futureVars, workerVars, managerVars, delivered>>

-----------------------------------------------------------------------------
(* The worker process. *)

MaxWorkers == 1

WorkerTakes == /\ alive /\ Cardinality(working) < MaxWorkers /\ waiting # <<>>
               /\ working' = working \cup {Head(waiting)}
               /\ waiting' = Tail(waiting)
               /\ UNCHANGED <<serviceVars, futureVars, alive, managerVars, eventVars>>

WorkerEnds(j, result) ==
  /\ alive /\ j \in working
  /\ working' = working \ {j}
  /\ results' = Append(results, [job |-> j, result |-> result])
  /\ UNCHANGED <<serviceVars, futureVars, waiting, alive, calling, broken, eventVars>>

WorkerDies == /\ alive
              /\ alive' = FALSE
              /\ UNCHANGED <<serviceVars, futureVars, waiting, working, managerVars,
                             eventVars>>

-----------------------------------------------------------------------------
(* The executor's manager thread. *)

SetResult ==
  /\ calling = Idle /\ results # <<>>
  /\ LET sent == Head(results)
     IN  /\ future' = [future EXCEPT ![sent.job] = sent.result]
         /\ calling' = sent.job
  /\ results' = Tail(results)
  /\ UNCHANGED <<serviceVars, attached, workerVars, broken, eventVars>>

DetectDeath ==
  /\ calling = Idle /\ results = <<>> /\ ~alive /\ ~broken
  /\ broken' = TRUE
  /\ UNCHANGED <<serviceVars, futureVars, workerVars, results, calling, eventVars>>

(* Every job without a result fails, oldest first. *)
FailPending ==
  /\ calling = Idle /\ broken
  /\ \E j \in Jobs :
        /\ future[j] = "pending"
        /\ \A i \in 1 .. j - 1 : future[i] # "pending"
        /\ future' = [future EXCEPT ![j] = "raised"]
        /\ calling' = j
  /\ UNCHANGED <<serviceVars, attached, workerVars, results, broken, eventVars>>

(* _on_parse_completed on the manager thread. *)
RunCallbacks ==
  /\ calling # Idle
  /\ calling' = Idle
  /\ IF calling \in attached THEN Post(Outcome(future[calling]), calling)
                             ELSE UNCHANGED posts
  /\ attached' = attached \ {calling}
  /\ UNCHANGED <<serviceVars, future, workerVars, results, broken, delivered>>

-----------------------------------------------------------------------------
(* The main dispatcher: posted calls run in the order they were posted. *)
Dispatch == /\ posts # <<>>
            /\ posts' = Tail(posts)
            /\ delivered' = Append(delivered, Head(posts))
            /\ UNCHANGED <<serviceVars, futureVars, workerVars, managerVars>>

Caller == AddDoneCallback \/ PostStarted
Worker == WorkerTakes \/ \E j \in Jobs, result \in Results : WorkerEnds(j, result)
Manager == SetResult \/ DetectDeath \/ FailPending \/ RunCallbacks

Next == Start \/ Stop \/ ParseLogFile \/ Caller \/ Worker \/ WorkerDies
        \/ Manager \/ Dispatch

(* A call that began goes on; the worker ends the file it parses unless it  *)
(* dies; the executor's and the dispatcher's threads run.                   *)
Fairness == WF_vars(Caller) /\ WF_vars(Worker) /\ WF_vars(Manager) /\ WF_vars(Dispatch)

Spec == Init /\ [][Next]_vars

FairSpec == Spec /\ Fairness

-----------------------------------------------------------------------------
Outcomes == {"DONE", "FAILED"}

(* Positions in delivered of a job's events with one of the statuses. *)
Seen(statuses, j) ==
  {n \in DOMAIN delivered : delivered[n].job = j /\ delivered[n].status \in statuses}

Statuses == Outcomes \cup {"STARTED"}
Events == [status : Statuses, job : Jobs]

(* Type invariant. *)
TypeOK ==
  /\ service \in {"RUNNING", "STOPPED"}
  /\ job \in 0 .. MaxJobs /\ at \in {"returned", "submitted", "attached"}
  /\ future \in [Jobs -> {"none", "pending", "refused"} \cup Results]
  /\ attached \subseteq Jobs
  /\ waiting \in Seq(Jobs) /\ working \subseteq Jobs /\ alive \in BOOLEAN
  /\ results \in Seq([job : Jobs, result : Results])
  /\ calling \in Jobs \cup {Idle} /\ broken \in BOOLEAN
  /\ posts \in Seq(Events) /\ delivered \in Seq(Events)
  /\ at # "returned" => job \in Jobs

(* The observers hear of the end of a job once, however the call, the       *)
(* completion and the death of the worker interleave.                       *)
AtMostOneOutcome ==
  \A j \in Jobs : \A m, n \in Seen(Outcomes, j) : m = n

(* DONE is told of a job only when the worker returned from it: the job in  *)
(* hand when the worker died, those behind it and those refused are not     *)
(* told as done.                                                            *)
DoneWasParsed ==
  \A j \in Jobs : Seen({"DONE"}, j) # {} => future[j] \in {"returned", "error code"}

(* A job the broken pool refused was never started: FAILED is all that is   *)
(* told of it.                                                              *)
RefusedNeverStarts ==
  \A j \in Jobs : future[j] = "refused" => Seen({"STARTED", "DONE"}, j) = {}

(* One worker, one manager and one queue of posts: when a job is told as    *)
(* done, the end of every earlier job has been told.                        *)
DoneInOrder ==
  \A j \in Jobs : \A n \in Seen({"DONE"}, j) : \A i \in 1 .. j - 1 :
     \E m \in Seen(Outcomes, i) : m < n

(* "detect the unexpected process died": every job that was called for has  *)
(* its end told, in particular the jobs a dying worker took with it.        *)
EveryJobEnds == \A j \in Jobs : job = j ~> Seen(Outcomes, j) # {}

(* A parse that returns an error code has failed and is not told as done. *)
ErrorCodeFails ==
  \A j \in Jobs : future[j] = "error code" => Seen({"DONE"}, j) = {}

=============================================================================
