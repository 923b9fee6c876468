-------------------------- MODULE DecodeScheduler ---------------------------
(***************************************************************************)
(* MessageDecoder (decode/decoder_manager.py): the queue of decode jobs and *)
(* the one worker process it spawns, kills and replaces.                    *)
(*                                                                         *)
(* A job is a (db_file_path, file_path) pair; NoJob stands for a pair with  *)
(* an empty path.  Commands check _started, then take _lock and keep it for *)
(* all their state changes.  Under it a command that finds the worker idle   *)
(* goes through the queue job by job, looks each decode up, tells its        *)
(* signals and reports it complete, all in steps of their own: the lock      *)
(* keeps other commands out, not the removals, which do not take it.  stop   *)
(* resets _started after it let go of the lock.  The worker process is not  *)
(* under the lock either.  The worker runtime and the repository of decoded  *)
(* files are not in the repository: they are modelled from the calls made    *)
(* here (spawn_decode, is_busy, kill, decode_mmaps_exist,                    *)
(* ensure_decoded_store, read_signal_pairs and the removals).                *)
(***************************************************************************)
EXTENDS Integers, FiniteSets, SequencesExt, Selections

CONSTANTS Jobs,            \* the valid (db_file_path, file_path) pairs
          NoJob,           \* a pair with an empty path; also "no decode"
          CountsAsDecoded, \* outputs for which decode_mmaps_exist is true
          MaxRequest,      \* bound: jobs in one command
          MaxCommands      \* bound: commands and removals

ASSUME SchedulerAssumption ==
  /\ NoJob \notin Jobs /\ IsFiniteSet(Jobs)
  /\ CountsAsDecoded \subseteq {"partial", "torn", "whole"}
  /\ "whole" \in CountsAsDecoded
  /\ MaxRequest \in Nat /\ MaxCommands \in Nat

VARIABLES
  started,   \* _started
  request,   \* the command between its check of _started and _lock
  stopping,  \* stop has let go of _lock and not reset _started
  pending,   \* _pending_jobs
  active,    \* _active_batch_jobs
  decoding,  \* (_decoding_db_file, _decoding_file), or NoJob
  known,     \* _known_decode_signals: signals last told, by job
  running,   \* worker processes: what is left of each one's batch
  output     \* decode mmaps on disk, by job: "none", "partial", "whole", or "torn",
             \* which were removed while a worker wrote them

(* The command that holds _lock and goes through the queue.                 *)
VARIABLES
  step,      \* "none", "look", "tell" or "complete"
  left,      \* jobs of the queue it has not looked at
  runnable,  \* those it found not to be decoded
  found      \* the decoded one it is at, or NoJob

(* History: the jobs the last command reported complete; the signal list     *)
(* last given to the observers; whether the repository had no store for the  *)
(* job found, or its decode was removed since; the number of commands.       *)
VARIABLES completed, shown, undone, commands

threadVars == <<started, request, stopping>>
schedulerVars == <<pending, active, decoding, known>>
workerVars == <<running, output>>
scanVars == <<step, left, runnable, found>>
historyVars == <<completed, shown, undone, commands>>
vars == <<threadVars, schedulerVars, workerVars, scanVars, historyVars>>

Request(command, jobs) == [command |-> command, jobs |-> jobs]
NoRequest == Request("none", <<>>)

(* cmd_decode and cmd_manual_decode submit one valid job. *)
Requests == {Request("discard", <<>>)} \cup
            [command : {"submit", "set"}, jobs : BoundedSeq(Jobs \cup {NoJob}, MaxRequest)]

(* read_signal_pairs: the signals a decode has produced so far. *)
SignalPairs(job) == CASE output[job] = "none" -> {}
                      [] output[job] = "partial" -> {1}
                      [] output[job] = "torn" -> {2}
                      [] output[job] = "whole" -> {1, 2}

Init == /\ started = FALSE /\ request = NoRequest /\ stopping = FALSE
        /\ pending = <<>> /\ active = <<>> /\ decoding = NoJob
        /\ known = [job \in Jobs |-> {}]
        /\ running = {} /\ output = [job \in Jobs |-> "none"]
        /\ step = "none" /\ left = <<>> /\ runnable = <<>> /\ found = NoJob
        /\ completed = <<>> /\ shown = [job \in Jobs |-> {}] /\ undone = FALSE
        /\ commands = 0

-----------------------------------------------------------------------------
(* Seeded faults: each replaces the definition of the model it is named     *)
(* after in one mutant run.                                                 *)

(* The runtime is not asked whether a worker still runs. *)
NeverBusy(alive) == FALSE

(* A job is not looked up on disk before it is spawned. *)
NothingDecoded(job) == FALSE

(* The jobs of the running batch are not looked at when jobs are queued. *)
NothingInFlight(batch) == {}

(* Discarding forgets the worker instead of killing it. *)
WithoutKill == /\ pending' = <<>> /\ active' = <<>> /\ completed' = <<>>
               /\ decoding' = NoJob
               /\ UNCHANGED <<running, known, output, scanVars, shown, undone>>

(* The signal list is refreshed only when observers know none yet. *)
TellOnce(told, job) == told[job] = {} /\ SignalPairs(job) # {}

-----------------------------------------------------------------------------
(* Scheduling, under the lock. *)

(* _normalize_jobs: no empty paths, each pair once, in the order given. *)
Normalize(jobs) == AddNew(<<>>, jobs, {NoJob})

DecodeExists(job) == job \in {j \in Jobs : output[j] \in CountsAsDecoded}

IsBusy(alive) == alive # {}

(* _update_decode_signal_list tells the observers when the list differs     *)
(* from the one it remembers.                                               *)
TellsSignals(told, job) == SignalPairs(job) # told[job]

(* The jobs a new job must not repeat. *)
InFlight(batch) == ToSet(batch) \cup ({decoding} \ {NoJob})

(* _maybe_spawn_pending_locked, up to its loop, on the queue and beside the  *)
(* workers that are left.                                                   *)
Schedule(queue, alive) ==
  /\ pending' = queue
  /\ IF IsBusy(alive) \/ queue = <<>> THEN UNCHANGED scanVars
     ELSE step' = "look" /\ left' = queue /\ UNCHANGED <<runnable, found>>

(* _enqueue_jobs_locked: an empty request returns before the queue is       *)
(* replaced.                                                                *)
Enqueue(jobs, replace, batch, alive) ==
  LET new == Normalize(jobs)
      old == IF replace THEN <<>> ELSE pending
  IN  IF new = <<>> THEN UNCHANGED <<pending, scanVars>>
      ELSE Schedule(AddNew(old, new, InFlight(batch)), alive)

(* The next job of the queue, at 274. *)
LookUp ==
  /\ step = "look" /\ left # <<>>
  /\ left' = Tail(left) /\ undone' = FALSE
  /\ IF DecodeExists(Head(left))
       THEN step' = "tell" /\ found' = Head(left) /\ UNCHANGED runnable
       ELSE runnable' = Append(runnable, Head(left)) /\ UNCHANGED <<step, found>>
  /\ UNCHANGED <<threadVars, schedulerVars, workerVars, completed, shown, commands>>

(* _update_decode_signal_list; it returns at once if there is no store.      *)
TellSignals ==
  /\ step = "tell" /\ step' = "complete"
  /\ \/ undone' = TRUE /\ UNCHANGED <<known, shown>>
     \/ /\ IF TellsSignals(known, found)
             THEN /\ known' = [known EXCEPT ![found] = SignalPairs(found)]
                  /\ shown' = [shown EXCEPT ![found] = SignalPairs(found)]
             ELSE UNCHANGED <<known, shown>>
        /\ UNCHANGED undone
  /\ UNCHANGED <<threadVars, pending, active, decoding, workerVars, left, runnable, found,
                 completed, commands>>

NotifyComplete ==
  /\ step = "complete" /\ step' = "look"
  /\ completed' = Append(completed, found) /\ found' = NoJob
  /\ UNCHANGED <<threadVars, schedulerVars, workerVars, left, runnable, shown, undone,
                 commands>>

(* Behind the loop: the jobs that are not decoded become a worker's batch.   *)
SpawnDecode ==
  /\ step = "look" /\ left = <<>>
  /\ step' = "none" /\ pending' = <<>> /\ runnable' = <<>>
  /\ IF runnable = <<>> THEN UNCHANGED <<active, decoding, running>>
     ELSE active' = runnable /\ decoding' = NoJob /\ running' = running \cup {runnable}
  /\ UNCHANGED <<threadVars, known, output, left, found, historyVars>>

(* _reset_active_decode_state(remove_partial_decode=True): it removes the   *)
(* output and forgets the signals of the decode it knows of.                *)
Reset(of, none) == IF decoding = NoJob THEN of ELSE [of EXCEPT ![decoding] = none]

-----------------------------------------------------------------------------
(* Commands. *)

Command == /\ commands < MaxCommands
           /\ commands' = commands + 1

Admit(r) == /\ Command
            /\ started
            /\ request = NoRequest /\ request' = r
            /\ UNCHANGED <<started, stopping, schedulerVars, workerVars, scanVars, completed,
                           shown, undone>>

(* A command gets the lock. *)
Locked(command) ==
  /\ step = "none"
  /\ request.command = command /\ request' = NoRequest
  /\ completed' = <<>>
  /\ UNCHANGED <<started, stopping, shown, undone, commands>>

SubmitDecodeJobs ==
  /\ Locked("submit")
  /\ Enqueue(request.jobs, FALSE, active, running)
  /\ UNCHANGED <<active, decoding, known, workerVars>>

(* cmd_set_decode_jobs: kill, reset, then queue in place of the old jobs. *)
SetDecodeJobs ==
  /\ Locked("set")
  /\ Enqueue(request.jobs, TRUE, <<>>, {})
  /\ active' = <<>> /\ running' = {} /\ decoding' = NoJob
  /\ known' = Reset(known, {})
  /\ output' = Reset(output, "none")

(* No worker, no batch, no queue. *)
Discard == /\ pending' = <<>> /\ active' = <<>> /\ running' = {}
           /\ decoding' = NoJob
           /\ known' = Reset(known, {})
           /\ output' = Reset(output, "none")
           /\ completed' = <<>>
           /\ UNCHANGED <<scanVars, shown, undone>>

DiscardDecode == Locked("discard") /\ Discard

Start == /\ ~started
         /\ started' = TRUE
         /\ UNCHANGED <<request, stopping, schedulerVars, workerVars, scanVars, historyVars>>

Stop == /\ started /\ ~stopping /\ step = "none"
        /\ Command
        /\ stopping' = TRUE
        /\ Discard
        /\ UNCHANGED <<started, request>>

Stopped == /\ stopping
           /\ started' = FALSE /\ stopping' = FALSE
           /\ UNCHANGED <<request, schedulerVars, workerVars, scanVars, historyVars>>

(* remove_decode_folder and remove_log_decode_mmaps take no lock, and nothing *)
(* keeps them from what a worker is writing: it goes on, and what it leaves   *)
(* is torn.                                                                  *)
Writing(job) == \E batch \in running : Head(batch) = job /\ output[job] # "none"

RemoveDecodes(jobs) ==
  /\ Command
  /\ output' = [job \in Jobs |-> CASE job \notin jobs -> output[job]
                                   [] job \in jobs /\ Writing(job) -> "torn"
                                   [] job \in jobs /\ ~Writing(job) -> "none"]
  /\ undone' = (undone \/ found \in jobs)
  /\ UNCHANGED <<threadVars, schedulerVars, running, scanVars, completed, shown>>

-----------------------------------------------------------------------------
(* The worker processes. *)

Begin(batch) == /\ output[Head(batch)] = "none"
                /\ output' = [output EXCEPT ![Head(batch)] = "partial"]
                /\ UNCHANGED <<running, threadVars, schedulerVars, scanVars, historyVars>>

(* A torn output may be one of an earlier worker, and is made whole again.    *)
Finish(batch) ==
  /\ output[Head(batch)] # "none"
  /\ \E remains \in {"torn", "whole"} :
       /\ remains = "torn" => output[Head(batch)] = "torn"
       /\ output' = [output EXCEPT ![Head(batch)] = remains]
  /\ running' = (running \ {batch}) \cup ({Tail(batch)} \ {<<>>})
  /\ UNCHANGED <<threadVars, schedulerVars, scanVars, historyVars>>

Work == \E batch \in running : Begin(batch) \/ Finish(batch)

(* A worker dies: nobody clears the batch it had. *)
WorkerDies == /\ \E batch \in running : running' = running \ {batch}
              /\ UNCHANGED <<threadVars, schedulerVars, output, scanVars, historyVars>>

UnderLock == \/ SubmitDecodeJobs \/ SetDecodeJobs \/ DiscardDecode
             \/ LookUp \/ TellSignals \/ NotifyComplete \/ SpawnDecode

Application == \/ Start \/ Stop \/ Stopped
               \/ \E r \in Requests : Admit(r)
               \/ \E jobs \in SUBSET Jobs : RemoveDecodes(jobs)

Next == Application \/ UnderLock \/ Work \/ WorkerDies

Spec == Init /\ [][Next]_vars

(* Workers that never die and always get on with their batch; a command     *)
(* that was admitted gets the lock; further commands are not owed to        *)
(* anybody.                                                                 *)
ReliableSpec == /\ Init /\ [][Application \/ UnderLock \/ Work]_vars
                /\ WF_vars(Work) /\ WF_vars(UnderLock)

-----------------------------------------------------------------------------
(* Invariant 2 of the class: at most one decode runs at any time, through   *)
(* kills, deaths and replacements of the worker.                            *)
AtMostOneDecode == Cardinality(running) <= 1

(* A job waits at most once and never behind its own decode: neither the    *)
(* queue nor the batch repeats a job, and while a worker runs no job of its *)
(* batch is queued again.                                                   *)
QueuedOnce ==
  /\ Cardinality(ToSet(pending)) = Len(pending)
  /\ Cardinality(ToSet(active)) = Len(active)
  /\ \A batch \in running : /\ ToSet(batch) \subseteq ToSet(active)
                            /\ ToSet(batch) \cap ToSet(pending) = {}

(* Invariant 1 of the class: a worker is never given a job whose decode is  *)
(* already on disk, whatever was queued, killed or removed before.          *)
NeverRedecoded ==
  [][step # step' =>
        \A batch \in running' \ running : \A n \in DOMAIN batch :
           output[batch[n]] \notin CountsAsDecoded]_vars

(* When a job is reported complete the observers have the signals that are   *)
(* on disk for it, however often it was removed, killed or decoded again     *)
(* before: only a removal since it was looked up, or a store that was not    *)
(* there, leaves them with an older list.                                   *)
SignalsBeforeComplete ==
  [][Len(completed') > Len(completed) =>
        LET job == completed'[Len(completed')]
        IN undone \/ shown[job] = SignalPairs(job)]_vars

(* What the worker process has left to decode. *)
Worker == IF running = {} THEN <<>> ELSE CHOOSE batch \in running : TRUE

(* What a command that goes through the queue has still to serve.            *)
Waiting == IF step = "none" THEN pending ELSE runnable \o left

Abstract == INSTANCE DecodeQueue WITH
  waiting <- Waiting, batch <- Worker, last <- InFlight(active),
  told <- ToSet(completed) \cup ({found} \ {NoJob}), serving <- step # "none"

(* Seen from outside a command is one step of the abstract queue and the      *)
(* service that follows it if no worker runs, which no other command comes    *)
(* between: jobs wait once and in order, those on disk are told complete, one *)
(* worker at a time is given all others, and none asked for is lost that was  *)
(* not in the last batch.                                                    *)
ImplementsQueue == Abstract!Spec

(* Invariant 3 of the class says that discarding an in-flight decode cleans *)
(* up its partial output: a partial output is one a worker is writing.      *)
NoOrphanedPartial ==
  \A job \in Jobs : output[job] = "partial" =>
     \E batch \in running : job = Head(batch)

(* cmd_set_decode_jobs "Replace[s the] queue [...] and decode[s]            *)
(* sequentially": a queued job leaves the queue.                            *)
QueueIsServed == \A job \in Jobs : Contains(pending, job) ~> ~Contains(pending, job)

(* "MessageDecoder must be started before scheduling decode work": a worker *)
(* is spawned only while the decoder is started.                            *)
NoDecodeUnlessStarted == [][running' \subseteq running \/ started \/ Work]_vars

=============================================================================
