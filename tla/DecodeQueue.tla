----------------------------- MODULE DecodeQueue -----------------------------
(***************************************************************************)
(* What the decode scheduler promises to those who ask for decodes, without  *)
(* its lock and its lists: jobs wait once, in the order they were asked for; *)
(* if no worker runs a command is served before the next one comes: jobs on  *)
(* disk are told complete, and one worker is given all others and works on   *)
(* one after the other.  A job asked for is waiting, with the worker, or     *)
(* told complete, unless it was in the last batch: whatever became of that,  *)
(* it is not taken again.                                                    *)
(***************************************************************************)
EXTENDS SequencesExt

CONSTANTS Jobs, CountsAsDecoded  \* see DecodeScheduler

VARIABLES waiting,  \* jobs that wait for the worker to end
          batch,    \* what the worker has left to decode; <<>> if there is none
          last,     \* the jobs of the last batch
          told,     \* the jobs told complete since the last command
          serving,  \* whether the jobs that wait are being served
          output    \* what is on disk of each job

queueVars == <<waiting, batch, last, told, serving, output>>

OnDisk == {job \in Jobs : output[job] \in CountsAsDecoded}

Init == /\ waiting = <<>> /\ batch = <<>> /\ last = {} /\ told = {}
        /\ serving = FALSE /\ output = [job \in Jobs |-> "none"]

-----------------------------------------------------------------------------
(* What was asked for before comes first, in the order it had. *)
InOrder(list, before) ==
  \A m, n \in DOMAIN list : \A k \in DOMAIN before :
    m < n /\ list[n] = before[k] => \E i \in DOMAIN before : i < k /\ list[m] = before[i]

Lists(list, jobs, before) ==
  IsInjective(list) /\ ToSet(list) = jobs /\ InOrder(list, before)

(* A command comes when the one before is served. *)
Command == ~serving /\ told' = {} /\ UNCHANGED output

(* Those of the last batch do not wait again.  With no worker all are served. *)
Submit(jobs) ==
  /\ Command
  /\ Lists(waiting', ToSet(waiting) \cup (jobs \ last), waiting)
  /\ serving' = (batch = <<>> /\ waiting' # <<>>)
  /\ UNCHANGED <<batch, last>>

(* The worker is killed, and its output stays as it is. *)
NoWorker == batch' = <<>> /\ last' = {}

Replace(jobs) == /\ Command /\ NoWorker
                 /\ Lists(waiting', jobs, <<>>) /\ serving' = TRUE

(* No valid job is no command, except for the worker. *)
SubmitNothing == Command /\ UNCHANGED <<waiting, batch, last, serving>>

ReplaceByNothing == Command /\ NoWorker /\ UNCHANGED <<waiting, serving>>

Discard == Command /\ NoWorker /\ waiting' = <<>> /\ serving' = FALSE

-----------------------------------------------------------------------------
(* A job that is on disk waits no more. *)
Find == /\ serving
        /\ \E n \in DOMAIN waiting : /\ waiting[n] \in OnDisk
                                    /\ told' = told \cup {waiting[n]}
                                    /\ waiting' = RemoveAt(waiting, n)
        /\ UNCHANGED <<batch, last, serving, output>>

(* To a new worker, when none of them is. *)
Give == /\ serving /\ ToSet(waiting) \cap OnDisk = {}
        /\ batch' = waiting /\ waiting' = <<>> /\ serving' = FALSE
        /\ last' = IF waiting = <<>> THEN last ELSE ToSet(waiting)
        /\ UNCHANGED <<told, output>>

-----------------------------------------------------------------------------
Written(job) == batch # <<>> /\ Head(batch) = job /\ output[job] # "none"

(* At any time, also under the worker that writes it. *)
Erase(jobs) ==
  /\ output' = [job \in Jobs |-> IF job \notin jobs THEN output[job]
                                 ELSE IF Written(job) THEN "torn" ELSE "none"]
  /\ UNCHANGED <<waiting, batch, last, told, serving>>

Begin == /\ batch # <<>> /\ output[Head(batch)] = "none"
         /\ output' = [output EXCEPT ![Head(batch)] = "partial"]
         /\ UNCHANGED <<waiting, batch, last, told, serving>>

Finish == /\ batch # <<>> /\ output[Head(batch)] # "none"
          /\ \E remains \in {"torn", "whole"} :
               /\ remains = "torn" => output[Head(batch)] = "torn"
               /\ output' = [output EXCEPT ![Head(batch)] = remains]
          /\ batch' = Tail(batch)
          /\ UNCHANGED <<waiting, last, told, serving>>

Die == batch' = <<>> /\ UNCHANGED <<waiting, last, told, serving, output>>

Next == \/ \E jobs \in (SUBSET Jobs) \ {{}} : Submit(jobs) \/ Replace(jobs)
        \/ \E jobs \in SUBSET Jobs : Erase(jobs)
        \/ SubmitNothing \/ ReplaceByNothing \/ Discard \/ Find \/ Give
        \/ Begin \/ Finish \/ Die

Spec == Init /\ [][Next]_queueVars

=============================================================================
