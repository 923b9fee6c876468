--------------------------- MODULE RecordingService ---------------------------
(***************************************************************************)
(* Recordings of FileService (file_service.py:88-97, 273-318, 446-467): one  *)
(* stop event and one status channel for all recorder processes, a handle    *)
(* for the last one, and a stop that waits a second for it.                  *)
(*                                                                         *)
(* The calls and callbacks of the service run on one thread, main; the join  *)
(* blocks it.  A recorder is a phase, which goes through the moves that the   *)
(* detailed Recorder is proved to make.                                      *)
(***************************************************************************)
EXTENDS StatusChannels, RecorderPhases

CONSTANTS MaxRecordings,  \* bound: recordings started
          MaxCalls        \* bound: calls of the application

ASSUME RecordingAssumption == MaxRecordings \in Nat /\ MaxCalls \in Nat

Recordings == 1 .. MaxRecordings
None == 0

VARIABLES
  service,  \* BaseService.state
  main,     \* what the service's thread is in
  calls,    \* calls made by the application
  stop,     \* _recorder_stop
  proc,     \* _recorder_proc
  active,   \* _active_recording_log_id
  phase     \* recorder processes, by recording

(* History: the recorders alive when a stop was asked for; the recorders     *)
(* that said STOPPED; those the service let go of while they worked; whether *)
(* the service was started with a recorder alive.                            *)
VARIABLES asked, said, forgotten, restarted

serviceVars == <<service, main, calls>>
handleVars == <<proc, active>>
askedVars == <<asked, forgotten, restarted>>
recordingVars == <<stop, handleVars, phase, askedVars, said>>

Started == {r \in Recordings : phase[r] # "none"}
Alive(r) == phase[r] \notin {"none", "exited"}
(* Before the recorder has said STOPPED or failed. *)
Working(r) == phase[r] \in {"starting", "polling", "draining", "drained"}

RecordingInit ==
  /\ service = "STOPPED" /\ main = "loop" /\ calls = 0
  /\ stop = FALSE /\ proc = None /\ active = None
  /\ phase = [r \in Recordings |-> "none"]
  /\ asked = {} /\ said = {} /\ forgotten = {} /\ restarted = FALSE

-----------------------------------------------------------------------------
(* Seeded faults: each replaces the definition of the model it is named      *)
(* after in one mutant run.                                                  *)

(* start_recording does not ask whether the last recorder is alive. *)
AlwaysMayStart == TRUE

(* The last recorder counts as stopped when the join returns. *)
JoinMeansDead(r) == FALSE

(* Any status ends the recording. *)
EndsOnAny(status) == TRUE

(* STOPPED is only passed on to the observers. *)
EndsOnNothing(status) == FALSE

-----------------------------------------------------------------------------
(* The service's thread.                                                     *)

Call == /\ main = "loop" /\ calls < MaxCalls /\ calls' = calls + 1

(* start: _do_start clears the stop event, whoever still listens to it. *)
StartService ==
  /\ main = "loop" /\ service = "STOPPED"
  /\ service' = "RUNNING"
  /\ stop' = FALSE
  /\ restarted' = (restarted \/ \E r \in Recordings : Alive(r))
  /\ UNCHANGED <<main, calls, handleVars, phase, asked, forgotten, said, channelVars>>

(* The return None of start_recording, negated. *)
MayStart == proc \notin {r \in Recordings : Alive(r)}

(* _spawn_process *)
Spawn(r) == phase' = [phase EXCEPT ![r] = "starting"]

StartRecording ==
  /\ service = "RUNNING" /\ Call /\ MayStart
  /\ \E r \in Recordings :
        /\ phase[r] = "none" /\ \A s \in 1 .. r - 1 : phase[s] # "none"
        /\ Attach("recorder")
        /\ active' = r /\ proc' = r
        /\ stop' = FALSE
        /\ Spawn(r)
  /\ UNCHANGED <<service, main, askedVars, said>>

(* The end of stop_recording when no process is left. *)
LetGo == proc' = None /\ active' = None /\ Detach({})

(* stop_recording, and _do_stop, which ends with it: up to the join. *)
StopRecording(whole) ==
  /\ whole => service = "RUNNING"
  /\ Call
  /\ stop' = TRUE
  /\ asked' = asked \cup {r \in Recordings : Alive(r)}
  /\ IF proc = None
       THEN /\ LetGo
            /\ main' = "loop"
            /\ service' = IF whole THEN "STOPPED" ELSE service
       ELSE /\ main' = IF whole THEN "joining to stop" ELSE "joining"
            /\ UNCHANGED <<service, handleVars, channelVars>>
  /\ UNCHANGED <<phase, forgotten, restarted, said>>

(* is_alive after the join. *)
StillAlive(r) == Alive(r)

(* The join returns: the process has ended, or the second is over. *)
Joined ==
  /\ main \in {"joining", "joining to stop"}
  /\ IF StillAlive(proc) THEN UNCHANGED <<handleVars, channelVars>> ELSE LetGo
  /\ service' = IF main = "joining to stop" THEN "STOPPED" ELSE service
  /\ main' = "loop"
  /\ UNCHANGED <<calls, stop, phase, askedVars, said>>

Ends(status) == status = "STOPPED"

(* on_recorder_callback *)
OnRecorderStatus ==
  /\ main = "loop" /\ Wakes("recorder")
  /\ Answer("recorder", Ends(cell["recorder"]))
  /\ IF Ends(cell["recorder"])
       THEN /\ proc' = None /\ active' = None
            /\ forgotten' = forgotten \cup {r \in {proc} : r # None /\ Working(r)}
       ELSE UNCHANGED <<handleVars, forgotten>>
  /\ UNCHANGED <<serviceVars, stop, phase, asked, restarted, said>>

-----------------------------------------------------------------------------
(* Recorder processes (recorder/rcd_process.py:34-71).                        *)

Step(r, move) == phase[r] \in move.from /\ phase' = [phase EXCEPT ![r] = move.to]

Begin(r) == Step(r, Beginning) /\ Send("recorder", "WAIT_RING") /\ UNCHANGED said

SeeStop(r) == stop /\ Step(r, SeeingStop) /\ UNCHANGED <<said, channelVars>>

(* _write_batch reports if anything was left in the ring. *)
Drain(r) == /\ Step(r, Draining)
            /\ Send("recorder", "WRITE_BATCH") \/ UNCHANGED channelVars
            /\ UNCHANGED said

SayStopped(r) == Step(r, SayingStopped) /\ Send("recorder", "STOPPED")
                 /\ said' = said \cup {r}

(* The except clause: no status. *)
Fail(r) == Step(r, Failing) /\ UNCHANGED <<said, channelVars>>

Close(r) == Step(r, Closing) /\ UNCHANGED <<said, channelVars>>

(* A kill, or a reader or writer that cannot be opened. *)
Kill(r) == Step(r, Dying) /\ UNCHANGED <<said, channelVars>>

Recorder(r) == /\ Begin(r) \/ SeeStop(r) \/ Drain(r) \/ SayStopped(r) \/ Close(r)
               /\ UNCHANGED <<serviceVars, stop, handleVars, askedVars>>

RecorderFails(r) == /\ Fail(r) \/ Kill(r)
                    /\ UNCHANGED <<serviceVars, stop, handleVars, askedVars>>

RecordingNext ==
  \/ StartService \/ StartRecording \/ Joined \/ OnRecorderStatus
  \/ \E whole \in BOOLEAN : StopRecording(whole)
  \/ \E r \in Recordings : Recorder(r) \/ RecorderFails(r)

(* The join is bounded by its timeout, the event loop runs, and recorders    *)
(* that are not killed run.                                                  *)
RecordingFairness ==
  /\ WF_<<recordingVars, serviceVars, channelVars>>(Joined)
  /\ WF_<<recordingVars, serviceVars, channelVars>>(OnRecorderStatus)
  /\ \A r \in Recordings : WF_<<recordingVars, serviceVars, channelVars>>(Recorder(r))

-----------------------------------------------------------------------------
(* One recorder at a time takes frames from the ring: start_recording lets   *)
(* no second one begin, except beside one that the service was made to       *)
(* forget while it worked.                                                   *)
OneRecorder ==
  \A r, s \in Recordings : Working(r) /\ Working(s) /\ r # s => forgotten \cap {r, s} # {}

(* A recorder is let go of while it works only through the STOPPED of an      *)
(* earlier one, whose wakeup was left in the channel.                        *)
ForgottenByEarlierStop == \A r \in forgotten : \E s \in said : s < r

(* A recorder that said STOPPED is let go of by the event loop: it is still   *)
(* held only with the wakeup to come, with the channel detached, or after a   *)
(* forgotten recorder wrote over its status.                                 *)
StoppedIsNoticed ==
  main = "loop" /\ proc \in said =>
    Wakes("recorder") \/ "recorder" \notin attached \/ forgotten # {}

(* A stop reaches every recorder that was alive when it was asked for, the   *)
(* ones that outlive the join included, unless the service is started over   *)
(* it (its _do_start clears the event) or had forgotten it.                  *)
StopEndsRecordings ==
  \A r \in Recordings : r \in asked ~> ~Alive(r) \/ restarted \/ r \in forgotten

=============================================================================
