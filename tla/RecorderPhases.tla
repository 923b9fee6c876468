---------------------------- MODULE RecorderPhases ----------------------------
(***************************************************************************)
(* The life of a recorder process (recorder/rcd_process.py:34-71) as far as  *)
(* others can tell: what Recording, which Recorder is proved to implement,   *)
(* and the recorders of RecordingService have in common.                     *)
(*                                                                         *)
(* "starting" until the writer is open, "polling" in the loop, "draining"    *)
(* once the stop event was seen, "drained" when what was in the ring then is *)
(* written, "stopped" when that is said, "failed" when it will not be,       *)
(* "exited" at the end of the process, however it came.                      *)
(***************************************************************************)

Move(from, to) == [from |-> from, to |-> to]

Beginning == Move({"starting"}, "polling")
SeeingStop == Move({"polling"}, "draining")
Draining == Move({"draining"}, "drained")
SayingStopped == Move({"drained"}, "stopped")

(* The except clause. *)
Failing == Move({"polling", "draining", "drained"}, "failed")
Closing == Move({"stopped", "failed"}, "exited")

(* A kill, or a reader or writer that cannot be opened. *)
Dying == Move({"starting", "polling", "draining", "drained", "stopped", "failed"}, "exited")

=============================================================================
