----------------------------- MODULE Recording ------------------------------
(***************************************************************************)
(* What a recording promises to whoever reads its file or is told of it,     *)
(* without the ring, the reader's index or the writer's batches.  Frames are *)
(* published one after the other; a recording that begins at frame `first'   *)
(* is a tape that only grows at its end, and only from the first status to   *)
(* the end of the drain; as long as the recorder was not lapped the tape is  *)
(* first, first + 1, ... without a gap; the drain begins only after a stop,  *)
(* and a recording that says STOPPED holds every frame published before it.  *)
(***************************************************************************)
EXTENDS Integers, Sequences, RecorderPhases

CONSTANT NoFrame  \* what a lapped recorder may put on the tape

VARIABLES published,  \* number of frames published so far
          first,      \* the frame this recording begins with
          tape,       \* the frames recorded
          stopping,   \* a stop was requested
          stopped_at, \* number of frames published then
          lapped,     \* the producer has overtaken the recorder
          phase,      \* see RecorderPhases
          sent        \* statuses told, in order

tapeVars == <<published, first, tape, stopping, stopped_at, lapped, phase, sent>>
stopVars == <<stopping, stopped_at>>

Init == /\ published = 0 /\ first = 0 /\ tape = <<>>
        /\ stopping = FALSE /\ stopped_at = 0 /\ lapped = FALSE
        /\ phase = "starting" /\ sent = <<>>

Publish == /\ published' = published + 1
           /\ UNCHANGED <<first, tape, stopVars, lapped, phase, sent>>

Overtake == /\ phase \in {"starting", "polling", "draining"}
            /\ lapped' = TRUE
            /\ UNCHANGED <<published, first, tape, stopVars, phase, sent>>

RequestStop == /\ ~stopping
               /\ stopping' = TRUE /\ stopped_at' = published
               /\ UNCHANGED <<published, first, tape, lapped, phase, sent>>

-----------------------------------------------------------------------------
Step(move) == phase \in move.from /\ phase' = move.to

Tell(status) == sent' = Append(sent, status)

Attach == /\ phase = "starting"
          /\ first' = published
          /\ UNCHANGED <<published, tape, stopVars, lapped, phase, sent>>

Begin == /\ Step(Beginning) /\ Tell("WAIT_RING")
         /\ UNCHANGED <<published, first, tape, stopVars, lapped>>

(* The tape grows at its end, by frames already published: the next ones,   *)
(* unless the recorder was lapped.                                          *)
Record == /\ phase \in {"polling", "draining"}
          /\ Len(tape') >= Len(tape)
          /\ first + Len(tape') <= published
          /\ \A n \in 1 .. Len(tape) : tape'[n] = tape[n]
          /\ ~lapped => \A n \in Len(tape) + 1 .. Len(tape') :
                           tape'[n] = first + n - 1
          /\ UNCHANGED <<published, first, stopVars, lapped, sent>>

Write == Record /\ UNCHANGED phase

SeeStop == /\ stopping /\ Step(SeeingStop)
           /\ UNCHANGED <<published, first, tape, stopVars, lapped, sent>>

(* The end of the drain is told if it wrote anything. *)
Drain == /\ Step(Draining)
         /\ first + Len(tape) >= stopped_at
         /\ Tell("WRITE_BATCH") \/ UNCHANGED sent
         /\ UNCHANGED <<published, first, tape, stopVars, lapped>>

SayStopped == /\ Step(SayingStopped) /\ Tell("STOPPED")
              /\ UNCHANGED <<published, first, tape, stopVars, lapped>>

(* A failed write may leave part of its batch behind, and nothing is told. *)
Fail == Step(Failing) /\ Record

Close == /\ Step(Closing)
         /\ UNCHANGED <<published, first, tape, stopVars, lapped, sent>>

Die == /\ Step(Dying)
       /\ UNCHANGED <<published, first, tape, stopVars, lapped, sent>>

Next == \/ Publish \/ Overtake \/ RequestStop
        \/ Attach \/ Begin \/ Write \/ SeeStop \/ Drain \/ SayStopped
        \/ Fail \/ Close \/ Die

Spec == Init /\ [][Next]_tapeVars

=============================================================================
