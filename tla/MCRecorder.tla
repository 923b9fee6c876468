----------------------------- MODULE MCRecorder -----------------------------
(***************************************************************************)
(* TLC instances of Recorder.  Two slots and four or five frames let the    *)
(* producer lap the recorder twice, before and after it attaches.           *)
(***************************************************************************)
EXTENDS RecorderInvariant

=============================================================================
