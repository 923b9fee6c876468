---------------------------- MODULE StatusChannels ----------------------------
(***************************************************************************)
(* StatusChannel and the event loop's dispatcher, as FileService and its    *)
(* worker processes call them (file_service.py:257, 283, 316, 463, 479;      *)
(* mc_send in rcd_process.py and decode_process.py, signal in               *)
(* decode_source.py:139).  Both are outside the repository.                  *)
(*                                                                         *)
(* "status + wakeup": a channel is one shared cell and a wakeup.  A status   *)
(* that is sent replaces the one before it, and the callback is given what   *)
(* the cell holds when it runs.  detach names no channel: it takes off       *)
(* whatever the dispatcher holds, and a wakeup may or may not outlive it.    *)
(***************************************************************************)
EXTENDS Integers

Channels == {"recorder", "decoder"}

VARIABLES cell,     \* by channel: the last status sent
          woken,    \* channels with a wakeup nobody has answered
          attached  \* channels whose callback the dispatcher holds

channelVars == <<cell, woken, attached>>

(* StatusChannel(int(RecorderStatus.STOPPED)), StatusChannel(int(-1)). *)
ChannelsInit == /\ cell = [c \in Channels |-> IF c = "recorder" THEN "STOPPED" ELSE "none"]
                /\ woken = {} /\ attached = {}

(* mc_send, in a worker process. *)
Send(c, status) == /\ cell' = [cell EXCEPT ![c] = status]
                   /\ woken' = woken \cup {c}
                   /\ UNCHANGED attached

(* signal: a wakeup without a status. *)
Signal(c) == woken' = woken \cup {c} /\ UNCHANGED <<cell, attached>>

Attach(c) == attached' = attached \cup {c} /\ UNCHANGED <<cell, woken>>

(* What is left after wakeups were answered. *)
Detach(answered) == /\ attached' = {}
                    /\ woken' \in SUBSET (woken \ answered)
                    /\ UNCHANGED cell

(* The dispatcher calls back: the callback then detaches, or not. *)
Wakes(c) == c \in woken \cap attached
Answer(c, thenDetach) ==
  IF thenDetach THEN Detach({c})
                ELSE woken' = woken \ {c} /\ UNCHANGED <<cell, attached>>

=============================================================================
