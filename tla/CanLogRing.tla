----------------------------- MODULE CanLogRing -----------------------------
(***************************************************************************)
(* The shared-memory CAN ring of repository/file_handler/ring_handler.py:  *)
(* one producer process, readers that attach by name.  The header holds a  *)
(* monotonic write index; entry i lives in slot i % CAPACITY.  Nothing in   *)
(* the header tells the producer where a reader is, so a write never waits. *)
(*                                                                         *)
(* A frame is named by the index under which it was written.  NoFrame       *)
(* stands for bytes that are no frame: the zeroed payload of a new ring,    *)
(* and an entry the producer is in the middle of overwriting (the copy of   *)
(* ENTRY_SIZE bytes is not atomic for another process).                     *)
(***************************************************************************)
EXTENDS Integers, Sequences

CONSTANTS Capacity,   \* CAPACITY: the number of slots
          MaxFrames,  \* bound: the producer writes at most this many frames
          NoFrame     \* the content of a slot that holds no whole frame

ASSUME RingAssumption == /\ Capacity \in Nat \ {0}
                         /\ MaxFrames \in Nat
                         /\ NoFrame \notin Int

VARIABLES write_idx,  \* RingHeader.write_idx
          slots,      \* the payload area, by slot number
          producer    \* where the producer is inside write()

ringVars == <<write_idx, slots, producer>>

Frames == Nat
SlotNumbers == 0 .. Capacity - 1

(* slot = idx % CAPACITY, shared by write and read_by_index. *)
SlotOf(i) == i % Capacity

RingInit == /\ write_idx = 0
            /\ slots = [s \in SlotNumbers |-> NoFrame]
            /\ producer = "idle"

-----------------------------------------------------------------------------
(* CanLogRingHandler.write, in the steps another process can tell apart. *)

(* The header is read and the entry's bytes start to change. *)
BeginEntry == /\ producer = "idle"
              /\ write_idx < MaxFrames
              /\ slots' = [slots EXCEPT ![SlotOf(write_idx)] = NoFrame]
              /\ producer' = "packing"
              /\ UNCHANGED write_idx

(* pack is complete: the slot holds the whole frame. *)
EndEntry == /\ producer = "packing"
            /\ slots' = [slots EXCEPT ![SlotOf(write_idx)] = write_idx]
            /\ producer' = "packed"
            /\ UNCHANGED write_idx

(* write_header(idx + 1): the frame is published. *)
PublishHeader == /\ producer = "packed"
                 /\ write_idx' = write_idx + 1
                 /\ producer' = "idle"
                 /\ UNCHANGED slots

(* read_by_index(i): whatever the slot of index i holds now. *)
ReadByIndex(i) == slots[SlotOf(i)]

RingTypeOK == /\ write_idx \in Nat
              /\ slots \in [SlotNumbers -> Frames \cup {NoFrame}]
              /\ producer \in {"idle", "packing", "packed"}

=============================================================================
