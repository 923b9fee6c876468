------------------------- MODULE RecorderInvariant --------------------------
(***************************************************************************)
(* Why the recorder is right: the strengthening of Recorder's invariants    *)
(* that its own steps preserve.  TLC checks it on the small instances,      *)
(* RecorderProofs proves it for every Capacity and MaxFrames.               *)
(***************************************************************************)
EXTENDS Recorder

(* The reader never passes the header, nor the batch it has promised to     *)
(* copy.                                                                    *)
IndexInv == /\ read_idx <= write_idx
            /\ pc = "read" => /\ read_idx + count <= write_idx
                              /\ Len(batch) <= count

(* Frames that have left the ring and are not in the file yet. *)
Held == IF pc = "write" THEN Len(batch) ELSE 0

Unharmed == pc \notin {"close", "exited", "dead"} \/ Reported("STOPPED")

(* Every frame since the attach is in the file, in the batch at hand, or    *)
(* still in the ring; and no counter runs ahead of the file.                *)
AccountInv == /\ pc = "attach" => log = <<>> /\ frames_written = 0
              /\ Unharmed => /\ first + Len(log) + Held = read_idx
                             /\ frames_written = Len(log)
              /\ state_file <= frames_written
              /\ frames_written <= Len(log)

(* What the stop has promised, statement by statement until STOPPED. *)
DrainInv == /\ due <= write_idx
            /\ draining => stop_event
            /\ pc \in {"attach", "open", "loop", "poll"} => ~draining
            /\ pc \in {"drain", "report", "announce"} => draining
            /\ draining /\ pc \in {"take", "read"} =>
                  /\ due <= read_idx + count
                  /\ read_idx + count <= write_idx
            /\ draining /\ pc \in {"write", "save", "report", "announce"} =>
                  due <= read_idx
            /\ Reported("STOPPED") => /\ pc \in {"close", "exited", "dead"}
                                      /\ stop_event
                                      /\ due <= read_idx

(* Until the drain has written, WAIT_RING is the status that was told last.  *)
StatusInv == pc \notin {"announce", "close", "exited", "dead"} =>
                current_status = "WAIT_RING"

(* The ring holds the last Capacity frames, less the one being replaced. *)
RingInv == /\ \A i \in 0 .. write_idx - 1 :
                 /\ write_idx - Capacity <= i
                 /\ producer = "idle" \/ i # write_idx - Capacity
                 => slots[SlotOf(i)] = i
           /\ producer = "packed" => slots[SlotOf(write_idx)] = write_idx

(* Until it is lapped, the recorder's next frame is one the ring holds, and *)
(* what it has copied is in order.                                          *)
OrderInv == ~overrun =>
              /\ StillReading =>
                   /\ write_idx - Capacity <= Cursor
                   /\ producer # "idle" => write_idx - Capacity # Cursor
              /\ pc = "read" =>
                   \A n \in 1 .. Len(batch) : batch[n] = read_idx + n - 1
              /\ pc = "write" =>
                   \A n \in 1 .. Len(batch) :
                      batch[n] = read_idx - Len(batch) + n - 1
              /\ FramesInOrder

(* A frame that stands in for frame i is no older than i and shares its     *)
(* slot.                                                                    *)
Fresh(frame, i) == \/ frame = NoFrame
                   \/ frame >= i /\ SlotOf(frame) = SlotOf(i)

FreshInv == /\ \A i \in 0 .. write_idx - 1 : Fresh(slots[SlotOf(i)], i)
            /\ producer = "packed" => slots[SlotOf(write_idx)] = write_idx
            /\ pc = "read" =>
                 \A n \in 1 .. Len(batch) : Fresh(batch[n], read_idx + n - 1)
            /\ pc = "write" =>
                 \A n \in 1 .. Len(batch) :
                    Fresh(batch[n], read_idx - Len(batch) + n - 1)
            /\ \A n \in 1 .. Len(log) : Fresh(log[n], first + n - 1)

(* Inductive invariant: together the parts survive every step of producer,  *)
(* service and recorder, at whatever statement each of them is.             *)
RecorderInv == /\ TypeOK /\ IndexInv /\ AccountInv /\ DrainInv
               /\ StatusInv /\ RingInv /\ OrderInv /\ FreshInv

=============================================================================
