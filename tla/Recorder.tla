------------------------------ MODULE Recorder ------------------------------
(***************************************************************************)
(* One recording: RecorderProcess.run (recorder/rcd_process.py), the        *)
(* SharedMemoryRingReader and the MmapBatchWriter it drives, against a      *)
(* producer that never waits for them and a service that sets the stop      *)
(* event or loses the process at any time.                                  *)
(*                                                                         *)
(* pc names the statement of run() that comes next; every read of the       *)
(* shared header, every slot copied and every call that changes a file is   *)
(* a step of its own.  batch_write_count and bytes_written, which are only  *)
(* reported, are left out of the writer's state.                            *)
(***************************************************************************)
EXTENDS CanLogRing

VARIABLES
  stop_event,      \* the mp.Event shared with the service
  pc,              \* next statement of run()
  draining,        \* the loop has been left: _write_batch is the caller
  read_idx,        \* SharedMemoryRingReader._read_idx
  count,           \* the batch size being read
  batch,           \* frames copied so far, then the batch to write
  current_status,  \* run()'s local current_status
  sent,            \* statuses given to the StatusChannel, in order
  writer,          \* MmapBatchWriter: "none", "opened", "closed"
  frames_written,  \* MmapBatchWriter._frames_written
  log,             \* frames in the segmented mmap of this recording
  state_file       \* frames_written in <base>.state.json (0: no file)

(* History, read by no action of the program: the first frame of this       *)
(* recording, the write index when the stop event was set, and whether the  *)
(* producer has overwritten a frame that was still to be read.              *)
VARIABLES first, due, overrun

readerVars == <<read_idx, count, batch>>
writerVars == <<writer, frames_written, log, state_file>>
statusVars == <<current_status, sent>>
historyVars == <<first, due, overrun>>
vars == <<ringVars, stop_event, pc, draining, readerVars, writerVars,
          statusVars, historyVars>>

Statuses == {"WRITE_BATCH", "WAIT_RING", "STOPPED"}
Locations == {"attach", "open", "loop", "poll", "drain", "take", "read",
              "write", "save", "report", "announce", "close", "exited", "dead"}

Init == /\ RingInit
        /\ stop_event = FALSE
        /\ pc = "attach"
        /\ draining = FALSE
        /\ read_idx = 0 /\ count = 0 /\ batch = <<>>
        /\ current_status = "WAIT_RING" /\ sent = <<>>
        /\ writer = "none" /\ frames_written = 0
        /\ log = <<>> /\ state_file = 0
        /\ first = 0 /\ due = 0 /\ overrun = FALSE

Ended == pc \in {"exited", "dead"}
Reported(status) == \E n \in DOMAIN sent : sent[n] = status

NonNegative(n) == IF n < 0 THEN 0 ELSE n
Smaller(m, n) == IF m < n THEN m ELSE n

-----------------------------------------------------------------------------
(* Seeded faults: each replaces the definition of the model it is named     *)
(* after in one mutant run.                                                 *)

(* The header is taken for the index of the last frame. *)
AvailableInclusive == write_idx - read_idx + 1

(* The recording begins with what the ring still holds. *)
AttachAtOldest == write_idx - Capacity

(* Batches are cut to a fixed size (here 1), the drain's too. *)
BatchCountCut == Smaller(NonNegative(write_idx - read_idx), 1)

(* The reader jumps to the header it saw last, not to what it copied. *)
AdvanceToHeader == write_idx

(* The last frame in the ring is taken for none. *)
RingEmptyButOne == write_idx - read_idx <= 1

(* The wait for frames is an inner loop that does not look at the event. *)
WaitForFrames == /\ pc = "poll"
                 /\ write_idx = read_idx
                 /\ UNCHANGED vars

(* Whatever is in the ring when the loop ends is left there. *)
DrainNothing == /\ pc = "drain"
                /\ pc' = "announce"
                /\ UNCHANGED <<ringVars, stop_event, draining, readerVars,
                               writerVars, statusVars, historyVars>>

(* The error code of write_entries is not looked at. *)
IgnoreWriteError ==
  /\ pc = "write"
  /\ \E k \in 0 .. Len(batch) : log' = log \o SubSeq(batch, 1, k)
  /\ frames_written' = frames_written + Len(batch)
  /\ pc' = "save"
  /\ UNCHANGED <<ringVars, stop_event, draining, readerVars, writer,
                 state_file, statusVars, historyVars>>

-----------------------------------------------------------------------------
(* The producer and the service. *)

(* available: how far the header is ahead of the reader.  Not capped. *)
Available == write_idx - read_idx

(* The next frame the recorder has not copied yet. *)
Cursor == IF pc = "read" THEN read_idx + Len(batch) ELSE read_idx

(* The recorder may still copy frames from the ring. *)
StillReading == \/ pc \in {"open", "loop", "poll", "drain", "take", "read"}
                \/ pc \in {"write", "save"} /\ ~draining

(* The slot about to be overwritten holds a frame still to be read. *)
Laps == StillReading /\ Cursor <= write_idx - Capacity

Produce == /\ \/ BeginEntry /\ overrun' = (overrun \/ Laps)
              \/ EndEntry /\ UNCHANGED overrun
              \/ PublishHeader /\ UNCHANGED overrun
           /\ UNCHANGED <<stop_event, pc, draining, readerVars, writerVars,
                          statusVars, first, due>>

(* FileService.stop_recording sets the event, whatever the recorder does. *)
RequestStop == /\ ~stop_event
               /\ stop_event' = TRUE
               /\ due' = write_idx
               /\ UNCHANGED <<ringVars, pc, draining, readerVars, writerVars,
                              statusVars, first, overrun>>

(* The process is daemonic: it dies with the service, or is killed. *)
Kill == /\ ~Ended
        /\ pc' = "dead"
        /\ UNCHANGED <<ringVars, stop_event, draining, readerVars, writerVars,
                       statusVars, historyVars>>

-----------------------------------------------------------------------------
(* The reader. *)

(* SharedMemoryRingReader(shm_name): a recording begins at the index the    *)
(* header has now; frames already in the ring are not part of it.           *)
AttachIndex == write_idx

Attach == /\ pc = "attach"
          /\ read_idx' = AttachIndex
          /\ first' = AttachIndex
          /\ pc' = "open"
          /\ UNCHANGED <<ringVars, stop_event, draining, count, batch,
                         writerVars, statusVars, due, overrun>>

(* read_available and _write_batch read the header again before the batch   *)
(* is read, and fix the number of frames there.                             *)
BatchCount == IF draining THEN Smaller(NonNegative(count), Available)
                          ELSE NonNegative(Available)

Take == /\ pc = "take"
        /\ count' = BatchCount
        /\ batch' = <<>>
        /\ pc' = "read"
        /\ UNCHANGED <<ringVars, stop_event, draining, read_idx, writerVars,
                       statusVars, historyVars>>

(* One round of read_batch's for loop. *)
CopySlot == /\ pc = "read"
            /\ Len(batch) < count
            /\ batch' = Append(batch, ReadByIndex(read_idx + Len(batch)))
            /\ UNCHANGED <<ringVars, stop_event, pc, draining, read_idx, count,
                           writerVars, statusVars, historyVars>>

(* read_batch's self._read_idx += batch_count. *)
AdvancedIndex == read_idx + count

FinishRead == /\ pc = "read"
              /\ Len(batch) = count
              /\ read_idx' = AdvancedIndex
              /\ pc' = "write"
              /\ UNCHANGED <<ringVars, stop_event, draining, count, batch,
                             writerVars, statusVars, historyVars>>

-----------------------------------------------------------------------------
(* The writer.  write([]) returns at once; run() never calls it so, since   *)
(* the header only grows between the two reads of available.                *)

(* MmapBatchWriter(base_path), then current_status and the first status. *)
OpenWriter == /\ pc = "open"
              /\ writer' = "opened"
              /\ current_status' = "WAIT_RING"
              /\ sent' = Append(sent, "WAIT_RING")
              /\ pc' = "loop"
              /\ UNCHANGED <<ringVars, stop_event, draining, readerVars,
                             frames_written, log, state_file, historyVars>>

(* Opening the ring or the mmap files raises outside run()'s try block. *)
FailToOpen == /\ pc \in {"attach", "open"}
              /\ pc' = "dead"
              /\ UNCHANGED <<ringVars, stop_event, draining, readerVars,
                             writerVars, statusVars, historyVars>>

(* write_entries returned 0: the batch is in the mmap and is counted. *)
WriteEntries == /\ pc = "write"
                /\ writer = "opened"
                /\ log' = log \o batch
                /\ frames_written' = frames_written + Len(batch)
                /\ pc' = "save"
                /\ UNCHANGED <<ringVars, stop_event, draining, readerVars,
                               writer, state_file, statusVars, historyVars>>

(* write_entries returned an error after storing some of the batch: write   *)
(* raises, run() logs it and falls through to _close.                       *)
FailToWrite == /\ pc = "write"
               /\ \E k \in 0 .. Len(batch) : log' = log \o SubSeq(batch, 1, k)
               /\ pc' = "close"
               /\ UNCHANGED <<ringVars, stop_event, draining, readerVars,
                              writer, frames_written, state_file, statusVars,
                              historyVars>>

(* _write_state_file replaces the file, or swallows the exception. *)
SavedFrames == {state_file, frames_written}

WriteStateFile == /\ pc = "save"
                  /\ state_file' \in SavedFrames
                  /\ pc' = IF draining THEN "report" ELSE "loop"
                  /\ UNCHANGED <<ringVars, stop_event, draining, readerVars,
                                 writer, frames_written, log, statusVars,
                                 historyVars>>

-----------------------------------------------------------------------------
(* RecorderProcess.run. *)

(* "if current_status != s: send s". *)
UpdateStatus(status) ==
  /\ current_status' = status
  /\ sent' = IF current_status # status THEN Append(sent, status) ELSE sent

(* while not self._stop_event.is_set() *)
CheckStop == /\ pc = "loop"
             /\ pc' = IF stop_event THEN "drain" ELSE "poll"
             /\ draining' = stop_event
             /\ UNCHANGED <<ringVars, stop_event, readerVars, writerVars,
                            statusVars, historyVars>>

RingEmpty == Available = 0

(* available == 0: sleep and look again. *)
PollNothing == /\ pc = "poll"
               /\ RingEmpty
               /\ UpdateStatus("WAIT_RING")
               /\ pc' = "loop"
               /\ UNCHANGED <<ringVars, stop_event, draining, readerVars,
                              writerVars, historyVars>>

PollFrames == /\ pc = "poll"
              /\ ~RingEmpty
              /\ pc' = "take"
              /\ UNCHANGED <<ringVars, stop_event, draining, readerVars,
                             writerVars, statusVars, historyVars>>

(* remaining = available, once, after the loop. *)
Drain == /\ pc = "drain"
         /\ count' = Available
         /\ pc' = IF Available > 0 THEN "take" ELSE "announce"
         /\ UNCHANGED <<ringVars, stop_event, draining, read_idx, batch,
                        writerVars, statusVars, historyVars>>

(* _write_batch reports WRITE_BATCH after the batch is written. *)
ReportWrite == /\ pc = "report"
               /\ UpdateStatus("WRITE_BATCH")
               /\ pc' = "announce"
               /\ UNCHANGED <<ringVars, stop_event, draining, readerVars,
                              writerVars, historyVars>>

AnnounceStopped == /\ pc = "announce"
                   /\ sent' = Append(sent, "STOPPED")
                   /\ pc' = "close"
                   /\ UNCHANGED <<ringVars, stop_event, draining, readerVars,
                                  writerVars, current_status, historyVars>>

(* _close: close_mmap; the ring reader has no close, and the AttributeError *)
(* is swallowed.                                                            *)
Close == /\ pc = "close"
         /\ writer' = "closed"
         /\ pc' = "exited"
         /\ UNCHANGED <<ringVars, stop_event, draining, readerVars,
                        frames_written, log, state_file, statusVars,
                        historyVars>>

Run == \/ Attach \/ OpenWriter \/ FailToOpen
       \/ CheckStop \/ PollNothing \/ PollFrames
       \/ Take \/ CopySlot \/ FinishRead
       \/ WriteEntries \/ FailToWrite \/ WriteStateFile
       \/ Drain \/ ReportWrite \/ AnnounceStopped \/ Close

Next == Produce \/ RequestStop \/ Kill \/ Run

Spec == Init /\ [][Next]_vars

(* The recorder process is scheduled; the producer, the stop and the death  *)
(* of the process are not owed to anybody.                                  *)
FairSpec == Spec /\ WF_vars(Run)

-----------------------------------------------------------------------------
(* Type invariant: every variable of run(), of the reader and of the writer *)
(* holds a value the code can put there.                                    *)
TypeOK == /\ RingTypeOK
          /\ stop_event \in BOOLEAN
          /\ pc \in Locations
          /\ draining \in BOOLEAN
          /\ read_idx \in Nat /\ count \in Nat
          /\ batch \in Seq(Frames \cup {NoFrame})
          /\ current_status \in Statuses
          /\ sent \in Seq(Statuses)
          /\ writer \in {"none", "opened", "closed"}
          /\ frames_written \in Nat
          /\ log \in Seq(Frames \cup {NoFrame})
          /\ state_file \in Nat
          /\ first \in Nat /\ due \in Nat /\ overrun \in BOOLEAN

(* Unless the producer overwrote a frame still to be read, the recording is *)
(* the frames from the attach on, each once and in order: copying slot by   *)
(* slot while the producer writes, and the two reads of the header around a *)
(* batch, neither skip, repeat nor tear a frame.                            *)
FramesInOrder == ~overrun => \A n \in 1 .. Len(log) : log[n] = first + n - 1

(* Lapped or not, the frame recorded in place of frame i is i itself or one *)
(* a whole number of laps newer, or torn: read_by_index never returns what  *)
(* was in the slot before frame i.                                          *)
NeverStale == \A n \in 1 .. Len(log) :
                 LET i == first + n - 1
                 IN  log[n] = NoFrame \/ (log[n] >= i /\ SlotOf(log[n]) = SlotOf(i))

(* STOPPED promises a complete recording: a service that sees it may read   *)
(* every frame that was in the ring when it set the stop event, although    *)
(* the loop may have left between any two statements.                       *)
StoppedIsComplete ==
  Reported("STOPPED") => /\ first + Len(log) >= due
                         /\ Len(log) = frames_written
                         /\ read_idx = first + Len(log)

(* Whatever dies or fails, the state file never claims a frame the mmap     *)
(* does not hold.                                                           *)
StateFileNeverAhead == state_file <= Len(log)

(* A stop request ends the recorder, however busy the producer is: the      *)
(* drain after the loop reads one batch of fixed size.                      *)
StopEndsRecorder == stop_event ~> Ended

(* A frame published while the recorder runs gets its place in the          *)
(* recording, unless the recorder ends.                                     *)
EveryFrameIsRecorded ==
  \A i \in 0 .. MaxFrames - 1 :
     (pc = "loop" /\ first <= i /\ i < write_idx)
        ~> (Ended \/ first + Len(log) > i)

(* The detailed recorder implements the abstract recording. *)
Phase == CASE pc \in {"attach", "open"} -> "starting"
           [] pc \in {"loop", "poll"} -> "polling"
           [] pc \in {"take", "read", "write", "save"} ->
                IF draining THEN "draining" ELSE "polling"
           [] pc \in {"drain", "report"} -> "draining"
           [] pc = "announce" -> "drained"
           [] pc = "close" -> IF Reported("STOPPED") THEN "stopped" ELSE "failed"
           [] pc \in {"exited", "dead"} -> "exited"

Abstract == INSTANCE Recording WITH published <- write_idx, tape <- log,
                                    stopping <- stop_event, stopped_at <- due,
                                    lapped <- overrun, phase <- Phase

(* Seen through Phase, every step of ring, reader and writer is a step of   *)
(* the abstract recording or a stuttering step.                             *)
ImplementsRecording == Abstract!Spec

=============================================================================
