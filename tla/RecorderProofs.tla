--------------------------- MODULE RecorderProofs ---------------------------
(***************************************************************************)
(* Theorems about Recorder, for every Capacity and MaxFrames.  The parts of *)
(* RecorderInv are proved one after the other, each from the ones before;   *)
(* the properties the runs check follow, and then the refinement of         *)
(* Recording.                                                               *)
(***************************************************************************)
EXTENDS RecorderInvariant, SequenceTheorems, TLAPS

-----------------------------------------------------------------------------
(* Types, and the reader behind the header.  count is a natural number      *)
(* only because the reader never passes the header, so the two go together. *)

(* Every index has a slot. *)
LEMMA SlotIsASlot == \A i \in Nat : SlotOf(i) \in SlotNumbers
  BY RingAssumption DEF SlotOf, SlotNumbers

(* A step of the producer keeps the types of the ring. *)
LEMMA ProducerTyping ==
  ASSUME RingTypeOK, BeginEntry \/ EndEntry \/ PublishHeader
  PROVE  RingTypeOK' /\ write_idx' \in Nat /\ write_idx <= write_idx'
<1>1. CASE BeginEntry
  BY <1>1, SlotIsASlot, RingAssumption DEF RingTypeOK, BeginEntry, Frames
<1>2. CASE EndEntry
  BY <1>2, SlotIsASlot, RingAssumption DEF RingTypeOK, EndEntry, Frames
<1>3. CASE PublishHeader
  BY <1>3, RingAssumption DEF RingTypeOK, PublishHeader, Frames
<1>4. QED  BY <1>1, <1>2, <1>3

(* The types are an invariant: each action of the recorder keeps them. *)
LEMMA Typing == Spec => [](TypeOK /\ IndexInv)
<1>1. Init => TypeOK /\ IndexInv
  <2>1. RingInit => RingTypeOK /\ write_idx = 0
    BY RingAssumption DEF RingInit, RingTypeOK
  <2>2. <<>> \in Seq(Frames \cup {NoFrame}) /\ <<>> \in Seq(Statuses)
    OBVIOUS
  <2>3. Init => IndexInv
    BY <2>1 DEF Init, IndexInv
  <2>4. Init => TypeOK
    <3> SUFFICES ASSUME Init PROVE TypeOK
      OBVIOUS
    <3>1. /\ RingTypeOK
          /\ stop_event \in BOOLEAN /\ draining \in BOOLEAN
          /\ overrun \in BOOLEAN
      BY <2>1 DEF Init
    <3>2. /\ read_idx \in Nat /\ count \in Nat /\ frames_written \in Nat
          /\ state_file \in Nat /\ first \in Nat /\ due \in Nat
      BY DEF Init
    <3>3. /\ pc \in Locations /\ current_status \in Statuses
          /\ writer \in {"none", "opened", "closed"}
      BY DEF Init, Locations, Statuses
    <3>4. /\ batch \in Seq(Frames \cup {NoFrame})
          /\ log \in Seq(Frames \cup {NoFrame})
          /\ sent \in Seq(Statuses)
      BY <2>2 DEF Init
    <3>5. QED
      BY <3>1, <3>2, <3>3, <3>4 DEF TypeOK
  <2>5. QED
    BY <2>3, <2>4
<1>2. TypeOK /\ IndexInv /\ [Next]_vars => TypeOK' /\ IndexInv'
  <2> SUFFICES ASSUME TypeOK, IndexInv, [Next]_vars
               PROVE  TypeOK' /\ IndexInv'
    OBVIOUS
  <2> USE DEF TypeOK, IndexInv, Locations, Statuses, ringVars, readerVars,
              writerVars, statusVars, historyVars
  <2>1. CASE Produce
    <3>1. BeginEntry \/ EndEntry \/ PublishHeader
      BY <2>1 DEF Produce
    <3>2. RingTypeOK' /\ write_idx' \in Nat /\ write_idx <= write_idx'
      BY <3>1, ProducerTyping
    <3>3. overrun' \in BOOLEAN
      BY <2>1 DEF Produce
    <3>4. QED
      BY <2>1, <3>2, <3>3 DEF Produce, RingTypeOK
  <2>2. CASE RequestStop
    BY <2>2 DEF RequestStop, RingTypeOK
  <2>3. CASE Kill
    BY <2>3 DEF Kill, RingTypeOK
  <2>4. CASE Attach
    BY <2>4 DEF Attach, AttachIndex, RingTypeOK
  <2>5. CASE OpenWriter
    BY <2>5 DEF OpenWriter, RingTypeOK
  <2>6. CASE FailToOpen
    BY <2>6 DEF FailToOpen, RingTypeOK
  <2>7. CASE CheckStop
    BY <2>7 DEF CheckStop, RingTypeOK
  <2>8. CASE PollNothing
    BY <2>8 DEF PollNothing, UpdateStatus, RingTypeOK
  <2>9. CASE PollFrames
    BY <2>9 DEF PollFrames, RingTypeOK
  <2>10. CASE Take
    BY <2>10 DEF Take, BatchCount, NonNegative, Smaller, Available, RingTypeOK
  <2>11. CASE CopySlot
    BY <2>11, SlotIsASlot DEF CopySlot, ReadByIndex, RingTypeOK
  <2>12. CASE FinishRead
    BY <2>12 DEF FinishRead, AdvancedIndex, RingTypeOK
  <2>13. CASE WriteEntries
    BY <2>13 DEF WriteEntries, RingTypeOK
  <2>14. CASE FailToWrite
    <3>1. PICK k \in 0 .. Len(batch) : log' = log \o SubSeq(batch, 1, k)
      BY <2>14 DEF FailToWrite
    <3>2. SubSeq(batch, 1, k) \in Seq(Frames \cup {NoFrame})
      OBVIOUS
    <3>3. log' \in Seq(Frames \cup {NoFrame})
      BY <3>1, <3>2
    <3>4. QED
      BY <2>14, <3>3 DEF FailToWrite, RingTypeOK
  <2>15. CASE WriteStateFile
    BY <2>15 DEF WriteStateFile, SavedFrames, RingTypeOK
  <2>16. CASE Drain
    BY <2>16 DEF Drain, Available, RingTypeOK
  <2>17. CASE ReportWrite
    BY <2>17 DEF ReportWrite, UpdateStatus, RingTypeOK
  <2>18. CASE AnnounceStopped
    BY <2>18 DEF AnnounceStopped, RingTypeOK
  <2>19. CASE Close
    BY <2>19 DEF Close, RingTypeOK
  <2>20. CASE UNCHANGED vars
    BY <2>20 DEF vars, RingTypeOK
  <2>21. QED
    BY <2>1, <2>2, <2>3, <2>4, <2>5, <2>6, <2>7, <2>8, <2>9, <2>10, <2>11,
       <2>12, <2>13, <2>14, <2>15, <2>16, <2>17, <2>18, <2>19, <2>20
    DEF Next, Run
<1>3. QED  BY <1>1, <1>2, PTL DEF Spec

(* TypeOK holds of every recording. *)
THEOREM TypeCorrect == Spec => []TypeOK
  BY Typing, PTL

-----------------------------------------------------------------------------
(* No frame is dropped between ring, batch and file, and what STOPPED        *)
(* promises.                                                                *)

(* What a status sent adds to the statuses reported. *)
LEMMA AppendReported ==
  ASSUME TypeOK, NEW s \in Statuses, sent' = Append(sent, s), NEW t \in Statuses
  PROVE  Reported(t)' <=> (Reported(t) \/ t = s)
<1>1. Len(sent') = Len(sent) + 1 /\ DOMAIN sent' = 1 .. Len(sent) + 1
  BY DEF TypeOK
<1>2. \A n \in 1 .. Len(sent) : sent'[n] = sent[n]
  BY DEF TypeOK
<1>3. sent'[Len(sent) + 1] = s
  BY DEF TypeOK
<1>4. DOMAIN sent = 1 .. Len(sent) /\ Len(sent) \in Nat
  BY DEF TypeOK
<1>5. QED
  BY <1>1, <1>2, <1>3, <1>4 DEF Reported

(* A status other than STOPPED, sent or not, leaves STOPPED as it was. *)
LEMMA StatusReported ==
  ASSUME TypeOK, NEW s \in Statuses \ {"STOPPED"}, UpdateStatus(s)
  PROVE  Reported("STOPPED")' <=> Reported("STOPPED")
<1>1. "STOPPED" \in Statuses
  BY DEF Statuses
<1>2. CASE sent' = Append(sent, s)
  BY <1>1, <1>2, AppendReported
<1>3. CASE sent' = sent
  BY <1>3 DEF Reported
<1>4. QED  BY <1>2, <1>3 DEF UpdateStatus

(* A step that sends nothing reports nothing. *)
LEMMA SentUnchanged ==
  ASSUME sent' = sent, NEW t
  PROVE  Reported(t)' <=> Reported(t)
  BY DEF Reported

(* Draining: what the stop has promised is kept at every statement. *)
LEMMA Draining == Spec => []DrainInv
<1>1. Init => DrainInv
  <2> SUFFICES ASSUME Init PROVE DrainInv
    OBVIOUS
  <2>1. ~Reported("STOPPED")
    BY DEF Init, Reported
  <2>2. QED
    BY <2>1 DEF Init, RingInit, DrainInv
<1>2. TypeOK /\ IndexInv /\ DrainInv /\ [Next]_vars => DrainInv'
  <2> SUFFICES ASSUME TypeOK, IndexInv, DrainInv, [Next]_vars
               PROVE  DrainInv'
    OBVIOUS
  <2> USE DEF DrainInv, TypeOK, IndexInv, ringVars, readerVars, writerVars,
              statusVars, historyVars
  <2>1. CASE Produce
    <3>1. write_idx' \in Nat /\ write_idx <= write_idx'
      BY <2>1, ProducerTyping DEF Produce
    <3>2. QED
      BY <2>1, <3>1, SentUnchanged DEF Produce, RingTypeOK
  <2>2. CASE RequestStop
    BY <2>2, SentUnchanged DEF RequestStop, RingTypeOK
  <2>3. CASE Kill
    BY <2>3, SentUnchanged DEF Kill, Ended
  <2>4. CASE Attach
    BY <2>4, SentUnchanged DEF Attach
  <2>5. CASE OpenWriter
    <3>1. ~Reported("STOPPED")'
      BY <2>5, AppendReported DEF OpenWriter, Statuses
    <3>2. QED
      BY <2>5, <3>1 DEF OpenWriter
  <2>6. CASE FailToOpen
    BY <2>6, SentUnchanged DEF FailToOpen
  <2>7. CASE CheckStop
    BY <2>7, SentUnchanged DEF CheckStop
  <2>8. CASE PollNothing
    <3>1. ~Reported("STOPPED")'
      BY <2>8, StatusReported DEF PollNothing, Statuses
    <3>2. QED
      BY <2>8, <3>1 DEF PollNothing, UpdateStatus
  <2>9. CASE PollFrames
    BY <2>9, SentUnchanged DEF PollFrames
  <2>10. CASE Take
    BY <2>10, SentUnchanged
    DEF Take, BatchCount, NonNegative, Smaller, Available, RingTypeOK
  <2>11. CASE CopySlot
    BY <2>11, SentUnchanged DEF CopySlot
  <2>12. CASE FinishRead
    BY <2>12, SentUnchanged DEF FinishRead, AdvancedIndex
  <2>13. CASE WriteEntries
    BY <2>13, SentUnchanged DEF WriteEntries
  <2>14. CASE FailToWrite
    BY <2>14, SentUnchanged DEF FailToWrite
  <2>15. CASE WriteStateFile
    BY <2>15, SentUnchanged DEF WriteStateFile
  <2>16. CASE Drain
    BY <2>16, SentUnchanged DEF Drain, Available, RingTypeOK
  <2>17. CASE ReportWrite
    <3>1. ~Reported("STOPPED")'
      BY <2>17, StatusReported DEF ReportWrite, Statuses
    <3>2. QED
      BY <2>17, <3>1 DEF ReportWrite, UpdateStatus
  <2>18. CASE AnnounceStopped
    BY <2>18 DEF AnnounceStopped
  <2>19. CASE Close
    BY <2>19, SentUnchanged DEF Close
  <2>20. CASE UNCHANGED vars
    BY <2>20, SentUnchanged DEF vars
  <2>21. QED
    BY <2>1, <2>2, <2>3, <2>4, <2>5, <2>6, <2>7, <2>8, <2>9, <2>10, <2>11,
       <2>12, <2>13, <2>14, <2>15, <2>16, <2>17, <2>18, <2>19, <2>20
    DEF Next, Run
<1>3. QED  BY <1>1, <1>2, Typing, PTL DEF Spec

(* The loop tells nothing new: its status is the one told first. *)
LEMMA StatusKept == Spec => []StatusInv
<1>1. Init => StatusInv
  BY DEF Init, StatusInv
<1>2. StatusInv /\ [Next]_vars => StatusInv'
  <2> SUFFICES ASSUME StatusInv, [Next]_vars PROVE StatusInv'
    OBVIOUS
  <2> USE DEF StatusInv, ringVars, readerVars, writerVars, statusVars, historyVars
  <2>1. CASE Produce \/ RequestStop \/ Kill
    BY <2>1 DEF Produce, RequestStop, Kill
  <2>2. CASE Attach \/ OpenWriter \/ FailToOpen
    BY <2>2 DEF Attach, OpenWriter, FailToOpen
  <2>3. CASE CheckStop \/ PollNothing \/ PollFrames
    BY <2>3 DEF CheckStop, PollNothing, PollFrames, UpdateStatus
  <2>4. CASE Take \/ CopySlot \/ FinishRead
    BY <2>4 DEF Take, CopySlot, FinishRead
  <2>5. CASE WriteEntries \/ FailToWrite \/ WriteStateFile
    BY <2>5 DEF WriteEntries, FailToWrite, WriteStateFile
  <2>6. CASE Drain \/ ReportWrite \/ AnnounceStopped \/ Close
    BY <2>6 DEF Drain, ReportWrite, AnnounceStopped, Close
  <2>7. CASE UNCHANGED vars
    BY <2>7 DEF vars
  <2>8. QED
    BY <2>1, <2>2, <2>3, <2>4, <2>5, <2>6, <2>7 DEF Next, Run
<1>3. QED
  BY <1>1, <1>2, PTL DEF Spec

(* Every frame read is in the batch or in the file, and counted once. *)
LEMMA Accounting == Spec => []AccountInv
<1>1. Init => AccountInv
  <2> SUFFICES ASSUME Init PROVE AccountInv
    OBVIOUS
  <2>1. Len(log) = 0 /\ Held = 0
    BY DEF Init, Held
  <2>2. QED
    BY <2>1 DEF Init, AccountInv
<1>2. TypeOK /\ IndexInv /\ AccountInv /\ DrainInv /\ [Next]_vars
        => AccountInv'
  <2> SUFFICES ASSUME TypeOK, IndexInv, AccountInv, DrainInv, [Next]_vars
               PROVE  AccountInv'
    OBVIOUS
  <2> USE DEF AccountInv, TypeOK, IndexInv, Held, Unharmed, ringVars,
              readerVars, writerVars, statusVars, historyVars
  <2>1. CASE Produce
    BY <2>1, SentUnchanged DEF Produce
  <2>2. CASE RequestStop
    BY <2>2, SentUnchanged DEF RequestStop
  <2>3. CASE Kill
    BY <2>3, SentUnchanged DEF Kill, DrainInv, Ended
  <2>4. CASE Attach
    <3>1. Len(log) = 0 /\ log' = log /\ pc' = "open"
      BY <2>4 DEF Attach
    <3>2. /\ frames_written' = 0 /\ state_file' = state_file
          /\ first' = read_idx' /\ read_idx' = write_idx
      BY <2>4 DEF Attach, AttachIndex
    <3>3. QED
      BY <3>1, <3>2 DEF RingTypeOK
  <2>5. CASE OpenWriter
    BY <2>5 DEF OpenWriter
  <2>6. CASE FailToOpen
    BY <2>6, SentUnchanged DEF FailToOpen, DrainInv
  <2>7. CASE CheckStop
    BY <2>7, SentUnchanged DEF CheckStop
  <2>8. CASE PollNothing
    BY <2>8 DEF PollNothing
  <2>9. CASE PollFrames
    BY <2>9, SentUnchanged DEF PollFrames
  <2>10. CASE Take
    BY <2>10, SentUnchanged DEF Take
  <2>11. CASE CopySlot
    BY <2>11, SentUnchanged DEF CopySlot
  <2>12. CASE FinishRead
    BY <2>12, SentUnchanged DEF FinishRead, AdvancedIndex
  <2>13. CASE WriteEntries
    BY <2>13, SentUnchanged DEF WriteEntries
  <2>14. CASE FailToWrite
    <3>1. PICK k \in 0 .. Len(batch) : log' = log \o SubSeq(batch, 1, k)
      BY <2>14 DEF FailToWrite
    <3>2. Len(log') = Len(log) + k
      BY <3>1
    <3>3. ~Unharmed'
      BY <2>14, SentUnchanged DEF FailToWrite, DrainInv
    <3>4. QED
      BY <2>14, <3>2, <3>3 DEF FailToWrite
  <2>15. CASE WriteStateFile
    BY <2>15, SentUnchanged DEF WriteStateFile, SavedFrames
  <2>16. CASE Drain
    BY <2>16, SentUnchanged DEF Drain
  <2>17. CASE ReportWrite
    BY <2>17 DEF ReportWrite
  <2>18. CASE AnnounceStopped
    BY <2>18 DEF AnnounceStopped
  <2>19. CASE Close
    BY <2>19, SentUnchanged DEF Close
  <2>20. CASE UNCHANGED vars
    BY <2>20, SentUnchanged DEF vars
  <2>21. QED
    BY <2>1, <2>2, <2>3, <2>4, <2>5, <2>6, <2>7, <2>8, <2>9, <2>10, <2>11,
       <2>12, <2>13, <2>14, <2>15, <2>16, <2>17, <2>18, <2>19, <2>20
    DEF Next, Run
<1>3. QED  BY <1>1, <1>2, Typing, Draining, PTL DEF Spec

(* A service told STOPPED finds every frame published before it set the     *)
(* stop event in the file, and the file's count is the writer's.            *)
THEOREM StoppedComplete == Spec => []StoppedIsComplete
<1>1. TypeOK /\ AccountInv /\ DrainInv => StoppedIsComplete
  <2> SUFFICES ASSUME TypeOK, AccountInv, DrainInv, Reported("STOPPED")
               PROVE  /\ first + Len(log) >= due
                      /\ Len(log) = frames_written
                      /\ read_idx = first + Len(log)
    BY DEF StoppedIsComplete
  <2>1. Held = 0 /\ due <= read_idx
    BY DEF DrainInv, Held
  <2>2. first + Len(log) + Held = read_idx /\ frames_written = Len(log)
    BY DEF AccountInv, Unharmed
  <2>3. QED
    BY <2>1, <2>2 DEF TypeOK
<1>2. QED  BY <1>1, Typing, Accounting, Draining, PTL

(* The state file never claims a frame that is not in the mmap. *)
THEOREM StateFileSafe == Spec => []StateFileNeverAhead
<1>1. TypeOK /\ AccountInv => StateFileNeverAhead
  BY DEF TypeOK, AccountInv, StateFileNeverAhead
<1>2. QED  BY <1>1, Typing, Accounting, PTL

-----------------------------------------------------------------------------
(* What the recorded frames are: never older than their place, and exactly  *)
(* in order while the recorder is not lapped.                               *)
-----------------------------------------------------------------------------
(* Slots. *)

(* Two indexes less than Capacity apart never share a slot. *)
LEMMA SlotsDistinct ==
  ASSUME NEW i \in Nat, NEW j \in Nat, i < j, j - i < Capacity
  PROVE  SlotOf(i) # SlotOf(j)
<1> DEFINE C == Capacity
           qi == i \div C
           qj == j \div C
<1>1. C \in Nat /\ C > 0
  BY RingAssumption
<1>2. /\ qi \in Int /\ qj \in Int
      /\ i = C * qi + (i % C) /\ j = C * qj + (j % C)
  BY <1>1
<1>3. SUFFICES ASSUME i % C = j % C PROVE FALSE
  BY DEF SlotOf
<1>4. PICK d \in Int : d = qj - qi
  BY <1>2
<1>5. C * d = j - i
  <2> HIDE DEF C, qi, qj
  <2>1. C * d = C * qj - C * qi
    BY <1>1, <1>2, <1>4
  <2>2. QED
    BY <2>1, <1>1, <1>2, <1>3
<1>6. d > 0
  <2> HIDE DEF C, qi, qj
  <2>1. CASE d <= 0
    <3>1. C * d <= 0
      BY <1>1, <2>1
    <3>2. QED
      BY <3>1, <1>5
  <2>2. QED
    BY <2>1
<1>7. C * d >= C
  <2> HIDE DEF C, qi, qj
  <2>1. C * (d - 1) >= 0
    BY <1>1, <1>6
  <2>2. C * (d - 1) = C * d - C
    BY <1>1, <1>4
  <2>3. QED
    BY <2>1, <2>2, <1>1
<1>8. QED
  BY <1>1, <1>5, <1>7

(* Writing the first k frames of a batch to the file. *)
LEMMA WrittenFrames ==
  ASSUME NEW S, NEW s \in Seq(S), NEW t \in Seq(S), NEW k \in 0 .. Len(t)
  PROVE  LET u == s \o SubSeq(t, 1, k)
         IN  /\ Len(u) = Len(s) + k
             /\ \A n \in 1 .. Len(s) : u[n] = s[n]
             /\ \A n \in Len(s) + 1 .. Len(s) + k : u[n] = t[n - Len(s)]
<1> DEFINE v == SubSeq(t, 1, k)
<1>1. v \in Seq(S) /\ Len(v) = k /\ \A n \in 1 .. k : v[n] = t[n]
  OBVIOUS
<1> HIDE DEF v
<1>2. /\ Len(s \o v) = Len(s) + k
      /\ \A n \in 1 .. Len(s) : (s \o v)[n] = s[n]
      /\ \A n \in Len(s) + 1 .. Len(s) + k : (s \o v)[n] = v[n - Len(s)]
  <2>1. /\ Len(s \o v) = Len(s) + Len(v)
        /\ \A n \in 1 .. Len(s) + Len(v) :
              (s \o v)[n] = IF n <= Len(s) THEN s[n] ELSE v[n - Len(s)]
    BY <1>1, ConcatProperties
  <2>2. Len(s) \in Nat /\ Len(v) = k /\ k \in Nat
    BY <1>1
  <2> HIDE DEF v
  <2>3. QED
    BY <2>1, <2>2
<1>3. QED
  BY <1>1, <1>2 DEF v

-----------------------------------------------------------------------------
(* Never stale. *)

(* A step of the producer keeps every published frame, or a newer one, in   *)
(* its slot.                                                                *)
LEMMA ProducerFresh ==
  ASSUME RingTypeOK, BeginEntry \/ EndEntry \/ PublishHeader,
         \A i \in 0 .. write_idx - 1 : Fresh(slots[SlotOf(i)], i),
         producer = "packed" => slots[SlotOf(write_idx)] = write_idx
  PROVE  /\ \A i \in 0 .. write_idx' - 1 : Fresh(slots'[SlotOf(i)], i)
         /\ producer' = "packed" => slots'[SlotOf(write_idx')] = write_idx'
<1> USE DEF RingTypeOK
<1>1. \A i \in Nat : SlotOf(i) \in SlotNumbers
  BY SlotIsASlot
<1>2. CASE BeginEntry
  BY <1>1, <1>2 DEF BeginEntry, Fresh
<1>3. CASE EndEntry
  BY <1>1, <1>3 DEF EndEntry, Fresh
<1>4. CASE PublishHeader
  BY <1>1, <1>4 DEF PublishHeader, Fresh
<1>5. QED  BY <1>2, <1>3, <1>4

(* Frames written from the batch keep the place they had in the batch. *)
LEMMA WrittenFresh ==
  ASSUME TypeOK, AccountInv, FreshInv, pc = "write",
         NEW k \in 0 .. Len(batch), log' = log \o SubSeq(batch, 1, k),
         first' = first
  PROVE  \A n \in 1 .. Len(log') : Fresh(log'[n], first' + n - 1)
<1> USE DEF TypeOK
<1>1. /\ Len(log') = Len(log) + k
      /\ \A n \in 1 .. Len(log) : log'[n] = log[n]
      /\ \A n \in Len(log) + 1 .. Len(log) + k : log'[n] = batch[n - Len(log)]
  <2>1. log \in Seq(Frames \cup {NoFrame}) /\ batch \in Seq(Frames \cup {NoFrame})
    OBVIOUS
  <2>2. QED
    BY <2>1, WrittenFrames
<1>2. first + Len(log) = read_idx - Len(batch)
  BY DEF AccountInv, Unharmed, Held
<1>3. TAKE n \in 1 .. Len(log')
<1>4. CASE n <= Len(log)
  <2>1. n \in 1 .. Len(log)
    BY <1>4
  <2>2. Fresh(log[n], first + n - 1)
    BY <2>1 DEF FreshInv
  <2>3. QED
    BY <1>1, <2>1, <2>2
<1>5. CASE n > Len(log)
  <2> DEFINE m == n - Len(log)
  <2>1. /\ m \in 1 .. Len(batch) /\ n \in Len(log) + 1 .. Len(log) + k
        /\ Len(log) \in Nat /\ Len(batch) \in Nat /\ n \in Nat
    BY <1>1, <1>5
  <2>2. Fresh(batch[m], read_idx - Len(batch) + m - 1)
    BY <2>1 DEF FreshInv
  <2>3. read_idx - Len(batch) + m - 1 = first + n - 1
    <3>1. /\ first \in Nat /\ read_idx \in Nat /\ n \in Nat
          /\ Len(log) \in Nat /\ Len(batch) \in Nat
      BY <2>1
    <3>2. (first + Len(log)) + (n - Len(log)) - 1 = first + n - 1
      BY <3>1
    <3>3. QED
      BY <1>2, <3>2
  <2>4. QED
    BY <1>1, <2>1, <2>2, <2>3
<1>6. QED
  BY <1>4, <1>5

(* Ring, batch and file hold no frame older than its place. *)
LEMMA Freshness == Spec => []FreshInv
<1>1. Init => FreshInv
  BY DEF Init, RingInit, FreshInv
<1>2. TypeOK /\ IndexInv /\ AccountInv /\ FreshInv /\ [Next]_vars => FreshInv'
  <2> SUFFICES ASSUME TypeOK, IndexInv, AccountInv, FreshInv, [Next]_vars
               PROVE  FreshInv'
    OBVIOUS
  <2> USE DEF FreshInv, TypeOK, IndexInv, ringVars, readerVars, writerVars,
              statusVars, historyVars
  <2>1. CASE Produce
    <3>1. /\ \A i \in 0 .. write_idx' - 1 : Fresh(slots'[SlotOf(i)], i)
          /\ producer' = "packed" => slots'[SlotOf(write_idx')] = write_idx'
      BY <2>1, ProducerFresh DEF Produce
    <3>2. QED
      BY <2>1, <3>1 DEF Produce
  <2>2. CASE RequestStop
    BY <2>2 DEF RequestStop
  <2>3. CASE Kill
    BY <2>3 DEF Kill
  <2>4. CASE Attach
    BY <2>4 DEF Attach, AccountInv
  <2>5. CASE OpenWriter
    BY <2>5 DEF OpenWriter
  <2>6. CASE FailToOpen
    BY <2>6 DEF FailToOpen
  <2>7. CASE CheckStop
    BY <2>7 DEF CheckStop
  <2>8. CASE PollNothing
    BY <2>8 DEF PollNothing
  <2>9. CASE PollFrames
    BY <2>9 DEF PollFrames
  <2>10. CASE Take
    BY <2>10 DEF Take
  <2>11. CASE CopySlot
    <3> DEFINE i == read_idx + Len(batch)
    <3>1. i \in 0 .. write_idx - 1 /\ Len(batch) \in Nat
      BY <2>11 DEF CopySlot, RingTypeOK
    <3>2. Fresh(slots[SlotOf(i)], i)
      BY <3>1
    <3>3. /\ batch' = Append(batch, slots[SlotOf(i)])
          /\ pc = "read" /\ read_idx' = read_idx
      BY <2>11 DEF CopySlot, ReadByIndex
    <3>4. ASSUME NEW n \in 1 .. Len(batch')
          PROVE  Fresh(batch'[n], read_idx' + n - 1)
      <4>1. CASE n <= Len(batch)
        <5>1. batch'[n] = batch[n] /\ n \in 1 .. Len(batch)
          BY <3>3, <4>1
        <5>2. QED
          BY <3>3, <5>1
      <4>2. CASE n > Len(batch)
        <5>1. n = Len(batch) + 1 /\ batch'[n] = slots[SlotOf(i)]
          BY <3>3, <4>2
        <5>2. read_idx' + n - 1 = i
          BY <3>1, <3>3, <5>1
        <5>3. QED
          BY <3>2, <5>1, <5>2
      <4>3. QED
        BY <3>1, <4>1, <4>2
    <3>5. QED
      BY <2>11, <3>4 DEF CopySlot
  <2>12. CASE FinishRead
    <3>1. /\ pc = "read" /\ batch' = batch /\ pc' = "write"
          /\ Len(batch) = count /\ read_idx' = read_idx + count
      BY <2>12 DEF FinishRead, AdvancedIndex
    <3>2. read_idx' - Len(batch') = read_idx
      BY <3>1
    <3>3. \A n \in 1 .. Len(batch') :
             Fresh(batch'[n], read_idx' - Len(batch') + n - 1)
      BY <3>1, <3>2
    <3>4. QED
      BY <2>12, <3>1, <3>3 DEF FinishRead
  <2>13. CASE WriteEntries
    <3>1. SubSeq(batch, 1, Len(batch)) = batch /\ Len(batch) \in 0 .. Len(batch)
      OBVIOUS
    <3>2. log' = log \o SubSeq(batch, 1, Len(batch)) /\ pc = "write" /\ pc' = "save"
      BY <2>13, <3>1 DEF WriteEntries
    <3>3. \A n \in 1 .. Len(log') : Fresh(log'[n], first' + n - 1)
      BY <2>13, <3>1, <3>2, WrittenFresh DEF WriteEntries
    <3>4. QED
      BY <2>13, <3>2, <3>3 DEF WriteEntries
  <2>14. CASE FailToWrite
    <3>1. PICK k \in 0 .. Len(batch) : log' = log \o SubSeq(batch, 1, k)
      BY <2>14 DEF FailToWrite
    <3>2. \A n \in 1 .. Len(log') : Fresh(log'[n], first' + n - 1)
      BY <2>14, <3>1, WrittenFresh DEF FailToWrite
    <3>3. QED
      BY <2>14, <3>2 DEF FailToWrite
  <2>15. CASE WriteStateFile
    BY <2>15 DEF WriteStateFile
  <2>16. CASE Drain
    BY <2>16 DEF Drain
  <2>17. CASE ReportWrite
    BY <2>17 DEF ReportWrite
  <2>18. CASE AnnounceStopped
    BY <2>18 DEF AnnounceStopped
  <2>19. CASE Close
    BY <2>19 DEF Close
  <2>20. CASE UNCHANGED vars
    BY <2>20 DEF vars
  <2>21. QED
    BY <2>1, <2>2, <2>3, <2>4, <2>5, <2>6, <2>7, <2>8, <2>9, <2>10, <2>11,
       <2>12, <2>13, <2>14, <2>15, <2>16, <2>17, <2>18, <2>19, <2>20
    DEF Next, Run
<1>3. QED  BY <1>1, <1>2, Typing, Accounting, PTL DEF Spec

(* NeverStale holds of every recording: whatever the producer overwrites    *)
(* and whenever, no frame from before its place is recorded.                *)
THEOREM NeverStaleCorrect == Spec => []NeverStale
<1>1. FreshInv => NeverStale
  BY DEF FreshInv, Fresh, NeverStale
<1>2. QED  BY <1>1, Freshness, PTL

-----------------------------------------------------------------------------
(* In order, unless lapped. *)

(* Overwriting a slot costs only the oldest frame of the ring. *)
LEMMA RingHolds == Spec => []RingInv
<1>1. Init => RingInv
  BY DEF Init, RingInit, RingInv
<1>2. TypeOK /\ RingInv /\ [Next]_vars => RingInv'
  <2> SUFFICES ASSUME TypeOK, RingInv, [Next]_vars PROVE RingInv'
    OBVIOUS
  <2>1. CASE UNCHANGED ringVars
    BY <2>1 DEF ringVars, RingInv
  <2>2. \A i \in Nat : SlotOf(i) \in SlotNumbers
    BY SlotIsASlot
  <2>3. \A i \in 0 .. write_idx - 1 :
           write_idx - Capacity < i => SlotOf(i) # SlotOf(write_idx)
    BY SlotsDistinct, RingAssumption DEF TypeOK, RingTypeOK
  <2>4. CASE BeginEntry
    BY <2>2, <2>3, <2>4, RingAssumption DEF BeginEntry, RingInv, TypeOK, RingTypeOK
  <2>5. CASE EndEntry
    BY <2>2, <2>3, <2>5, RingAssumption DEF EndEntry, RingInv, TypeOK, RingTypeOK
  <2>6. CASE PublishHeader
    BY <2>2, <2>6, RingAssumption DEF PublishHeader, RingInv, TypeOK, RingTypeOK
  <2>7. UNCHANGED ringVars \/ BeginEntry \/ EndEntry \/ PublishHeader
    BY DEF Next, vars, Produce, RequestStop, Kill, Run, Attach, OpenWriter,
           FailToOpen, CheckStop, PollNothing, PollFrames, Take, CopySlot,
           FinishRead, WriteEntries, FailToWrite, WriteStateFile, Drain,
           ReportWrite, AnnounceStopped, Close
  <2>8. QED
    BY <2>1, <2>4, <2>5, <2>6, <2>7
<1>3. QED  BY <1>1, <1>2, Typing, PTL DEF Spec

(* Frames written from an ordered batch continue the order of the file. *)
LEMMA WrittenInOrder ==
  ASSUME TypeOK, AccountInv, pc = "write", FramesInOrder, ~overrun,
         \A n \in 1 .. Len(batch) : batch[n] = read_idx - Len(batch) + n - 1,
         NEW k \in 0 .. Len(batch), log' = log \o SubSeq(batch, 1, k),
         first' = first
  PROVE  \A n \in 1 .. Len(log') : log'[n] = first' + n - 1
<1> USE DEF TypeOK
<1>1. /\ Len(log') = Len(log) + k
      /\ \A n \in 1 .. Len(log) : log'[n] = log[n]
      /\ \A n \in Len(log) + 1 .. Len(log) + k : log'[n] = batch[n - Len(log)]
  <2>1. log \in Seq(Frames \cup {NoFrame}) /\ batch \in Seq(Frames \cup {NoFrame})
    OBVIOUS
  <2>2. QED
    BY <2>1, WrittenFrames
<1>2. first + Len(log) = read_idx - Len(batch)
  BY DEF AccountInv, Unharmed, Held
<1>3. TAKE n \in 1 .. Len(log')
<1>4. CASE n <= Len(log)
  <2>1. n \in 1 .. Len(log)
    BY <1>4
  <2>2. QED
    BY <1>1, <2>1 DEF FramesInOrder
<1>5. CASE n > Len(log)
  <2> DEFINE m == n - Len(log)
  <2>1. /\ m \in 1 .. Len(batch) /\ n \in Len(log) + 1 .. Len(log) + k
        /\ Len(log) \in Nat /\ Len(batch) \in Nat /\ n \in Nat
        /\ first \in Nat
    BY <1>1, <1>5
  <2>2. batch[m] = read_idx - Len(batch) + m - 1
    BY <2>1
  <2>3. (first + Len(log)) + (n - Len(log)) - 1 = first + n - 1
    BY <2>1
  <2>4. QED
    BY <1>1, <1>2, <2>1, <2>2, <2>3
<1>6. QED
  BY <1>4, <1>5

(* A recorder that was not lapped copies and writes in order. *)
LEMMA Order == Spec => []OrderInv
<1>1. Init => OrderInv
  BY DEF Init, OrderInv, StillReading, FramesInOrder
<1>2. TypeOK /\ IndexInv /\ AccountInv /\ DrainInv /\ RingInv /\ OrderInv
        /\ [Next]_vars => OrderInv'
  <2> SUFFICES ASSUME TypeOK, IndexInv, AccountInv, DrainInv, RingInv,
                      OrderInv, [Next]_vars, ~overrun'
               PROVE  /\ StillReading' =>
                           /\ write_idx' - Capacity <= Cursor'
                           /\ producer' # "idle" => write_idx' - Capacity # Cursor'
                      /\ pc' = "read" =>
                           \A n \in 1 .. Len(batch') :
                              batch'[n] = read_idx' + n - 1
                      /\ pc' = "write" =>
                           \A n \in 1 .. Len(batch') :
                              batch'[n] = read_idx' - Len(batch') + n - 1
                      /\ FramesInOrder'
    BY DEF OrderInv
  <2> USE DEF OrderInv, FramesInOrder, StillReading, Cursor, TypeOK, IndexInv,
              RingTypeOK, ringVars, readerVars, writerVars, statusVars,
              historyVars
  <2>0. Capacity \in Nat /\ Capacity > 0
    BY RingAssumption
  <2>1. CASE Produce
    <3>1. ~overrun /\ UNCHANGED <<pc, draining, readerVars, log, first>>
      BY <2>1 DEF Produce
    <3>2. CASE BeginEntry
      <4>1. ~Laps
        BY <2>1, <3>1, <3>2 DEF Produce, BeginEntry, EndEntry, PublishHeader
      <4>2. QED
        BY <2>0, <3>1, <3>2, <4>1 DEF BeginEntry, Laps
    <3>3. CASE EndEntry
      BY <2>0, <3>1, <3>3 DEF EndEntry
    <3>4. CASE PublishHeader
      <4>1. /\ Cursor' = Cursor /\ (StillReading' <=> StillReading)
            /\ Cursor \in Int /\ write_idx \in Int
        BY <3>1, <3>4
      <4>2. producer = "packed" /\ producer' = "idle" /\ write_idx' = write_idx + 1
        BY <3>4 DEF PublishHeader
      <4>3. StillReading => write_idx + 1 - Capacity <= Cursor
        <5> SUFFICES ASSUME StillReading PROVE write_idx + 1 - Capacity <= Cursor
          OBVIOUS
        <5>1. write_idx - Capacity <= Cursor /\ write_idx - Capacity # Cursor
          BY <3>1, <4>2
        <5> HIDE DEF Cursor
        <5>2. QED
          BY <2>0, <4>1, <5>1
      <4>4. StillReading' =>
              /\ write_idx' - Capacity <= Cursor'
              /\ producer' # "idle" => write_idx' - Capacity # Cursor'
        <5>1. write_idx + 1 - Capacity = write_idx' - Capacity
          BY <2>0, <4>1, <4>2
        <5>2. StillReading' => write_idx' - Capacity <= Cursor'
          <6> HIDE DEF Cursor, StillReading
          <6>1. QED
            BY <4>1, <4>3, <5>1, Zenon
        <5>3. QED
          BY <4>2, <5>2
      <4>5. QED
        BY <3>1, <4>4
    <3>5. QED
      BY <2>1, <3>2, <3>3, <3>4 DEF Produce
  <2>2. CASE RequestStop
    BY <2>0, <2>2 DEF RequestStop
  <2>3. CASE Kill
    BY <2>0, <2>3 DEF Kill, Ended
  <2>4. CASE Attach
    BY <2>0, <2>4 DEF Attach, AttachIndex, AccountInv
  <2>5. CASE OpenWriter
    BY <2>0, <2>5 DEF OpenWriter
  <2>6. CASE FailToOpen
    BY <2>0, <2>6 DEF FailToOpen
  <2>7. CASE CheckStop
    BY <2>0, <2>7 DEF CheckStop, DrainInv
  <2>8. CASE PollNothing
    BY <2>0, <2>8 DEF PollNothing, UpdateStatus
  <2>9. CASE PollFrames
    BY <2>0, <2>9 DEF PollFrames
  <2>10. CASE Take
    BY <2>0, <2>10 DEF Take
  <2>11. CASE CopySlot
    <3> DEFINE i == read_idx + Len(batch)
    <3>1. i \in 0 .. write_idx - 1 /\ Len(batch) \in Nat /\ i = Cursor
      BY <2>11 DEF CopySlot
    <3>2. slots[SlotOf(i)] = i
      BY <2>0, <2>11, <3>1 DEF CopySlot, RingInv
    <3>3. /\ batch' = Append(batch, i) /\ Len(batch') = Len(batch) + 1
          /\ pc = "read" /\ pc' = "read" /\ read_idx' = read_idx
      BY <2>11, <3>2 DEF CopySlot, ReadByIndex
    <3>4. \A n \in 1 .. Len(batch') : batch'[n] = read_idx' + n - 1
      <4>1. \A n \in 1 .. Len(batch) : batch'[n] = batch[n]
        BY <3>3
      <4>2. \A n \in 1 .. Len(batch) : batch[n] = read_idx + n - 1
        BY <2>11 DEF CopySlot
      <4>3. batch'[Len(batch) + 1] = read_idx + (Len(batch) + 1) - 1
        BY <3>1, <3>3
      <4>4. QED
        BY <3>1, <3>3, <4>1, <4>2, <4>3
    <3>5. QED
      BY <2>0, <2>11, <3>1, <3>3, <3>4 DEF CopySlot
  <2>12. CASE FinishRead
    <3>1. /\ pc = "read" /\ batch' = batch /\ pc' = "write"
          /\ Len(batch) = count /\ read_idx' = read_idx + count
      BY <2>12 DEF FinishRead, AdvancedIndex
    <3>2. read_idx' - Len(batch') = read_idx
      BY <3>1
    <3>3. \A n \in 1 .. Len(batch) : batch[n] = read_idx + n - 1
      BY <2>12, <3>1 DEF FinishRead
    <3>4. \A n \in 1 .. Len(batch') :
             batch'[n] = read_idx' - Len(batch') + n - 1
      BY <3>1, <3>2, <3>3
    <3>5. QED
      BY <2>0, <2>12, <3>1, <3>4 DEF FinishRead
  <2>13. CASE WriteEntries
    <3>1. SubSeq(batch, 1, Len(batch)) = batch /\ Len(batch) \in 0 .. Len(batch)
      OBVIOUS
    <3>2. log' = log \o SubSeq(batch, 1, Len(batch)) /\ pc = "write" /\ pc' = "save"
      BY <2>13, <3>1 DEF WriteEntries
    <3>3. \A n \in 1 .. Len(log') : log'[n] = first' + n - 1
      BY <2>13, <3>1, <3>2, WrittenInOrder DEF WriteEntries
    <3>4. QED
      BY <2>0, <2>13, <3>2, <3>3 DEF WriteEntries
  <2>14. CASE FailToWrite
    <3>1. PICK k \in 0 .. Len(batch) : log' = log \o SubSeq(batch, 1, k)
      BY <2>14 DEF FailToWrite
    <3>2. \A n \in 1 .. Len(log') : log'[n] = first' + n - 1
      BY <2>14, <3>1, WrittenInOrder DEF FailToWrite
    <3>3. QED
      BY <2>14, <3>2 DEF FailToWrite
  <2>15. CASE WriteStateFile
    BY <2>0, <2>15 DEF WriteStateFile
  <2>16. CASE Drain
    BY <2>0, <2>16 DEF Drain
  <2>17. CASE ReportWrite
    BY <2>0, <2>17 DEF ReportWrite, UpdateStatus
  <2>18. CASE AnnounceStopped
    BY <2>0, <2>18 DEF AnnounceStopped
  <2>19. CASE Close
    BY <2>0, <2>19 DEF Close
  <2>20. CASE UNCHANGED vars
    BY <2>0, <2>20 DEF vars
  <2>21. QED
    BY <2>1, <2>2, <2>3, <2>4, <2>5, <2>6, <2>7, <2>8, <2>9, <2>10, <2>11,
       <2>12, <2>13, <2>14, <2>15, <2>16, <2>17, <2>18, <2>19, <2>20
    DEF Next, Run
<1>3. QED
  BY <1>1, <1>2, Typing, Accounting, Draining, RingHolds, PTL DEF Spec

(* FramesInOrder holds of every recording: as long as the producer did not  *)
(* overwrite a frame still to be read, the file is the published frames     *)
(* from the attach on, without gap, repetition or torn frame.               *)
THEOREM FramesInOrderCorrect == Spec => []FramesInOrder
<1>1. OrderInv => FramesInOrder
  BY DEF OrderInv, FramesInOrder
<1>2. QED  BY <1>1, Order, PTL

(* All parts of the inductive invariant hold of every recording. *)
THEOREM RecorderInvCorrect == Spec => []RecorderInv
  BY Typing, Accounting, Draining, StatusKept, RingHolds, Order, Freshness, PTL
  DEF RecorderInv

-----------------------------------------------------------------------------
(* The recorder implements the abstract Recording: every step of producer,  *)
(* service or recorder is a step of Recording or leaves its state alone.    *)
(* The state of Recording that a step has to respect. *)
LEMMA PhaseUnchanged ==
  ASSUME Phase' = Phase, UNCHANGED <<write_idx, first, log, stop_event, due, overrun, sent>>
  PROVE  UNCHANGED Abstract!tapeVars
  BY DEF Abstract!tapeVars

(* The phases, by where the recorder is. *)
LEMMA PhaseCases ==
  /\ pc \in {"attach", "open"} => Phase = "starting"
  /\ pc \in {"loop", "poll"} => Phase = "polling"
  /\ pc \in {"take", "read", "write", "save"} /\ ~draining => Phase = "polling"
  /\ pc \in {"take", "read", "write", "save"} /\ draining => Phase = "draining"
  /\ pc \in {"drain", "report"} => Phase = "draining"
  /\ pc = "announce" => Phase = "drained"
  /\ pc = "close" /\ Reported("STOPPED") => Phase = "stopped"
  /\ pc = "close" /\ ~Reported("STOPPED") => Phase = "failed"
  /\ pc \in {"exited", "dead"} => Phase = "exited"
<1>1. pc \in {"attach", "open"} => Phase = "starting"
  BY DEF Phase
<1>2. pc \in {"loop", "poll"} => Phase = "polling"
  BY DEF Phase
<1>3. /\ pc \in {"take", "read", "write", "save"} /\ ~draining => Phase = "polling"
      /\ pc \in {"take", "read", "write", "save"} /\ draining => Phase = "draining"
  BY DEF Phase
<1>4. pc \in {"drain", "report"} => Phase = "draining"
  BY DEF Phase
<1>5. pc = "announce" => Phase = "drained"
  BY DEF Phase
<1>6. /\ pc = "close" /\ Reported("STOPPED") => Phase = "stopped"
      /\ pc = "close" /\ ~Reported("STOPPED") => Phase = "failed"
  BY DEF Phase
<1>7. pc \in {"exited", "dead"} => Phase = "exited"
  BY DEF Phase
<1>8. QED
  BY <1>1, <1>2, <1>3, <1>4, <1>5, <1>6, <1>7

(* The same of the next state. *)
LEMMA PhaseCasesNext ==
  /\ pc' \in {"attach", "open"} => Phase' = "starting"
  /\ pc' \in {"loop", "poll"} => Phase' = "polling"
  /\ pc' \in {"take", "read", "write", "save"} /\ ~draining' => Phase' = "polling"
  /\ pc' \in {"take", "read", "write", "save"} /\ draining' => Phase' = "draining"
  /\ pc' \in {"drain", "report"} => Phase' = "draining"
  /\ pc' = "announce" => Phase' = "drained"
  /\ pc' = "close" /\ Reported("STOPPED")' => Phase' = "stopped"
  /\ pc' = "close" /\ ~Reported("STOPPED")' => Phase' = "failed"
  /\ pc' \in {"exited", "dead"} => Phase' = "exited"
<1>1. pc' \in {"attach", "open"} => Phase' = "starting"
  BY DEF Phase
<1>2. pc' \in {"loop", "poll"} => Phase' = "polling"
  BY DEF Phase
<1>3. /\ pc' \in {"take", "read", "write", "save"} /\ ~draining' => Phase' = "polling"
      /\ pc' \in {"take", "read", "write", "save"} /\ draining' => Phase' = "draining"
  BY DEF Phase
<1>4. pc' \in {"drain", "report"} => Phase' = "draining"
  BY DEF Phase
<1>5. pc' = "announce" => Phase' = "drained"
  BY DEF Phase
<1>6. /\ pc' = "close" /\ Reported("STOPPED")' => Phase' = "stopped"
      /\ pc' = "close" /\ ~Reported("STOPPED")' => Phase' = "failed"
  BY DEF Phase
<1>7. pc' \in {"exited", "dead"} => Phase' = "exited"
  BY DEF Phase
<1>8. QED
  BY <1>1, <1>2, <1>3, <1>4, <1>5, <1>6, <1>7

(* What has been recorded had been published. *)
LEMMA RecordedWasPublished ==
  ASSUME TypeOK, IndexInv, AccountInv, Unharmed
  PROVE  first + Len(log) + Held <= write_idx /\ first + Len(log) <= write_idx
<1>1. Held \in Nat /\ Len(log) \in Nat /\ first \in Nat /\ write_idx \in Nat
  BY DEF TypeOK, RingTypeOK, Held
<1>2. first + Len(log) + Held <= write_idx
  BY DEF TypeOK, RingTypeOK, IndexInv, AccountInv, Held
<1> HIDE DEF Held
<1>3. QED
  BY <1>1, <1>2

(* A process that ends, killed or not opened. *)
LEMMA Dies ==
  ASSUME TypeOK, pc \notin {"exited", "dead"}, pc' = "dead",
         UNCHANGED <<write_idx, first, log, stop_event, due, overrun, sent>>
  PROVE  Abstract!Next
<1>1. Phase \in Abstract!Dying.from /\ Abstract!Dying.to = "exited"
  <2>1. pc \in Locations \ {"exited", "dead"} /\ draining \in BOOLEAN
    BY DEF TypeOK
  <2>2. Phase \in {"starting", "polling", "draining", "drained", "stopped", "failed"}
    BY <2>1, PhaseCases DEF Locations
  <2>3. QED
    BY <2>2 DEF Abstract!Dying, Abstract!Move
<1>2. Phase' = "exited"
  BY PhaseCasesNext
<1>3. Abstract!Die
  BY <1>1, <1>2 DEF Abstract!Die, Abstract!Step, Abstract!stopVars
<1>4. QED
  BY <1>3 DEF Abstract!Next

(* The steps of the environment: the producer, the service, the end of the  *)
(* process.                                                                 *)
LEMMA EnvironmentSteps ==
  ASSUME RecorderInv, RecorderInv', Produce \/ RequestStop \/ Kill
  PROVE  Abstract!Next \/ UNCHANGED Abstract!tapeVars
<1> USE DEF RecorderInv, Abstract!stopVars
<1>1. CASE Produce
  <2>1. /\ UNCHANGED <<pc, draining, sent, first, log, stop_event, due>>
        /\ BeginEntry \/ EndEntry \/ PublishHeader
    BY <1>1 DEF Produce, readerVars, writerVars, statusVars
  <2>2. Phase' = Phase
    BY <2>1 DEF Phase, Reported
  <2>3. CASE PublishHeader
    <3>1. overrun' = overrun /\ write_idx' = write_idx + 1
      BY <1>1, <2>3 DEF Produce, BeginEntry, EndEntry, PublishHeader
    <3>2. Abstract!Publish
      BY <2>1, <2>2, <3>1 DEF Abstract!Publish
    <3>3. QED
      BY <3>2 DEF Abstract!Next
  <2>4. CASE EndEntry
    <3>1. overrun' = overrun /\ write_idx' = write_idx
      BY <1>1, <2>4 DEF Produce, BeginEntry, EndEntry, PublishHeader
    <3>2. QED
      BY <2>1, <2>2, <3>1, PhaseUnchanged
  <2>5. CASE BeginEntry
    <3>1. overrun' = (overrun \/ Laps) /\ write_idx' = write_idx
      BY <1>1, <2>5 DEF Produce, BeginEntry, EndEntry, PublishHeader
    <3>2. CASE Laps
      <4>1. overrun' = TRUE
        BY <3>1, <3>2
      <4>2. Phase \in {"starting", "polling", "draining"}
        <5>1. draining \in BOOLEAN
          BY DEF TypeOK
        <5>2. QED
          BY <3>2, <5>1, PhaseCases DEF Laps, StillReading
      <4>3. Abstract!Overtake
        BY <2>1, <2>2, <3>1, <4>1, <4>2 DEF Abstract!Overtake
      <4>4. QED
        BY <4>3 DEF Abstract!Next
    <3>3. CASE ~Laps
      <4>1. overrun' = overrun
        BY <3>1, <3>3 DEF TypeOK
      <4>2. QED
        BY <2>1, <2>2, <3>1, <4>1, PhaseUnchanged
    <3>4. QED
      BY <3>2, <3>3
  <2>6. QED
    BY <2>1, <2>3, <2>4, <2>5
<1>2. CASE RequestStop
  <2>1. /\ UNCHANGED <<write_idx, pc, draining, sent, first, log, overrun>>
        /\ ~stop_event /\ stop_event' = TRUE /\ due' = write_idx
    BY <1>2 DEF RequestStop, ringVars, writerVars, statusVars
  <2>2. Phase' = Phase
    BY <2>1 DEF Phase, Reported
  <2>3. Abstract!RequestStop
    BY <2>1, <2>2 DEF Abstract!RequestStop
  <2>4. QED
    BY <2>3 DEF Abstract!Next
<1>3. CASE Kill
  <2>1. /\ UNCHANGED <<write_idx, sent, first, log, stop_event, due, overrun>>
        /\ pc' = "dead" /\ pc \notin {"exited", "dead"}
    BY <1>3 DEF Kill, Ended, ringVars, writerVars, statusVars, historyVars
  <2>2. QED
    BY <2>1, Dies
<1>4. QED  BY <1>1, <1>2, <1>3

(* Writing k frames of the batch is a step of the tape. *)
LEMMA WriteRecords ==
  ASSUME RecorderInv, pc = "write",
         NEW k \in 0 .. Len(batch), log' = log \o SubSeq(batch, 1, k),
         UNCHANGED <<write_idx, first, stop_event, due, overrun, sent>>
  PROVE  Abstract!Record /\ Phase = IF draining THEN "draining" ELSE "polling"
<1> USE DEF RecorderInv, TypeOK
<1>1. /\ Len(log') = Len(log) + k
      /\ \A n \in 1 .. Len(log) : log'[n] = log[n]
  <2>1. log \in Seq(Frames \cup {NoFrame}) /\ batch \in Seq(Frames \cup {NoFrame})
    OBVIOUS
  <2>2. QED
    BY <2>1, WrittenFrames
<1>2. first + Len(log) + Len(batch) <= write_idx
  BY RecordedWasPublished DEF Unharmed, Held
<1>3. first + Len(log') <= write_idx
  BY <1>1, <1>2 DEF RingTypeOK
<1>4. ~overrun => \A n \in 1 .. Len(log') : log'[n] = first' + n - 1
  BY WrittenInOrder DEF OrderInv
<1>5. Phase = IF draining THEN "draining" ELSE "polling"
  BY PhaseCases
<1>6. QED
  BY <1>1, <1>3, <1>4, <1>5 DEF Abstract!Record, Abstract!stopVars

(* What the drain was to write is written when it is over. *)
LEMMA DrainHolds ==
  ASSUME RecorderInv, pc \in {"drain", "report"}, due <= read_idx
  PROVE  first + Len(log) >= due
<1>1. first + Len(log) + Held = read_idx /\ Held = 0
  BY DEF RecorderInv, AccountInv, Unharmed, Held
<1>2. QED
  BY <1>1 DEF RecorderInv, TypeOK

(* The steps of run(). *)
LEMMA RunSteps ==
  ASSUME RecorderInv, RecorderInv', Run
  PROVE  Abstract!Next \/ UNCHANGED Abstract!tapeVars
<1> USE DEF ringVars, readerVars, writerVars, statusVars, historyVars, Abstract!stopVars,
            Abstract!Step, Abstract!Tell, Abstract!Move
<1>1. /\ TypeOK /\ TypeOK' /\ draining \in BOOLEAN /\ draining' \in BOOLEAN
      /\ IndexInv /\ AccountInv /\ DrainInv /\ StatusInv
  BY DEF RecorderInv, TypeOK
<1>2. CASE Attach
  <2>1. /\ UNCHANGED <<write_idx, sent, log, stop_event, due, overrun>>
        /\ first' = write_idx /\ pc = "attach" /\ pc' = "open"
    BY <1>2 DEF Attach, AttachIndex
  <2>2. Phase = "starting" /\ Phase' = "starting"
    BY <2>1, PhaseCases, PhaseCasesNext
  <2>3. Abstract!Attach
    BY <2>1, <2>2 DEF Abstract!Attach
  <2>4. QED
    BY <2>3 DEF Abstract!Next
<1>3. CASE FailToOpen
  <2>1. /\ UNCHANGED <<write_idx, sent, first, log, stop_event, due, overrun>>
        /\ pc \in {"attach", "open"} /\ pc' = "dead"
    BY <1>3 DEF FailToOpen
  <2>2. QED
    BY <1>1, <2>1, Dies
<1>4. CASE OpenWriter
  <2>1. /\ UNCHANGED <<write_idx, first, log, stop_event, due, overrun>>
        /\ sent' = Append(sent, "WAIT_RING") /\ pc = "open" /\ pc' = "loop"
    BY <1>4 DEF OpenWriter
  <2>2. Phase = "starting" /\ Phase' = "polling"
    BY <2>1, PhaseCases, PhaseCasesNext
  <2>3. Abstract!Begin
    BY <2>1, <2>2 DEF Abstract!Begin, Abstract!Beginning
  <2>4. QED
    BY <2>3 DEF Abstract!Next
<1>5. CASE CheckStop
  <2>1. /\ UNCHANGED <<write_idx, sent, first, log, stop_event, due, overrun>>
        /\ pc = "loop" /\ pc' = IF stop_event THEN "drain" ELSE "poll"
    BY <1>5 DEF CheckStop
  <2>2. Phase = "polling"
    BY <2>1, PhaseCases
  <2>3. CASE stop_event
    <3>1. Phase' = "draining"
      BY <2>1, <2>3, PhaseCasesNext
    <3>2. Abstract!SeeStop
      BY <2>1, <2>2, <2>3, <3>1 DEF Abstract!SeeStop, Abstract!SeeingStop
    <3>3. QED
      BY <3>2 DEF Abstract!Next
  <2>4. CASE ~stop_event
    <3>1. Phase' = "polling"
      BY <2>1, <2>4, PhaseCasesNext
    <3>2. QED
      BY <2>1, <2>2, <3>1, PhaseUnchanged
  <2>5. QED
    BY <2>3, <2>4
<1>6. CASE PollNothing
  <2>1. /\ UNCHANGED <<write_idx, first, log, stop_event, due, overrun>>
        /\ pc = "poll" /\ pc' = "loop" /\ UpdateStatus("WAIT_RING")
    BY <1>6 DEF PollNothing
  <2>2. sent' = sent
    BY <1>1, <2>1 DEF UpdateStatus, StatusInv
  <2>3. Phase = "polling" /\ Phase' = "polling"
    BY <2>1, PhaseCases, PhaseCasesNext
  <2>4. QED
    BY <2>1, <2>2, <2>3, PhaseUnchanged
<1>7. CASE PollFrames
  <2>1. /\ UNCHANGED <<write_idx, sent, first, log, stop_event, due, overrun, draining>>
        /\ pc = "poll" /\ pc' = "take"
    BY <1>7 DEF PollFrames
  <2>2. ~draining /\ ~draining'
    BY <1>1, <2>1 DEF DrainInv
  <2>3. Phase = "polling" /\ Phase' = "polling"
    BY <2>1, <2>2, PhaseCases, PhaseCasesNext
  <2>4. QED
    BY <2>1, <2>3, PhaseUnchanged
<1>8. CASE Take \/ CopySlot \/ FinishRead
  <2>1. /\ UNCHANGED <<write_idx, sent, first, log, stop_event, due, overrun, draining>>
        /\ pc \in {"take", "read"} /\ pc' \in {"read", "write"}
    BY <1>8 DEF Take, CopySlot, FinishRead
  <2>2. Phase' = Phase
    BY <1>1, <2>1, PhaseCases, PhaseCasesNext
  <2>3. QED
    BY <2>1, <2>2, PhaseUnchanged
<1>9. CASE WriteEntries
  <2>1. /\ UNCHANGED <<write_idx, sent, first, stop_event, due, overrun, draining>>
        /\ log' = log \o batch /\ pc = "write" /\ pc' = "save"
    BY <1>9 DEF WriteEntries
  <2>2. SubSeq(batch, 1, Len(batch)) = batch /\ Len(batch) \in 0 .. Len(batch)
    BY <1>1 DEF TypeOK
  <2>3. Abstract!Record
    BY <2>1, <2>2, WriteRecords
  <2>4. Phase' = Phase
    BY <1>1, <2>1, PhaseCases, PhaseCasesNext
  <2>5. Abstract!Write
    BY <2>3, <2>4 DEF Abstract!Write
  <2>6. QED
    BY <2>5 DEF Abstract!Next
<1>10. CASE FailToWrite
  <2>1. /\ UNCHANGED <<write_idx, sent, first, stop_event, due, overrun>>
        /\ pc = "write" /\ pc' = "close"
    BY <1>10 DEF FailToWrite
  <2>2. PICK k \in 0 .. Len(batch) : log' = log \o SubSeq(batch, 1, k)
    BY <1>10 DEF FailToWrite
  <2>3. Abstract!Record /\ Phase = IF draining THEN "draining" ELSE "polling"
    BY <2>1, <2>2, WriteRecords
  <2>4. ~Reported("STOPPED")'
    <3>1. ~Reported("STOPPED")
      BY <1>1, <2>1 DEF DrainInv
    <3>2. QED
      BY <2>1, <3>1, SentUnchanged
  <2>5. Phase' = "failed"
    BY <2>1, <2>4, PhaseCasesNext
  <2>6. Abstract!Fail
    BY <1>1, <2>3, <2>5 DEF Abstract!Fail, Abstract!Failing
  <2>7. QED
    BY <2>6 DEF Abstract!Next
<1>11. CASE WriteStateFile
  <2>1. /\ UNCHANGED <<write_idx, sent, first, log, stop_event, due, overrun, draining>>
        /\ pc = "save" /\ pc' = IF draining THEN "report" ELSE "loop"
    BY <1>11 DEF WriteStateFile
  <2>2. Phase' = Phase
    BY <1>1, <2>1, PhaseCases, PhaseCasesNext
  <2>3. QED
    BY <2>1, <2>2, PhaseUnchanged
<1>12. CASE Drain
  <2>1. /\ UNCHANGED <<write_idx, sent, first, log, stop_event, due, overrun, draining, read_idx>>
        /\ pc = "drain" /\ pc' = IF Available > 0 THEN "take" ELSE "announce"
    BY <1>12 DEF Drain
  <2>2. Phase = "draining" /\ draining /\ draining'
    BY <1>1, <2>1, PhaseCases DEF DrainInv
  <2>3. CASE Available > 0
    <3>1. Phase' = "draining"
      BY <2>1, <2>2, <2>3, PhaseCasesNext
    <3>2. QED
      BY <2>1, <2>2, <3>1, PhaseUnchanged
  <2>4. CASE ~(Available > 0)
    <3>1. Phase' = "drained"
      BY <2>1, <2>4, PhaseCasesNext
    <3>2. due <= read_idx
      BY <1>1, <2>4 DEF Available, IndexInv, DrainInv, TypeOK, RingTypeOK
    <3>3. first + Len(log) >= due
      BY <2>1, <3>2, DrainHolds
    <3>4. Abstract!Drain
      BY <2>1, <2>2, <3>1, <3>3 DEF Abstract!Drain, Abstract!Draining
    <3>5. QED
      BY <3>4 DEF Abstract!Next
  <2>5. QED
    BY <2>3, <2>4
<1>13. CASE ReportWrite
  <2>1. /\ UNCHANGED <<write_idx, first, log, stop_event, due, overrun>>
        /\ pc = "report" /\ pc' = "announce" /\ UpdateStatus("WRITE_BATCH")
    BY <1>13 DEF ReportWrite
  <2>2. Phase = "draining" /\ Phase' = "drained"
    BY <2>1, PhaseCases, PhaseCasesNext
  <2>3. sent' = Append(sent, "WRITE_BATCH")
    BY <1>1, <2>1 DEF UpdateStatus, StatusInv
  <2>4. due <= read_idx
    BY <1>1, <2>1 DEF DrainInv
  <2>5. first + Len(log) >= due
    BY <2>1, <2>4, DrainHolds
  <2>6. Abstract!Drain
    BY <2>1, <2>2, <2>3, <2>5 DEF Abstract!Drain, Abstract!Draining
  <2>7. QED
    BY <2>6 DEF Abstract!Next
<1>14. CASE AnnounceStopped
  <2>1. /\ UNCHANGED <<write_idx, first, log, stop_event, due, overrun>>
        /\ sent' = Append(sent, "STOPPED") /\ pc = "announce" /\ pc' = "close"
    BY <1>14 DEF AnnounceStopped
  <2>2. Reported("STOPPED")'
    BY <1>1, <2>1, AppendReported DEF Statuses
  <2>3. Phase = "drained" /\ Phase' = "stopped"
    BY <2>1, <2>2, PhaseCases, PhaseCasesNext
  <2>4. Abstract!SayStopped
    BY <2>1, <2>3 DEF Abstract!SayStopped, Abstract!SayingStopped
  <2>5. QED
    BY <2>4 DEF Abstract!Next
<1>15. CASE Close
  <2>1. /\ UNCHANGED <<write_idx, sent, first, log, stop_event, due, overrun>>
        /\ pc = "close" /\ pc' = "exited"
    BY <1>15 DEF Close
  <2>2. Phase \in {"stopped", "failed"} /\ Phase' = "exited"
    BY <2>1, PhaseCases, PhaseCasesNext
  <2>3. Abstract!Close
    BY <2>1, <2>2 DEF Abstract!Close, Abstract!Closing
  <2>4. QED
    BY <2>3 DEF Abstract!Next
<1>16. QED
  BY <1>2, <1>3, <1>4, <1>5, <1>6, <1>7, <1>8, <1>9, <1>10, <1>11, <1>12, <1>13, <1>14,
     <1>15 DEF Run

(* The recorder is a Recording: a tape that only grows at its end, by       *)
(* published frames, in order unless lapped; drained only after a stop, and *)
(* with all that was published before it when that is over; its statuses    *)
(* told in this order, and its phases those the service reckons with.       *)
THEOREM RefinesRecording == Spec => ImplementsRecording
<1>1. Init => Abstract!Init
  <2> SUFFICES ASSUME Init PROVE Abstract!Init
    OBVIOUS
  <2>1. pc = "attach"
    BY DEF Init
  <2>2. Phase = "starting"
    BY <2>1, PhaseCases
  <2>3. QED
    BY <2>2 DEF Init, RingInit, Abstract!Init
<1>2. RecorderInv /\ RecorderInv' /\ [Next]_vars => [Abstract!Next]_(Abstract!tapeVars)
  <2>1. CASE UNCHANGED vars
    <3>1. UNCHANGED <<pc, draining, sent, write_idx, first, log, stop_event, due, overrun>>
      BY <2>1 DEF vars, ringVars, writerVars, statusVars, historyVars
    <3>2. Phase' = Phase
      BY <3>1 DEF Phase, Reported
    <3>3. QED
      BY <3>1, <3>2, PhaseUnchanged
  <2>2. CASE RecorderInv /\ RecorderInv' /\ Next
    BY <2>2, EnvironmentSteps, RunSteps DEF Next
  <2>3. QED
    BY <2>1, <2>2
<1>3. QED
  BY <1>1, <1>2, RecorderInvCorrect, PTL
  DEF Spec, ImplementsRecording, Abstract!Spec

=============================================================================
