------------------------- MODULE FileServiceProofs --------------------------
(***************************************************************************)
(* Theorems about FileServiceWorkers, for any number of recordings, calls,   *)
(* loads and decodes: first its recordings, then its loads and decodes.      *)
(* Each half has an inductive invariant of its own.                          *)
(***************************************************************************)
EXTENDS FileServiceWorkers, FiniteSetTheorems, TLAPS

-----------------------------------------------------------------------------
(* The recordings: the inductive invariant. *)

AnyPhase == {"none", "starting", "polling", "draining", "drained",
                   "stopped", "failed", "exited"}

HandleTypes == /\ phase \in [Recordings -> AnyPhase]
               /\ proc \in Recordings \cup {None}
               /\ said \subseteq Recordings /\ forgotten \subseteq Recordings
               /\ cell = [c \in Channels |-> cell[c]]

(* Recordings are started one after the other, and the handle is that of the *)
(* last one.                                                                 *)
LastIsHeld ==
  /\ \A r, s \in Recordings : s < r /\ phase[r] # "none" => phase[s] # "none"
  /\ proc # None => \A r \in Recordings : phase[r] # "none" => r <= proc

(* Who said STOPPED no longer works, and a STOPPED in the channel was said.  *)
SaidIsOver ==
  /\ \A r \in said : phase[r] \in {"stopped", "exited"}
  /\ "recorder" \in woken /\ cell["recorder"] = "STOPPED" => said # {}

(* Whoever works is held, or the service was made to forget it.              *)
WorkingIsHeld == \A r \in Recordings : Working(r) => r = proc \/ r \in forgotten

(* The STOPPED of the recorder that is held waits for an answer.             *)
StoppedWaits ==
  proc \in said =>
    \/ "recorder" \in woken /\ cell["recorder"] = "STOPPED"
    \/ "recorder" \notin attached
    \/ forgotten # {}

RecordingInv == /\ HandleTypes /\ LastIsHeld /\ SaidIsOver /\ WorkingIsHeld
                /\ ForgottenByEarlierStop /\ StoppedWaits

LEMMA RecordingBegins == Init => RecordingInv
  BY DEF Init, RecordingInit, ChannelsInit, RecordingInv, HandleTypes, LastIsHeld, SaidIsOver,
         WorkingIsHeld, ForgottenByEarlierStop, StoppedWaits, Working, AnyPhase,
         Recordings, None, Channels

-----------------------------------------------------------------------------
(* The steps of the service. *)

LEMMA StartRecordingKeeps ==
  ASSUME RecordingInv, StartRecording
  PROVE  RecordingInv'
<1>1. PICK r \in Recordings :
         /\ phase[r] = "none" /\ proc' = r
         /\ phase' = [phase EXCEPT ![r] = "starting"]
         /\ \A s \in 1 .. r - 1 : phase[s] # "none"
         /\ attached' = attached \cup {"recorder"}
         /\ UNCHANGED <<cell, woken>>
  BY DEF StartRecording, Spawn, Attach
<1>2. UNCHANGED <<said, forgotten>> /\ proc \notin {s \in Recordings : Alive(s)}
  BY DEF StartRecording, MayStart, askedVars
<1>3. /\ phase'[r] = "starting"
      /\ \A s \in Recordings : s # r => phase'[s] = phase[s]
      /\ r \notin said
  BY <1>1 DEF RecordingInv, HandleTypes, SaidIsOver
<1>4. HandleTypes'
  BY <1>1, <1>2 DEF RecordingInv, HandleTypes, AnyPhase
<1>5. LastIsHeld'
  BY <1>1, <1>3 DEF RecordingInv, LastIsHeld, Recordings
<1>6. SaidIsOver'
  BY <1>1, <1>2, <1>3 DEF RecordingInv, HandleTypes, SaidIsOver
<1>7. WorkingIsHeld'
  BY <1>1, <1>2, <1>3 DEF RecordingInv, WorkingIsHeld, Working, Alive
<1>8. ForgottenByEarlierStop' /\ StoppedWaits'
  BY <1>1, <1>2, <1>3 DEF RecordingInv, ForgottenByEarlierStop, StoppedWaits
<1>9. QED
  BY <1>4, <1>5, <1>6, <1>7, <1>8 DEF RecordingInv

(* The service lets go of a handle only if its process is not working.       *)
LEMMA LetGoKeeps ==
  ASSUME RecordingInv, LetGo, UNCHANGED <<phase, said, forgotten>>,
         proc # None => ~Working(proc)
  PROVE  RecordingInv'
<1>1. proc' = None /\ attached' = {} /\ woken' \subseteq woken /\ cell' = cell
  BY DEF LetGo, Detach
<1>2. QED
  BY <1>1 DEF RecordingInv, HandleTypes, LastIsHeld, SaidIsOver, WorkingIsHeld,
              ForgottenByEarlierStop, StoppedWaits, Working, Recordings, None

(* Nothing of the recordings changes. *)
LEMMA SameRecording ==
  ASSUME RecordingInv, UNCHANGED <<proc, phase, said, forgotten, channelVars>>
  PROVE  RecordingInv'
  BY DEF RecordingInv, HandleTypes, LastIsHeld, SaidIsOver, WorkingIsHeld,
         ForgottenByEarlierStop, StoppedWaits, Working, channelVars

LEMMA StopRecordingKeeps ==
  ASSUME RecordingInv, NEW whole \in BOOLEAN, StopRecording(whole)
  PROVE  RecordingInv'
<1>1. UNCHANGED <<phase, said, forgotten>>
  BY DEF StopRecording
<1>2. CASE proc = None
  BY <1>1, <1>2, LetGoKeeps DEF StopRecording
<1>3. CASE proc # None
  BY <1>1, <1>3, SameRecording DEF StopRecording, handleVars
<1>4. QED
  BY <1>2, <1>3

LEMMA JoinedKeeps ==
  ASSUME RecordingInv, Joined
  PROVE  RecordingInv'
<1>1. UNCHANGED <<phase, said, forgotten>>
  BY DEF Joined, askedVars
<1>2. CASE StillAlive(proc)
  BY <1>1, <1>2, SameRecording DEF Joined, handleVars
<1>3. CASE ~StillAlive(proc)
  BY <1>1, <1>3, LetGoKeeps DEF Joined, StillAlive, Alive, Working
<1>4. QED
  BY <1>2, <1>3

(* A STOPPED of the channel is of the recorder held, or of an earlier one.   *)
LEMMA OnRecorderStatusKeeps ==
  ASSUME RecordingInv, OnRecorderStatus
  PROVE  RecordingInv'
<1>1. UNCHANGED <<phase, said, cell>> /\ "recorder" \in woken /\ "recorder" \in attached
      /\ woken' \subseteq woken
  BY DEF OnRecorderStatus, Wakes, Answer, Detach
<1>2. CASE cell["recorder"] = "STOPPED"
  <2>1. /\ proc' = None /\ attached' = {}
        /\ forgotten' = forgotten \cup {r \in {proc} : r # None /\ Working(r)}
    BY <1>2 DEF OnRecorderStatus, Answer, Detach, Ends
  <2>2. PICK s \in said : TRUE
    BY <1>1, <1>2 DEF RecordingInv, SaidIsOver
  <2>3. s \in Recordings /\ phase[s] \in {"stopped", "exited"}
    BY <2>2 DEF RecordingInv, HandleTypes, SaidIsOver
  <2>4. proc # None /\ Working(proc) => s < proc /\ proc \in Recordings
    BY <2>3 DEF RecordingInv, HandleTypes, LastIsHeld, Working, Recordings, None
  <2>5. ForgottenByEarlierStop'
    BY <1>1, <2>1, <2>2, <2>4 DEF RecordingInv, ForgottenByEarlierStop
  <2>6. HandleTypes' /\ LastIsHeld' /\ StoppedWaits'
    BY <1>1, <2>1, <2>4
       DEF RecordingInv, HandleTypes, LastIsHeld, StoppedWaits, Recordings, None
  <2>7. SaidIsOver' /\ WorkingIsHeld'
    BY <1>1, <2>1 DEF RecordingInv, SaidIsOver, WorkingIsHeld, Working, Recordings, None
  <2>8. QED
    BY <2>5, <2>6, <2>7 DEF RecordingInv
<1>3. CASE cell["recorder"] # "STOPPED"
  <2>1. UNCHANGED <<proc, forgotten, attached>>
    BY <1>3 DEF OnRecorderStatus, Answer, Ends, handleVars
  <2>2. QED
    BY <1>1, <1>3, <2>1
       DEF RecordingInv, HandleTypes, LastIsHeld, SaidIsOver, WorkingIsHeld,
           ForgottenByEarlierStop, StoppedWaits, Working
<1>4. QED
  BY <1>2, <1>3

-----------------------------------------------------------------------------
(* The steps of the recorder processes. *)

(* A recorder ends its work or goes on with it; what it sends is not the     *)
(* status of another.                                                        *)
LEMMA ProcessKeeps ==
  ASSUME RecordingInv, NEW r \in Recordings, Recorder(r) \/ RecorderFails(r)
  PROVE  RecordingInv'
<1> USE DEF Move, Beginning, SeeingStop, Draining, SayingStopped, Failing, Closing, Dying
<1>1. UNCHANGED <<proc, forgotten, attached>>
  BY DEF Recorder, RecorderFails, handleVars, askedVars, Begin, SeeStop, Drain, SayStopped,
         Close, Fail, Kill, Send, channelVars
<1>2. /\ phase[r] # "none"
      /\ \E to \in AnyPhase \ {"none", "starting"} : phase' = [phase EXCEPT ![r] = to]
      /\ Working(r)' => Working(r)
  BY DEF Recorder, RecorderFails, Begin, SeeStop, Drain, SayStopped, Close, Fail, Kill, Step,
         Alive, Working, AnyPhase, RecordingInv, HandleTypes
<1>3. /\ phase'[r] # "none"
      /\ \A s \in Recordings : s # r => phase'[s] = phase[s]
      /\ \A s \in Recordings : phase'[s] = "none" <=> phase[s] = "none"
      /\ \A s \in Recordings : Working(s)' => Working(s)
  BY <1>2 DEF RecordingInv, HandleTypes, Working
<1>4. \/ said' = said /\ UNCHANGED <<cell, woken>>
      \/ /\ said' = said /\ r \notin said /\ Working(r)
         /\ cell' = [cell EXCEPT !["recorder"] = cell'["recorder"]]
         /\ cell'["recorder"] # "STOPPED"
      \/ /\ said' = said \cup {r} /\ phase'[r] = "stopped"
         /\ cell' = [cell EXCEPT !["recorder"] = "STOPPED"]
         /\ woken' = woken \cup {"recorder"}
  BY DEF Recorder, RecorderFails, Begin, SeeStop, Drain, SayStopped, Close, Fail, Kill, Step,
         Send, Working, RecordingInv, HandleTypes, SaidIsOver, Channels, channelVars
<1>5. r \in said => phase'[r] \in {"stopped", "exited"}
  BY DEF Recorder, RecorderFails, Begin, SeeStop, Drain, SayStopped, Close, Fail, Kill, Step,
         RecordingInv, HandleTypes, SaidIsOver
<1>6. HandleTypes'
  BY <1>1, <1>2, <1>4 DEF RecordingInv, HandleTypes, AnyPhase, Channels
<1>7. LastIsHeld' /\ WorkingIsHeld'
  BY <1>1, <1>3 DEF RecordingInv, HandleTypes, LastIsHeld, WorkingIsHeld
<1>8. SaidIsOver'
  BY <1>1, <1>3, <1>4, <1>5 DEF RecordingInv, HandleTypes, SaidIsOver
<1>9. ForgottenByEarlierStop'
  BY <1>1, <1>4 DEF RecordingInv, ForgottenByEarlierStop
<1>10. StoppedWaits'
  BY <1>1, <1>4 DEF RecordingInv, HandleTypes, WorkingIsHeld, StoppedWaits, Channels
<1>11. QED
  BY <1>6, <1>7, <1>8, <1>9, <1>10 DEF RecordingInv

-----------------------------------------------------------------------------
(* The steps of the other workers touch the channels only, and of the cells  *)
(* only their own.                                                           *)
LEMMA OthersKeepRecording ==
  ASSUME RecordingInv, recordingVars' = recordingVars,
         cell' = [cell EXCEPT !["decoder"] = cell'["decoder"]],
         "recorder" \in woken' => "recorder" \in woken,
         \/ attached' = {}
         \/ "recorder" \in woken => "recorder" \in woken',
         "recorder" \in attached' => "recorder" \in attached
  PROVE  RecordingInv'
<1>1. UNCHANGED <<proc, phase, said, forgotten>>
  BY DEF recordingVars, handleVars, askedVars
<1>2. cell'["recorder"] = cell["recorder"] /\ cell' = [c \in Channels |-> cell'[c]]
  BY DEF RecordingInv, HandleTypes, Channels
<1>3. QED
  BY <1>1, <1>2 DEF RecordingInv, HandleTypes, LastIsHeld, SaidIsOver, WorkingIsHeld,
                    ForgottenByEarlierStop, StoppedWaits, Working

LEMMA RecordingStep == RecordingInv /\ [Next]_vars => RecordingInv'
<1> SUFFICES ASSUME RecordingInv, [Next]_vars PROVE RecordingInv'
  OBVIOUS
<1>1. CASE RecordingNext
  <2>1. CASE StartService
    BY <2>1, SameRecording DEF StartService, handleVars
  <2>2. CASE StartRecording \/ Joined \/ OnRecorderStatus
    BY <2>2, StartRecordingKeeps, JoinedKeeps, OnRecorderStatusKeeps
  <2>3. QED
    BY <1>1, <2>1, <2>2, StopRecordingKeeps, ProcessKeeps DEF RecordingNext
<1>2. CASE \/ ParseDbcFile \/ AddDoneCallback
           \/ (PoolThread \/ \E n \in Loads : Raise(n))
              /\ UNCHANGED <<recordingAll, attaching, decodeVars>>
           \/ UNCHANGED vars
  <2>1. UNCHANGED <<recordingVars, channelVars>>
    BY <1>2 DEF ParseDbcFile, AddDoneCallback, recordingAll, vars
  <2>2. QED
    BY <2>1, SameRecording DEF recordingVars, handleVars, askedVars
<1>3. CASE Decode
  <2>1. recordingVars' = recordingVars /\ attached' = attached \cup {"decoder"}
        /\ UNCHANGED <<cell, woken>>
    BY <1>3 DEF Decode, Attach
  <2>2. QED
    BY <2>1, OthersKeepRecording DEF RecordingInv, HandleTypes, Channels
<1>4. CASE OnDecodeStatus
  <2>1. recordingVars' = recordingVars /\ attached' = {} /\ woken' \subseteq woken
        /\ cell' = cell
    BY <1>4 DEF OnDecodeStatus, Answer, Detach
  <2>2. QED
    BY <2>1, OthersKeepRecording DEF RecordingInv, HandleTypes, Channels
<1>5. CASE (\E d \in Decodes : DecodeProcess(d) \/ DecodeDies(d))
           /\ UNCHANGED <<serviceVars, recordingVars, dbcVars, attaching>>
  <2>1. recordingVars' = recordingVars /\ attached' = attached
        /\ woken \subseteq woken' /\ woken' \subseteq woken \cup {"decoder"}
        /\ (cell' = cell \/ \E status : cell' = [cell EXCEPT !["decoder"] = status])
    BY <1>5 DEF DecodeProcess, DecodeDies, LoadDatabase, RunDecoder, Wake, SendStatus, Send,
                Signal, channelVars
  <2>2. cell' = [cell EXCEPT !["decoder"] = cell'["decoder"]]
    BY <2>1 DEF RecordingInv, HandleTypes, Channels
  <2>3. QED
    BY <2>1, <2>2, OthersKeepRecording
<1>6. QED
  BY <1>1, <1>2, <1>3, <1>4, <1>5 DEF Next

-----------------------------------------------------------------------------
LEMMA RecordingInvariant == Spec => []RecordingInv
  BY RecordingBegins, RecordingStep, PTL DEF Spec

(* At most one recorder that the service knows of takes frames from the      *)
(* ring, whatever is called, joined, killed or answered late.                *)
THEOREM OneRecorderWorks == Spec => []OneRecorder
<1>1. RecordingInv => OneRecorder
  BY DEF RecordingInv, WorkingIsHeld, OneRecorder
<1>2. QED
  BY <1>1, RecordingInvariant, PTL

(* A working recorder is let go of only through a STOPPED said before it was *)
(* started.                                                                  *)
THEOREM ForgottenOnlyByEarlierStop == Spec => []ForgottenByEarlierStop
<1>1. RecordingInv => ForgottenByEarlierStop
  BY DEF RecordingInv
<1>2. QED
  BY <1>1, RecordingInvariant, PTL

(* The STOPPED of the recorder that is held is answered, unless the channel  *)
(* was detached or its status written over.                                  *)
THEOREM StoppedIsAnswered == Spec => []StoppedIsNoticed
<1>1. RecordingInv => StoppedIsNoticed
  BY DEF RecordingInv, StoppedWaits, StoppedIsNoticed, Wakes
<1>2. QED
  BY <1>1, RecordingInvariant, PTL

-----------------------------------------------------------------------------
(* The loads and the decodes: the inductive invariant. *)

InThread(n) == load[n] \in {"converting", "converted", "parsed", "saving"}

Taken(n) == load[n] \notin {"none", "queued"}

(* The thread is done with the load, and its end is told.                    *)
Told(n) == Ended(n) /\ n \notin callback /\ n # attaching

LoadTypes == /\ load \in [Loads -> Phases]
             /\ callback \subseteq Loads
             /\ {attaching, temp} \subseteq Loads \cup {Nothing}
             /\ parsed \in [Loads -> Loads \cup {Nothing}]
             /\ pickle \in [Loads -> Loads \cup {Nothing, Part}]
             /\ events \in Seq([load : Loads, ok : BOOLEAN])

(* One load at a time is with the thread, and the file is its own.           *)
FileIsTheThreads ==
  /\ \A m, n \in Loads : InThread(m) /\ InThread(n) => m = n
  /\ \A n \in Loads : load[n] = "converted" => temp = n

PickleFollows ==
  \A n \in Loads : /\ pickle[n] \in {Nothing, Part, n}
                   /\ load[n] \in {"parsed", "saving"} => parsed[n] = n
                   /\ load[n] = "returned" <=> pickle[n] = n

(* Calls are made one after the other, and only the last may lack a callback.*)
CallsInOrder ==
  /\ \A m, n \in Loads : m < n /\ load[n] # "none" => load[m] # "none"
  /\ attaching # Nothing => /\ load[attaching] # "none" /\ attaching \notin callback
                            /\ \A n \in Loads : attaching < n => load[n] = "none"
  /\ \A n \in callback : load[n] # "none"
  /\ \A n \in Loads : load[n] # "none" /\ ~Ended(n) => n \in callback \/ n = attaching

(* A load is taken when all before it are told.                              *)
TakenInOrder == \A m, n \in Loads : m < n /\ Taken(n) => Told(m)

EventsFollow ==
  /\ \A n \in Loads : Told(n) <=> n \in DOMAIN events
  /\ \A i \in DOMAIN events : /\ i \in Loads /\ events[i].load = i
                              /\ events[i].ok <=> load[i] = "returned"

DbcInv == /\ LoadTypes /\ FileIsTheThreads /\ PickleFollows /\ CallsInOrder
          /\ TakenInOrder /\ EventsFollow

LEMMA LoadingBegins == Init => DbcInv
  BY DEF Init, DbcInit, DbcInv, LoadTypes, FileIsTheThreads, PickleFollows, CallsInOrder,
         TakenInOrder, EventsFollow, InThread, Taken, Told, Ended, Phases, Nothing

-----------------------------------------------------------------------------
(* The calls. *)

(* A call of a load that is not ended tells nothing and holds nothing up.    *)
LEMMA SubmitKeeps ==
  ASSUME DbcInv, attaching = Nothing, NEW n \in Loads, Submit(n), attaching' = n
  PROVE  DbcInv'
<1>1. /\ load[n] = "none" /\ load' = [load EXCEPT ![n] = "queued"]
      /\ \A m \in 1 .. n - 1 : load[m] # "none"
      /\ UNCHANGED <<callback, temp, parsed, pickle, events>>
  BY DEF Submit
<1>2. load'[n] = "queued" /\ \A m \in Loads : m # n => load'[m] = load[m]
  BY <1>1 DEF DbcInv, LoadTypes
<1>3. LoadTypes'
  BY <1>1 DEF DbcInv, LoadTypes, Phases
<1>4. FileIsTheThreads' /\ PickleFollows'
  BY <1>1, <1>2 DEF DbcInv, FileIsTheThreads, PickleFollows, InThread
<1>5. \A m \in Loads : /\ Taken(m)' <=> Taken(m)
                       /\ Told(m)' <=> Told(m)
  BY <1>1, <1>2 DEF Taken, Told, Ended, Nothing, Loads
<1>6. CallsInOrder'
  BY <1>1, <1>2 DEF DbcInv, LoadTypes, CallsInOrder, Ended, Loads, Nothing
<1>7. TakenInOrder'
  BY <1>5 DEF DbcInv, TakenInOrder
<1>8. EventsFollow'
  <2>1. \A i \in DOMAIN events : i \in Loads /\ (load'[i] = "returned" <=> load[i] = "returned")
    BY <1>1, <1>2 DEF DbcInv, EventsFollow
  <2>2. QED
    BY <1>1, <1>5, <2>1 DEF DbcInv, EventsFollow
<1>9. QED
  BY <1>3, <1>4, <1>6, <1>7, <1>8 DEF DbcInv

(* The end of n is told: those before it were told, none behind it is.       *)
LEMMA TellingKeeps ==
  ASSUME DbcInv, NEW n \in Loads, OnDone(n), load' = load, ~Told(n), Taken(n),
         \A m \in Loads : Told(m)' <=> Told(m) \/ m = n,
         \A m \in Loads : n < m => ~Told(m)
  PROVE  EventsFollow' /\ TakenInOrder' /\ events' \in Seq([load : Loads, ok : BOOLEAN])
<1> DEFINE told == [load |-> n, ok |-> Succeeded(n)]
<1>1. events \in Seq([load : Loads, ok : BOOLEAN]) /\ events' = Append(events, told)
      /\ told \in [load : Loads, ok : BOOLEAN]
  BY DEF OnDone, Succeeded, DbcInv, LoadTypes
<1>2. events' \in Seq([load : Loads, ok : BOOLEAN])
  BY <1>1
<1>3. TakenInOrder'
  BY DEF DbcInv, TakenInOrder, Taken
<1>4. \A m \in Loads : m \in DOMAIN events <=> m < n
  <2>1. \A m \in Loads : m < n => Told(m)
    BY DEF DbcInv, TakenInOrder
  <2>2. \A m \in Loads : Told(m) <=> m < n
    BY <2>1 DEF Loads
  <2>3. QED
    BY <2>2 DEF DbcInv, EventsFollow
<1>5. Len(events) = n - 1
  <2>1. Len(events) \in Nat /\ DOMAIN events = 1 .. Len(events)
    BY <1>1
  <2>2. \A i \in DOMAIN events : i \in Loads
    BY DEF DbcInv, EventsFollow
  <2>3. n - 1 \in Nat /\ MaxLoads \in Nat /\ n \in 1 .. MaxLoads
    BY LoadsAssumption DEF Loads
  <2>4. n - 1 # 0 => n - 1 \in DOMAIN events
    BY <1>4, <2>3 DEF Loads
  <2>5. Len(events) # 0 => Len(events) < n
    BY <1>4, <2>1, <2>2
  <2>6. QED
    BY <2>1, <2>3, <2>4, <2>5
<1>6. /\ DOMAIN events' = DOMAIN events \cup {n}
      /\ events'[n] = told
      /\ \A i \in DOMAIN events : events'[i] = events[i] /\ i # n
  BY <1>1, <1>5 DEF Loads
<1>7. EventsFollow'
  <2>1. told.load = n /\ (told.ok <=> load[n] = "returned")
    BY DEF Succeeded
  <2> HIDE DEF told
  <2>2. \A i \in DOMAIN events' : /\ i \in Loads /\ events'[i].load = i
                                  /\ events'[i].ok <=> load'[i] = "returned"
    <3> SUFFICES ASSUME NEW i \in DOMAIN events'
                 PROVE  /\ i \in Loads /\ events'[i].load = i
                        /\ events'[i].ok <=> load'[i] = "returned"
      OBVIOUS
    <3>1. CASE i = n
      BY <1>6, <2>1, <3>1
    <3>2. CASE i \in DOMAIN events
      <4>1. events'[i] = events[i] /\ load'[i] = load[i]
        BY <1>6, <3>2
      <4>2. QED
        BY <3>2, <4>1 DEF DbcInv, EventsFollow
    <3>3. QED
      BY <1>6, <3>1, <3>2
  <2>3. QED
    BY <1>6, <2>2 DEF DbcInv, EventsFollow
<1>8. QED
  BY <1>2, <1>3, <1>7

(* add_done_callback, which calls back at once when the load has ended.      *)
LEMMA AddOnDoneKeeps ==
  ASSUME DbcInv, attaching # Nothing, AddOnDone(attaching), attaching' = Nothing
  PROVE  DbcInv'
<1>1. PICK n \in Loads : n = attaching
  BY DEF DbcInv, LoadTypes
<1>2. /\ load' = load /\ UNCHANGED <<temp, parsed, pickle>>
      /\ load[n] # "none" /\ n \notin callback
      /\ \A m \in Loads : n < m => load[m] = "none"
      /\ n # Nothing
  BY <1>1 DEF AddOnDone, DbcInv, CallsInOrder, Loads, Nothing
<1>3. FileIsTheThreads' /\ PickleFollows'
  BY <1>2 DEF DbcInv, FileIsTheThreads, PickleFollows, InThread
<1>4. CASE Ended(n)
  <2>1. OnDone(n) /\ callback' = callback
    BY <1>1, <1>4 DEF AddOnDone
  <2>2. /\ ~Told(n) /\ Taken(n)
        /\ \A m \in Loads : Told(m)' <=> Told(m) \/ m = n
        /\ \A m \in Loads : n < m => ~Told(m)
    BY <1>1, <1>2, <1>4, <2>1 DEF Told, Ended, Taken, Loads, Nothing
  <2>3. EventsFollow' /\ TakenInOrder' /\ events' \in Seq([load : Loads, ok : BOOLEAN])
    BY <1>2, <2>1, <2>2, TellingKeeps
  <2>4. LoadTypes'
    BY <1>2, <2>1, <2>3 DEF DbcInv, LoadTypes
  <2>5. CallsInOrder'
    BY <1>1, <1>2, <1>4, <2>1 DEF DbcInv, CallsInOrder, Ended
  <2>6. QED
    BY <1>3, <2>3, <2>4, <2>5 DEF DbcInv
<1>5. CASE ~Ended(n)
  <2>1. callback' = callback \cup {n} /\ events' = events
    BY <1>1, <1>5 DEF AddOnDone
  <2>2. LoadTypes'
    BY <1>2, <2>1 DEF DbcInv, LoadTypes
  <2>3. \A m \in Loads : (Told(m)' <=> Told(m)) /\ (Taken(m)' <=> Taken(m))
    BY <1>1, <1>2, <1>5, <2>1 DEF Told, Taken, Ended, Loads, Nothing
  <2>4. TakenInOrder' /\ EventsFollow'
    BY <1>2, <2>1, <2>3 DEF DbcInv, TakenInOrder, EventsFollow
  <2>5. CallsInOrder'
    BY <1>1, <1>2, <2>1 DEF DbcInv, CallsInOrder, Ended
  <2>6. QED
    BY <1>3, <2>2, <2>4, <2>5 DEF DbcInv
<1>6. QED
  BY <1>4, <1>5

-----------------------------------------------------------------------------
(* The thread. *)

(* A thread that takes a load is done with all before it.                    *)
LEMMA TakesAlone ==
  ASSUME DbcInv, NEW n \in Loads, Takes(n)
  PROVE  /\ \A m \in Loads : ~InThread(m)
         /\ \A m \in Loads : m < n => Told(m)
<1>1. Busy = {}
  <2>1. Busy \subseteq Loads
    BY DEF Busy
  <2>2. IsFiniteSet(Loads)
    BY LoadsAssumption, FS_Interval DEF Loads
  <2>3. IsFiniteSet(Busy)
    BY <2>1, <2>2, FS_Subset
  <2>4. Cardinality(Busy) \in Nat /\ Cardinality(Busy) < 1
    BY <2>3, FS_CardinalityType DEF Takes, MaxThreads
  <2>5. QED
    BY <2>3, <2>4, FS_EmptySet
<1>2. \A m \in Loads : load[m] \notin {"none", "queued"} => Ended(m) /\ m \notin callback
  BY <1>1 DEF Busy, DbcInv, LoadTypes
<1>3. \A m \in Loads : ~InThread(m)
  BY <1>2 DEF InThread, Ended
<1>4. ASSUME NEW m \in Loads, m < n PROVE Told(m)
  <2>1. load[n] = "queued" /\ load[m] # "none" /\ load[m] # "queued"
    BY <1>4 DEF Takes, DbcInv, CallsInOrder, Loads
  <2>2. m # attaching
    BY <1>4, <2>1 DEF DbcInv, CallsInOrder, Loads, Nothing
  <2>3. QED
    BY <1>2, <2>1, <2>2 DEF Told
<1>5. QED
  BY <1>3, <1>4

(* A load moves on: from waiting when all before it are told, or within the  *)
(* thread; its end is not told yet.                                          *)
LEMMA MovesInOrder ==
  ASSUME DbcInv, NEW n \in Loads, NEW to \in Phases \ {"none", "queued"},
         load' = [load EXCEPT ![n] = to],
         load[n] \notin {"none", "returned", "raised"},
         load[n] = "queued" => \A m \in Loads : m < n => Told(m),
         UNCHANGED <<callback, events, attaching>>
  PROVE  CallsInOrder' /\ TakenInOrder' /\ EventsFollow'
<1>1. load'[n] = to /\ \A m \in Loads : m # n => load'[m] = load[m]
  BY DEF DbcInv, LoadTypes
<1>2. n \in callback \/ n = attaching
  BY DEF DbcInv, CallsInOrder, Ended
<1>3. \A m \in Loads : Told(m)' <=> Told(m)
  BY <1>1, <1>2 DEF Told, Ended
<1>4. CallsInOrder'
  BY <1>1, <1>2 DEF DbcInv, LoadTypes, CallsInOrder, Ended
<1>5. TakenInOrder'
  BY <1>1, <1>3 DEF DbcInv, TakenInOrder, Taken
<1>6. EventsFollow'
  <2>1. \A i \in DOMAIN events : i \in Loads /\ i # n
    BY <1>2 DEF DbcInv, LoadTypes, EventsFollow, Told
  <2>2. \A i \in DOMAIN events : load'[i] = load[i]
    BY <1>1, <2>1
  <2>3. QED
    BY <1>3, <2>1, <2>2 DEF DbcInv, EventsFollow
<1>7. QED
  BY <1>4, <1>5, <1>6

LEMMA ThreadKeeps ==
  ASSUME DbcInv, attaching' = attaching, NEW n \in Loads,
         BeginConvert(n) \/ EndConvert(n) \/ ParseTemp(n) \/ BeginSave(n) \/ EndSave(n)
           \/ Raise(n)
  PROVE  DbcInv'
<1>1. PICK to \in Phases \ {"none", "queued"} : load' = [load EXCEPT ![n] = to]
  BY DEF BeginConvert, EndConvert, ParseTemp, BeginSave, EndSave, Raise, At, Phases
<1>2. UNCHANGED <<callback, events>>
  BY DEF BeginConvert, EndConvert, ParseTemp, BeginSave, EndSave, Raise
<1>3. load[n] \notin {"none", "returned", "raised"}
  BY DEF BeginConvert, EndConvert, ParseTemp, BeginSave, EndSave, Raise, At, Takes
<1>4. load[n] = "queued" => /\ \A m \in Loads : m < n => Told(m)
                            /\ \A m \in Loads : ~InThread(m)
  BY TakesAlone DEF BeginConvert, EndConvert, ParseTemp, BeginSave, EndSave, Raise, At
<1>5. CallsInOrder' /\ TakenInOrder' /\ EventsFollow'
  BY <1>1, <1>2, <1>3, <1>4, MovesInOrder
<1>6. load'[n] = to /\ \A m \in Loads : m # n => load'[m] = load[m]
  BY <1>1 DEF DbcInv, LoadTypes
<1>7. \A m \in Loads : InThread(m)' => InThread(m) \/ m = n
  BY <1>6 DEF InThread
<1>8. \A m \in Loads : InThread(m) => m = n
  BY <1>3, <1>4 DEF DbcInv, LoadTypes, FileIsTheThreads, InThread, Phases
<1>9. FileIsTheThreads'
  <2>1. \A m, o \in Loads : InThread(m)' /\ InThread(o)' => m = o
    BY <1>7, <1>8
  <2>2. \A m \in Loads : load'[m] = "converted" => m = n
    BY <1>6, <1>8 DEF InThread
  <2>3. load'[n] = "converted" => temp' = n
    BY <1>6 DEF BeginConvert, EndConvert, ParseTemp, BeginSave, EndSave, Raise, At, Takes,
                DbcInv, LoadTypes
  <2>4. QED
    BY <2>1, <2>2, <2>3 DEF FileIsTheThreads
<1>10. PickleFollows'
  <2>1. /\ pickle'[n] \in {Nothing, Part, n}
        /\ load'[n] \in {"parsed", "saving"} => parsed'[n] = n
        /\ load'[n] = "returned" <=> pickle'[n] = n
    BY <1>6, LoadsAssumption
       DEF BeginConvert, EndConvert, ParseTemp, BeginSave, EndSave, Raise, At, Takes,
           Loads, Nothing, Part, DbcInv, LoadTypes, FileIsTheThreads, PickleFollows
  <2>2. \A m \in Loads : m # n => pickle'[m] = pickle[m] /\ parsed'[m] = parsed[m]
    BY DEF BeginConvert, EndConvert, ParseTemp, BeginSave, EndSave, Raise, DbcInv, LoadTypes
  <2>3. QED
    BY <1>6, <2>1, <2>2 DEF DbcInv, PickleFollows
<1>11. LoadTypes'
  BY <1>1, <1>2 DEF BeginConvert, EndConvert, ParseTemp, BeginSave, EndSave, Raise,
                    DbcInv, LoadTypes
<1>12. QED
  BY <1>5, <1>9, <1>10, <1>11 DEF DbcInv

LEMMA CallBackKeeps ==
  ASSUME DbcInv, attaching' = attaching, NEW n \in Loads, CallBack(n)
  PROVE  DbcInv'
<1>1. /\ Ended(n) /\ n \in callback /\ OnDone(n) /\ callback' = callback \ {n}
      /\ UNCHANGED <<load, temp, parsed, pickle>>
  BY DEF CallBack
<1>2. ~Told(n) /\ Taken(n) /\ n # attaching
  BY <1>1 DEF Told, Taken, Ended, DbcInv, CallsInOrder, Loads, Nothing
<1>3. \A m \in Loads : Told(m)' <=> Told(m) \/ m = n
  BY <1>1, <1>2 DEF Told, Ended
<1>4. \A m \in Loads : n < m => ~Told(m)
  BY <1>2 DEF DbcInv, TakenInOrder, Told, Taken, Ended
<1>5. EventsFollow' /\ TakenInOrder' /\ events' \in Seq([load : Loads, ok : BOOLEAN])
  BY <1>1, <1>2, <1>3, <1>4, TellingKeeps
<1>6. LoadTypes'
  BY <1>1, <1>5 DEF DbcInv, LoadTypes
<1>7. CallsInOrder'
  BY <1>1 DEF DbcInv, CallsInOrder, Ended
<1>8. FileIsTheThreads' /\ PickleFollows'
  BY <1>1 DEF DbcInv, FileIsTheThreads, PickleFollows, InThread
<1>9. QED
  BY <1>5, <1>6, <1>7, <1>8 DEF DbcInv

LEMMA SameLoads ==
  ASSUME DbcInv, UNCHANGED <<dbcVars, attaching>>
  PROVE  DbcInv'
  BY DEF dbcVars, DbcInv, LoadTypes, FileIsTheThreads, PickleFollows, CallsInOrder,
         TakenInOrder, EventsFollow, InThread, Taken, Told, Ended

(* parse_dbc_file is between its two calls only with the load it submitted.  *)
LoadingInv == DbcInv /\ (main = "attaching" => attaching # Nothing)

LEMMA LoadingStep == LoadingInv /\ [Next]_vars => LoadingInv'
<1> SUFFICES ASSUME LoadingInv, [Next]_vars PROVE LoadingInv'
  OBVIOUS
<1>1. CASE ParseDbcFile
  <2>1. DbcInv'
    BY <1>1, SubmitKeeps DEF ParseDbcFile, LoadingInv
  <2>2. attaching' # Nothing
    BY <1>1 DEF ParseDbcFile, Loads, Nothing
  <2>3. QED
    BY <2>1, <2>2 DEF LoadingInv
<1>2. CASE AddDoneCallback
  BY <1>2, AddOnDoneKeeps DEF AddDoneCallback, LoadingInv
<1>3. CASE /\ PoolThread \/ \E n \in Loads : Raise(n)
           /\ UNCHANGED <<recordingAll, attaching, decodeVars>>
  <2>1. DbcInv'
    BY <1>3, ThreadKeeps, CallBackKeeps DEF PoolThread, LoadingInv
  <2>2. QED
    BY <1>3, <2>1 DEF LoadingInv, recordingAll, serviceVars
<1>4. CASE \/ RecordingNext /\ UNCHANGED <<dbcVars, attaching, decodeVars>>
           \/ Decode \/ OnDecodeStatus \/ UNCHANGED vars
           \/ /\ \E d \in Decodes : DecodeProcess(d) \/ DecodeDies(d)
              /\ UNCHANGED <<serviceVars, recordingVars, dbcVars, attaching>>
  <2>1. UNCHANGED <<dbcVars, attaching>>
    BY <1>4 DEF Decode, OnDecodeStatus, vars
  <2>2. main' = "attaching" => main = "attaching"
    BY <1>4 DEF RecordingNext, StartService, StartRecording, Joined, OnRecorderStatus,
                StopRecording, Recorder, RecorderFails, Decode, OnDecodeStatus,
                vars, recordingAll, serviceVars
  <2>3. QED
    BY <2>1, <2>2, SameLoads DEF LoadingInv
<1>5. QED
  BY <1>1, <1>2, <1>3, <1>4 DEF Next

LEMMA LoadingInvariant == Spec => []LoadingInv
<1>1. Init => LoadingInv
  BY LoadingBegins DEF LoadingInv, Init, RecordingInit
<1>2. QED
  BY <1>1, LoadingStep, PTL DEF Spec

-----------------------------------------------------------------------------
(* A pickle that can be read holds the database of the source its id was     *)
(* asked of: the temporary file is only the thread's.                        *)
THEOREM PickleIsAsked == Spec => []PickleIsItsSource
<1>1. LoadingInv => PickleIsItsSource
  BY DEF LoadingInv, DbcInv, PickleFollows, PickleIsItsSource, Readable
<1>2. QED
  BY <1>1, LoadingInvariant, PTL

(* DBCLoadedEvent gives an id only after the pickle of that id is whole.     *)
THEOREM ToldWhole == Spec => []ToldIsReadable
<1>1. LoadingInv => ToldIsReadable
  <2> SUFFICES ASSUME LoadingInv, NEW i \in DOMAIN events, events[i].ok
               PROVE  Readable(events[i].load)
    BY DEF ToldIsReadable
  <2>1. events[i].load = i /\ load[i] = "returned" /\ i \in Loads
    BY DEF LoadingInv, DbcInv, LoadTypes, EventsFollow
  <2>2. pickle[i] = i /\ i # Nothing /\ i # Part
    BY <2>1, LoadsAssumption DEF LoadingInv, DbcInv, PickleFollows, Loads, Nothing, Part
  <2>3. QED
    BY <2>1, <2>2 DEF Readable
<1>2. QED
  BY <1>1, LoadingInvariant, PTL

(* The events of loads come in the order of the calls, one for each.         *)
THEOREM ToldAsCalled == Spec => []ToldInOrder
<1>1. LoadingInv => ToldInOrder
  BY DEF LoadingInv, DbcInv, EventsFollow, ToldInOrder
<1>2. QED
  BY <1>1, LoadingInvariant, PTL

-----------------------------------------------------------------------------
(* The decodes. *)

DecodePhases == {"none", "loading", "decoding", "returned", "woke", "exited", "died"}
DecodeResults == {"none", "DONE", "FAILED"}

DecodeTypes == /\ decode \in [Decodes -> DecodePhases]
               /\ result \in [Decodes -> DecodeResults]
               /\ DOMAIN database = Decodes
               /\ \A d \in Begun : database[d] \in Loads
               /\ \A d \in Decodes : decode[d] \in {"none", "loading", "decoding"} =>
                                      result[d] = "none"
               /\ cell = [c \in Channels |-> cell[c]]
               /\ cell["decoder"] \in DecodeResults
               /\ statuses \in Seq(DecodeResults)

(* A decode that goes on past its database found it whole.                   *)
HasDatabase(d) == d \in Begun /\ load[database[d]] = "returned"

DecodersHaveDatabases ==
  \A d \in Decodes : decode[d] = "decoding" \/ result[d] = "DONE" => HasDatabase(d)

(* DONE is in the channel, or told, after a decode that ended well.          *)
DoneIsEarned == /\ cell["decoder"] = "DONE" => \E d \in Decodes : DecodeDone(d)
                /\ \A i \in DOMAIN statuses :
                      statuses[i] = "DONE" => \E d \in Decodes : DecodeDone(d)

(* A callback that is attached answers one wakeup, whichever that is.        *)
Answerable == IF "decoder" \in attached THEN 1 ELSE 0

OneStatusEach == Len(statuses) + Answerable <= Cardinality(Begun)

DecodeInv == DecodeTypes /\ DecodersHaveDatabases /\ DoneIsEarned /\ OneStatusEach

LEMMA BegunFinite == IsFiniteSet(Begun) /\ Cardinality(Begun) \in Nat
<1>1. Begun \subseteq Decodes
  BY DEF Begun
<1>2. IsFiniteSet(Decodes)
  BY DecodesAssumption, FS_Interval DEF Decodes
<1>3. QED
  BY <1>1, <1>2, FS_Subset, FS_CardinalityType

LEMMA DecodingBegins == Init => DecodeInv
<1> SUFFICES ASSUME Init PROVE DecodeInv
  OBVIOUS
<1>1. Begun = {}
  BY DEF Init, Begun
<1>2. OneStatusEach
  BY <1>1, FS_EmptySet DEF Init, ChannelsInit, OneStatusEach, Answerable
<1>3. DecodeTypes /\ DecodersHaveDatabases /\ DoneIsEarned
  BY <1>1 DEF Init, ChannelsInit, DecodeTypes, DecodersHaveDatabases, DoneIsEarned,
              DecodePhases, DecodeResults, Channels
<1>4. QED
  BY <1>2, <1>3 DEF DecodeInv

(* A load that returned stays so. *)
LEMMA ReturnedStays ==
  ASSUME LoadingInv, [Next]_vars, NEW n \in Loads, load[n] = "returned"
  PROVE  load'[n] = "returned"
<1> USE DEF LoadingInv, DbcInv, LoadTypes
<1>1. CASE ParseDbcFile
  BY <1>1 DEF ParseDbcFile, Submit
<1>2. CASE PoolThread \/ \E m \in Loads : Raise(m)
  BY <1>2 DEF PoolThread, BeginConvert, EndConvert, ParseTemp, BeginSave, EndSave, CallBack,
              Raise, At, Takes
<1>3. CASE load' = load
  BY <1>3
<1>4. QED
  BY <1>1, <1>2, <1>3 DEF Next, AddDoneCallback, AddOnDone, Decode, OnDecodeStatus, dbcVars,
                          vars

(* Steps that leave the decodes as they are, and the status of the channel.  *)
LEMMA OthersKeepDecodes ==
  ASSUME DecodeInv, UNCHANGED decodeVars, cell' = [c \in Channels |-> cell'[c]],
         cell'["decoder"] = cell["decoder"],
         "decoder" \in attached' => "decoder" \in attached,
         \A n \in Loads : load[n] = "returned" => load'[n] = "returned"
  PROVE  DecodeInv'
<1>1. UNCHANGED <<decode, database, result, statuses>> /\ Begun' = Begun
  BY DEF decodeVars, Begun
<1>2. DecodeTypes' /\ DoneIsEarned'
  BY <1>1 DEF DecodeInv, DecodeTypes, DoneIsEarned, DecodeDone
<1>3. DecodersHaveDatabases'
  BY <1>1 DEF DecodeInv, DecodeTypes, DecodersHaveDatabases, HasDatabase
<1>4. OneStatusEach'
  BY <1>1, BegunFinite DEF DecodeInv, DecodeTypes, OneStatusEach, Answerable
<1>5. QED
  BY <1>2, <1>3, <1>4 DEF DecodeInv

LEMMA DecodeCallKeeps ==
  ASSUME DecodeInv, LoadingInv, Decode
  PROVE  DecodeInv'
<1>1. PICK d \in Decodes, n \in Loads :
         /\ decode[d] = "none" /\ decode' = [decode EXCEPT ![d] = "loading"]
         /\ database' = [database EXCEPT ![d] = n]
         /\ attached' = attached \cup {"decoder"}
         /\ UNCHANGED <<load, result, statuses, cell>>
  BY DEF Decode, RunDecodeAsync, Attach, Submitted, dbcVars
<1>2. Begun' = Begun \cup {d} /\ d \notin Begun
  BY <1>1 DEF Begun, DecodeInv, DecodeTypes
<1>3. Cardinality(Begun') = Cardinality(Begun) + 1
  BY <1>2, BegunFinite, FS_AddElement
<1>4. OneStatusEach'
  BY <1>1, <1>3, BegunFinite DEF DecodeInv, DecodeTypes, OneStatusEach, Answerable
<1>5. DecodeTypes'
  BY <1>1, <1>2 DEF DecodeInv, DecodeTypes, DecodePhases
<1>6. DecodersHaveDatabases'
  BY <1>1, <1>2 DEF DecodeInv, DecodeTypes, DecodersHaveDatabases, HasDatabase
<1>7. DoneIsEarned'
  BY <1>1 DEF DecodeInv, DoneIsEarned, DecodeDone
<1>8. QED
  BY <1>4, <1>5, <1>6, <1>7 DEF DecodeInv

LEMMA OnDecodeStatusKeeps ==
  ASSUME DecodeInv, OnDecodeStatus
  PROVE  DecodeInv'
<1>1. /\ "decoder" \in attached /\ attached' = {}
      /\ statuses' = Append(statuses, cell["decoder"])
      /\ UNCHANGED <<cell, load, decode, database, result>>
  BY DEF OnDecodeStatus, Wakes, Answer, Detach, dbcVars
<1>2. /\ DOMAIN statuses' = DOMAIN statuses \cup {Len(statuses) + 1}
      /\ \A i \in DOMAIN statuses : statuses'[i] = statuses[i]
      /\ statuses'[Len(statuses) + 1] = cell["decoder"]
      /\ statuses' \in Seq(DecodeResults) /\ Len(statuses') = Len(statuses) + 1
      /\ Len(statuses) \in Nat
  BY <1>1 DEF DecodeInv, DecodeTypes
<1>3. DecodeTypes' /\ DecodersHaveDatabases'
  BY <1>1, <1>2 DEF DecodeInv, DecodeTypes, DecodersHaveDatabases, HasDatabase, Begun
<1>4. DoneIsEarned'
  BY <1>1, <1>2 DEF DecodeInv, DoneIsEarned, DecodeDone
<1>5. OneStatusEach'
  BY <1>1, <1>2, BegunFinite DEF DecodeInv, OneStatusEach, Answerable, Begun
<1>6. QED
  BY <1>3, <1>4, <1>5 DEF DecodeInv

LEMMA DecodeProcessKeeps ==
  ASSUME DecodeInv, LoadingInv, NEW d \in Decodes, DecodeProcess(d) \/ DecodeDies(d),
         UNCHANGED dbcVars
  PROVE  DecodeInv'
<1>1. /\ UNCHANGED <<attached, database, statuses, load>> /\ d \in Begun
      /\ \E to \in DecodePhases \ {"none"} : decode' = [decode EXCEPT ![d] = to]
  BY DEF DecodeProcess, DecodeDies, LoadDatabase, RunDecoder, Wake, SendStatus, Send, Signal,
         channelVars, Moves, Returns, Begun, DecodePhases, dbcVars
<1>2. Begun' = Begun /\ \A e \in Decodes : e # d => decode'[e] = decode[e]
  BY <1>1 DEF Begun, DecodeInv, DecodeTypes
<1>3. /\ decode'[d] = "decoding" => Readable(database[d])
      /\ \/ result' = result
         \/ result' = [result EXCEPT ![d] = "FAILED"] /\ decode[d] \in {"loading", "decoding"}
         \/ result' = [result EXCEPT ![d] = "DONE"] /\ decode[d] = "decoding"
      /\ decode'[d] # "loading"
      /\ decode'[d] = "decoding" => decode[d] = "loading" /\ result' = result
  BY DEF DecodeProcess, DecodeDies, LoadDatabase, RunDecoder, Wake, SendStatus, Moves,
         Returns, StatusOf, DecodeInv, DecodeTypes
<1>4. Readable(database[d]) => load[database[d]] = "returned"
  BY <1>1 DEF Readable, LoadingInv, DbcInv, PickleFollows, DecodeInv, DecodeTypes
<1>5. \/ cell' = cell
      \/ /\ decode[d] = "woke" /\ result' = result
         /\ cell' = [cell EXCEPT !["decoder"] = result[d]]
  BY DEF DecodeProcess, DecodeDies, LoadDatabase, RunDecoder, Wake, SendStatus, Send, Signal,
         channelVars, Moves
<1>6. DecodeTypes'
  BY <1>1, <1>2, <1>3, <1>5 DEF DecodeInv, DecodeTypes, DecodeResults, Channels
<1>7. DecodersHaveDatabases'
  BY <1>1, <1>2, <1>3, <1>4 DEF DecodeInv, DecodeTypes, DecodersHaveDatabases, HasDatabase
<1>8. DoneIsEarned'
  <2>1. \A e \in Decodes : result[e] = "DONE" => result'[e] = "DONE"
    BY <1>3 DEF DecodeInv, DecodeTypes
  <2>2. cell'["decoder"] = "DONE" => cell["decoder"] = "DONE" \/ result[d] = "DONE"
    BY <1>5 DEF DecodeInv, DecodeTypes, Channels
  <2>3. QED
    BY <1>1, <2>1, <2>2 DEF DecodeInv, DoneIsEarned, DecodeDone
<1>9. OneStatusEach'
  BY <1>1, <1>2 DEF DecodeInv, OneStatusEach, Answerable
<1>10. QED
  BY <1>6, <1>7, <1>8, <1>9 DEF DecodeInv

LEMMA DecodingStep == LoadingInv /\ DecodeInv /\ [Next]_vars => DecodeInv'
<1> SUFFICES ASSUME LoadingInv, DecodeInv, [Next]_vars PROVE DecodeInv'
  OBVIOUS
<1>1. CASE Decode
  BY <1>1, DecodeCallKeeps
<1>2. CASE OnDecodeStatus
  BY <1>2, OnDecodeStatusKeeps
<1>3. CASE /\ \E d \in Decodes : DecodeProcess(d) \/ DecodeDies(d)
           /\ UNCHANGED <<serviceVars, recordingVars, dbcVars, attaching>>
  BY <1>3, DecodeProcessKeeps
<1>4. CASE RecordingNext /\ UNCHANGED <<dbcVars, attaching, decodeVars>>
  <2>1. /\ \/ cell' = cell
           \/ \E status : cell' = [cell EXCEPT !["recorder"] = status]
        /\ "decoder" \in attached' => "decoder" \in attached
    BY <1>4 DEF RecordingNext, StartService, StartRecording, Joined, OnRecorderStatus,
                StopRecording, LetGo, Attach, Answer, Detach, Recorder, RecorderFails, Begin,
                SeeStop, Drain, SayStopped, Close, Fail, Kill, Send, channelVars
  <2>2. cell' = [c \in Channels |-> cell'[c]] /\ cell'["decoder"] = cell["decoder"]
    BY <2>1 DEF DecodeInv, DecodeTypes, Channels
  <2>3. QED
    BY <1>4, <2>1, <2>2, ReturnedStays, OthersKeepDecodes
<1>5. CASE \/ ParseDbcFile \/ AddDoneCallback \/ UNCHANGED vars
           \/ /\ PoolThread \/ \E n \in Loads : Raise(n)
              /\ UNCHANGED <<recordingAll, attaching, decodeVars>>
  <2>1. UNCHANGED <<decodeVars, cell, attached>>
    BY <1>5 DEF ParseDbcFile, AddDoneCallback, vars, recordingAll, channelVars
  <2>2. cell' = [c \in Channels |-> cell'[c]]
    BY <2>1 DEF DecodeInv, DecodeTypes
  <2>3. QED
    BY <2>1, <2>2, ReturnedStays, OthersKeepDecodes
<1>6. QED
  BY <1>1, <1>2, <1>3, <1>4, <1>5 DEF Next

(* At most one status is told for each decode that was called for, and DONE  *)
(* only after a decode that ended well with the database of its id.          *)
THEOREM StatusesEarned == Spec => []StatusesAreEarned
<1>1. LoadingInv /\ DecodeInv => StatusesAreEarned
  <2> SUFFICES ASSUME LoadingInv, DecodeInv PROVE StatusesAreEarned
    OBVIOUS
  <2>1. Len(statuses) <= Cardinality(Begun)
    BY BegunFinite DEF DecodeInv, DecodeTypes, OneStatusEach, Answerable
  <2>2. ASSUME NEW d \in Decodes, DecodeDone(d)
        PROVE  d \in Begun /\ pickle[database[d]] = database[d]
    BY <2>2 DEF DecodeInv, DecodeTypes, DecodersHaveDatabases, DecodeDone, HasDatabase,
                LoadingInv, DbcInv, PickleFollows
  <2>3. QED
    BY <2>1, <2>2 DEF DecodeInv, DoneIsEarned, StatusesAreEarned
<1>2. QED
  BY <1>1, LoadingInvariant, DecodingBegins, DecodingStep, PTL DEF Spec

=============================================================================
