-------------------------- MODULE FileServiceWorkers --------------------------
(***************************************************************************)
(* FileService over its workers: recordings (RecordingService), databases    *)
(* loaded on a thread (DbcLoading) and decodes, each in a process of its     *)
(* own (file_service.py:236-264, 474-479; decode/decode_process.py;          *)
(* decode/decode_source.py:87-139).  They meet in the service's thread, the  *)
(* dispatcher's detach, and the pickles that loads write and decodes read.   *)
(***************************************************************************)
EXTENDS RecordingService, DbcLoading

CONSTANT MaxDecodes  \* bound: calls of decode

ASSUME DecodesAssumption == MaxDecodes \in Nat

Decodes == 1 .. MaxDecodes

VARIABLES
  attaching,  \* the load parse_dbc_file has submitted and not returned from
  decode,     \* decode processes: where each is
  database,   \* by decode: the id it was given
  result,     \* by decode: what decode_process returned, as a status
  statuses    \* DecodeStatusEvents dispatched; DONE also dispatches a DecodeCompletedEvent

decodeVars == <<decode, database, result, statuses>>
recordingAll == <<recordingVars, serviceVars, channelVars>>
vars == <<recordingAll, dbcVars, attaching, decodeVars>>

Begun == {d \in Decodes : decode[d] # "none"}
DecodeDone(d) == result[d] = "DONE"

Init == /\ ChannelsInit /\ RecordingInit /\ DbcInit
        /\ attaching = Nothing
        /\ decode = [d \in Decodes |-> "none"]
        /\ database = [d \in Decodes |-> Nothing]
        /\ result = [d \in Decodes |-> "none"]
        /\ statuses = <<>>

-----------------------------------------------------------------------------
(* A seeded fault: it replaces the definition it is named after in one       *)
(* mutant run.                                                               *)

(* The return code of decode_process is not looked at. *)
DoneWhatever(rc) == "DONE"

-----------------------------------------------------------------------------
(* Calls of the application. *)

(* parse_dbc_file: submit, then add_done_callback. *)
ParseDbcFile == /\ service = "RUNNING" /\ attaching = Nothing /\ Call
                /\ \E n \in Loads : Submit(n) /\ attaching' = n
                /\ main' = "attaching"
                /\ UNCHANGED <<service, recordingVars, channelVars, decodeVars>>

AddDoneCallback == /\ main = "attaching"
                   /\ AddOnDone(attaching)
                   /\ attaching' = Nothing /\ main' = "loop"
                   /\ UNCHANGED <<service, calls, recordingVars, channelVars, decodeVars>>

RunDecodeAsync(d, n) == /\ decode' = [decode EXCEPT ![d] = "loading"]
                        /\ database' = [database EXCEPT ![d] = n]

(* decode, of an id parse_dbc_file returned: the event, attach and the spawn. *)
Decode == /\ service = "RUNNING" /\ Call
          /\ \E d \in Decodes, n \in Submitted :
                /\ decode[d] = "none" /\ \A e \in 1 .. d - 1 : decode[e] # "none"
                /\ RunDecodeAsync(d, n)
          /\ Attach("decoder")
          /\ UNCHANGED <<service, main, recordingVars, dbcVars, attaching, result,
                         statuses>>

(* on_decode_callback: the event, and detach whatever the status. *)
OnDecodeStatus ==
  /\ main = "loop" /\ Wakes("decoder")
  /\ statuses' = Append(statuses, cell["decoder"])
  /\ Answer("decoder", TRUE)
  /\ UNCHANGED <<serviceVars, recordingVars, dbcVars, attaching, decode, database, result>>

-----------------------------------------------------------------------------
(* Decode processes. *)

Moves(d, from, to) == decode[d] = from /\ decode' = [decode EXCEPT ![d] = to]

(* _run_decode_job: any return code but 0 is a failure. *)
StatusOf(rc) == IF rc = 0 THEN "DONE" ELSE "FAILED"

Returns(d, rc) == /\ decode' = [decode EXCEPT ![d] = "returned"]
                  /\ result' = [result EXCEPT ![d] = StatusOf(rc)]

(* _load_candb_from_path: a pickle that is missing or not whole gives -102. *)
LoadDatabase(d) ==
  /\ decode[d] = "loading"
  /\ IF Readable(database[d])
       THEN Moves(d, "loading", "decoding") /\ UNCHANGED result
       ELSE Returns(d, -102)
  /\ UNCHANGED <<database, statuses, channelVars>>

(* _load_decode_db_with_pybind fails, decode_one_file returns, or something  *)
(* is raised.                                                                *)
RunDecoder(d) == /\ decode[d] = "decoding"
                 /\ \E rc \in {0, -103, -199} : Returns(d, rc)
                 /\ UNCHANGED <<database, statuses, channelVars>>

(* The finally clause of decode_process, before its caller sends a status. *)
Wake(d) == /\ Moves(d, "returned", "woke")
           /\ Signal("decoder")
           /\ UNCHANGED <<database, result, statuses>>

SendStatus(d) == /\ Moves(d, "woke", "exited")
                 /\ Send("decoder", result[d])
                 /\ UNCHANGED <<database, result, statuses>>

DecodeDies(d) == /\ decode[d] \in {"loading", "decoding", "returned", "woke"}
                 /\ Moves(d, decode[d], "died")
                 /\ UNCHANGED <<database, result, statuses, channelVars>>

DecodeProcess(d) == LoadDatabase(d) \/ RunDecoder(d) \/ Wake(d) \/ SendStatus(d)

-----------------------------------------------------------------------------
Next ==
  \/ RecordingNext /\ UNCHANGED <<dbcVars, attaching, decodeVars>>
  \/ ParseDbcFile \/ AddDoneCallback \/ Decode \/ OnDecodeStatus
  \/ /\ PoolThread \/ \E n \in Loads : Raise(n)
     /\ UNCHANGED <<recordingAll, attaching, decodeVars>>
  \/ /\ \E d \in Decodes : DecodeProcess(d) \/ DecodeDies(d)
     /\ UNCHANGED <<serviceVars, recordingVars, dbcVars, attaching>>

Spec == Init /\ [][Next]_vars

(* A call that began goes on, the pool's thread and the workers that are not *)
(* killed run, and the event loop answers wakeups.                           *)
FairSpec == /\ Spec /\ RecordingFairness
            /\ WF_vars(AddDoneCallback) /\ WF_vars(OnDecodeStatus)
            /\ WF_vars(PoolThread /\ UNCHANGED <<recordingAll, attaching, decodeVars>>)
            /\ \A d \in Decodes :
                 WF_vars(DecodeProcess(d)
                         /\ UNCHANGED <<serviceVars, recordingVars, dbcVars, attaching>>)

-----------------------------------------------------------------------------
(* However often the workers wake the channel, and although its cell may hold *)
(* the status of an earlier decode, the observers are given at most one      *)
(* status for each decode that was called for, and DONE only if some decode  *)
(* ended well, on a database that is whole and of the source its id is for.  *)
StatusesAreEarned ==
  /\ Len(statuses) <= Cardinality(Begun)
  /\ (\E i \in DOMAIN statuses : statuses[i] = "DONE") =>
       \E d \in Begun : DecodeDone(d) /\ pickle[database[d]] = database[d]

=============================================================================
