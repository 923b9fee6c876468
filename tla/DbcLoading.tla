------------------------------ MODULE DbcLoading ------------------------------
(***************************************************************************)
(* DBC databases: CANDBManager.parse_database (decode/dbc_manager.py:228-292) *)
(* on the service's pool of one thread, and the events that tell its end     *)
(* (file_service.py:206-231).                                                *)
(*                                                                         *)
(* Load n reads the n-th source file and saves under the n-th id.  Every     *)
(* load converts its source into the same file, db_temp.dbc.  PickleStorage  *)
(* and ThreadPoolExecutor are outside the repository: a pickle is written    *)
(* in two steps, between which a reader finds part of it.                    *)
(***************************************************************************)
EXTENDS Integers, FiniteSets, Sequences

CONSTANT MaxLoads  \* bound: calls of parse_dbc_file

ASSUME LoadsAssumption == MaxLoads \in Nat

Loads == 1 .. MaxLoads
Nothing == 0   \* no file; of db_temp.dbc also: part of a conversion

VARIABLES
  load,      \* by load: where it is
  callback,  \* loads whose future holds _on_done
  temp,      \* the source db_temp.dbc holds all of
  parsed,    \* by load: the source of the database the thread has parsed
  pickle,    \* by id: what is saved, a source, Nothing or Part
  events     \* DBCLoadedEvents posted to the main dispatcher

dbcVars == <<load, callback, temp, parsed, pickle, events>>

Part == MaxLoads + 1
Phases == {"none", "queued", "converting", "converted", "parsed", "saving",
           "returned", "raised"}
Ended(n) == load[n] \in {"returned", "raised"}
Submitted == {n \in Loads : load[n] # "none"}

DbcInit == /\ load = [n \in Loads |-> "none"] /\ callback = {}
           /\ temp = Nothing /\ events = <<>>
           /\ parsed = [n \in Loads |-> Nothing]
           /\ pickle = [n \in Loads |-> Nothing]

-----------------------------------------------------------------------------
(* Seeded faults: each replaces the definition of the model it is named      *)
(* after in one mutant run.                                                  *)

(* A pool of two threads. *)
TwoThreads == 2

(* _on_done posts without asking the future for its result. *)
AlwaysLoaded(n) == TRUE

-----------------------------------------------------------------------------
(* The calling thread. *)

(* submit *)
Submit(n) == /\ \A m \in 1 .. n - 1 : load[m] # "none"
             /\ load[n] = "none"
             /\ load' = [load EXCEPT ![n] = "queued"]
             /\ UNCHANGED <<callback, temp, parsed, pickle, events>>

Succeeded(n) == load[n] = "returned"

(* _on_done: DBCLoadedEvent with the id, or without one. *)
OnDone(n) == events' = Append(events, [load |-> n, ok |-> Succeeded(n)])

(* add_done_callback: on a future that is done it calls back at once. *)
AddOnDone(n) ==
  /\ IF Ended(n) THEN OnDone(n) /\ UNCHANGED callback
                 ELSE callback' = callback \cup {n} /\ UNCHANGED events
  /\ UNCHANGED <<load, temp, parsed, pickle>>

-----------------------------------------------------------------------------
(* The pool's threads. *)

MaxThreads == 1

(* Loads a thread is busy with: their callbacks are run before the next. *)
Busy == {n \in Loads : load[n] \in Phases \ {"none", "queued"}
                         /\ (Ended(n) => n \in callback)}

At(n, from, to) == load[n] = from /\ load' = [load EXCEPT ![n] = to]

(* A thread takes the oldest load that waits. *)
Takes(n) == /\ load[n] = "queued" /\ \A m \in 1 .. n - 1 : load[m] # "queued"
            /\ Cardinality(Busy) < MaxThreads

(* _clean_database opens both files, which empties the temporary one. *)
BeginConvert(n) == /\ Takes(n)
                   /\ At(n, "queued", "converting")
                   /\ temp' = Nothing
                   /\ UNCHANGED <<callback, parsed, pickle, events>>

EndConvert(n) == /\ At(n, "converting", "converted")
                 /\ temp' = n
                 /\ UNCHANGED <<callback, parsed, pickle, events>>

(* cantools.database.load_file of the temporary file. *)
ParseTemp(n) == /\ At(n, "converted", "parsed")
                /\ parsed' = [parsed EXCEPT ![n] = temp]
                /\ UNCHANGED <<callback, temp, pickle, events>>

BeginSave(n) == /\ At(n, "parsed", "saving")
                /\ pickle' = [pickle EXCEPT ![n] = Part]
                /\ UNCHANGED <<callback, temp, parsed, events>>

EndSave(n) == /\ At(n, "saving", "returned")
              /\ pickle' = [pickle EXCEPT ![n] = parsed[n]]
              /\ UNCHANGED <<callback, temp, parsed, events>>

(* A source that is missing or is no database; a disk that is full. *)
Raise(n) == /\ Takes(n) \/ load[n] \in {"converting", "converted", "saving"}
            /\ At(n, load[n], "raised")
            /\ UNCHANGED <<callback, temp, parsed, pickle, events>>

CallBack(n) == /\ Ended(n) /\ n \in callback
               /\ OnDone(n)
               /\ callback' = callback \ {n}
               /\ UNCHANGED <<load, temp, parsed, pickle>>

PoolThread == \E n \in Loads : \/ BeginConvert(n) \/ EndConvert(n) \/ ParseTemp(n)
                               \/ BeginSave(n) \/ EndSave(n) \/ CallBack(n)

Readable(n) == pickle[n] \notin {Nothing, Part}

-----------------------------------------------------------------------------
(* However loads are called for, a pickle that can be read holds the          *)
(* database of the source it was asked of, though all go through one file.   *)
PickleIsItsSource == \A n \in Loads : Readable(n) => pickle[n] = n

(* An event that gives an id is told after the pickle of that id is whole:   *)
(* get_candb_data and decode find it from then on.                           *)
ToldIsReadable ==
  \A i \in DOMAIN events : events[i].ok => Readable(events[i].load)

(* A failed load's event carries no id, so the application can only count:   *)
(* the i-th event is about the i-th call, and there is never a second one.   *)
ToldInOrder == \A i \in DOMAIN events : events[i].load = i

=============================================================================
