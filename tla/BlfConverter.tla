----------------------------- MODULE BlfConverter -----------------------------
(***************************************************************************)
(* BLFConverter.convert_blf_file (converter/blf_converter.py): a log of      *)
(* messages is written as text, in the filter format, into part files that   *)
(* are left for the next one once they reach a size.  LogReader and the      *)
(* database are outside the repository; the reader may fail at any message.  *)
(***************************************************************************)
EXTENDS LineParsers, Selections

CONSTANTS Logs,       \* logs there are: sequences of messages
          Databases,  \* databases: none, or one with the names of some ids
          SizeLimit   \* size_limit_bytes

ASSUME ConverterAssumption ==
  /\ Logs \subseteq Seq(Messages) /\ SizeLimit \in Nat \ {0}
  /\ \A d \in Databases : d = <<>> \/ \A id \in DOMAIN d[1] : d[1][id] \in Tokens

VARIABLES
  source,      \* the log
  db,          \* <<>> for None, or <<the names of the messages it knows>>
  converting,  \* "idle", "writing", "returned" or "raised"
  taken,       \* messages taken
  time_base,
  parts,       \* the part files: their lines
  file_size    \* of the part that is open

converterVars == <<source, db, converting, taken, time_base, parts, file_size>>

ConverterInit == /\ source \in Logs /\ db \in Databases /\ converting = "idle"
                 /\ taken = 0 /\ time_base = 0 /\ parts = <<>> /\ file_size = 0

-----------------------------------------------------------------------------
(* Seeded faults: each replaces the definition of the model it is named      *)
(* after in one mutant run.                                                  *)

(* file_size is not reset for the next part. *)
SizeAsItWas(size) == size

-----------------------------------------------------------------------------
(* os.makedirs, LogReader and the first part. *)
Convert == /\ converting = "idle" /\ converting' = "writing"
           /\ parts' = <<<<>>>>
           /\ UNCHANGED <<source, db, taken, time_base, file_size>>

(* The message's name in the database, "UNKNOW" without one.                 *)
MessageName(id) ==
  IF db = <<>> THEN Word("UNKNOW")
  ELSE IF id \in DOMAIN db[1] THEN db[1][id] ELSE Word("NOT_FOUND")

(* format_log_entry, as the message its line tells: its time from the base,   *)
(* a channel that is 1 or 2, and a name.                                     *)
FormatLogEntry(m, base) ==
  [m EXCEPT !.time = @ - base,
            !.channel = IF m.channel.dec = 0 THEN Digit(1) ELSE Digit(2),
            !.label = MessageName(m.id.hex)]

(* Bytes: those of a line grow with its data. *)
LineSize(m) == 1 + Len(m.data)

SizeOfNext(size) == 0

ConvertMessage ==
  /\ converting = "writing" /\ taken < Len(source)
  /\ taken' = taken + 1
  /\ LET m == source[taken']
         last == Len(parts)
     IN /\ time_base' = IF time_base = 0 THEN m.time ELSE time_base
        /\ LET entry == FormatLogEntry(m, time_base')
               written == [parts EXCEPT ![last] = Append(@, entry)]
               size == file_size + LineSize(entry)
           IN IF size >= SizeLimit
                THEN parts' = Append(written, <<>>) /\ file_size' = SizeOfNext(size)
                ELSE parts' = written /\ file_size' = size
  /\ UNCHANGED <<source, db, converting>>

(* The end of the log, or a failure: before the first part as well.           *)
EndConversion ==
  /\ \/ converting = "writing" /\ taken = Len(source) /\ converting' = "returned"
     \/ converting \in {"idle", "writing"} /\ converting' = "raised"
  /\ UNCHANGED <<source, db, taken, time_base, parts, file_size>>

Converts == Convert \/ ConvertMessage \/ EndConversion

-----------------------------------------------------------------------------
PartSize(part) == SumOf([i \in DOMAIN part |-> LineSize(part[i])])

(* A line tells the message it was made of, but for its time: channel 0 is    *)
(* written as 1 and every other as 2, and the name is the database's.        *)
SameButTime(names, written, m) ==
  /\ written.id = m.id /\ written.dir = m.dir /\ written.code = m.code
  /\ written.data = m.data
  /\ written.channel.dec \in {1, 2} /\ (written.channel.dec = 1 <=> m.channel.dec = 0)
  /\ names # <<>> /\ m.id.hex \in DOMAIN names[1] => written.label = names[1][m.id.hex]

(* The first n messages of a log whose time is not 0. *)
Timed(log, n) == {i \in 1 .. n : log[i].time # 0}

(* The time of line i of n: from the first message whose own is not 0, and 0  *)
(* before it.                                                                *)
TimeOf(log, n, i) ==
  IF \E j \in Timed(log, n) : j <= i THEN log[i].time - log[Min(Timed(log, n))].time
  ELSE 0

(* Together the parts hold every message taken, once and in order, with its   *)
(* time from the first one that has one; and a part is left for the next      *)
(* exactly when it has reached its size, not a line earlier or later.        *)
PartsAreTheLog ==
  LET lines == FlattenSeq(parts)
      Open == Len(parts)
  IN /\ Len(lines) = taken
     /\ \A i \in 1 .. taken :
           /\ SameButTime(db, lines[i], source[i])
           /\ lines[i].time = TimeOf(source, taken, i)
     /\ \A p \in 1 .. Open - 1 :
           /\ PartSize(parts[p]) >= SizeLimit
           /\ PartSize(parts[p]) - LineSize(Last(parts[p])) < SizeLimit
     /\ Open # 0 => PartSize(parts[Open]) < SizeLimit

=============================================================================
