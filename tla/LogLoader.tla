------------------------------ MODULE LogLoader ------------------------------
(***************************************************************************)
(* load_log_file (parser/file_loaders.py) and what it keeps from line to     *)
(* line (_create_log_entry, parser/python/line_parsers.py:38-80).            *)
(*                                                                         *)
(* A file is a type, the format its lines are in and what each line tells:   *)
(* one message, or none.  ASCReader and BLFReader are outside the            *)
(* repository: a reader gives the messages of a file up to some point, where *)
(* it may fail.  _parse_from_csv, _parse_from_excel and _parse_from_file are *)
(* decorated with @DeprecationWarning (lines 39, 58 and 135): what bears     *)
(* their names is an exception, and calling it raises TypeError.             *)
(***************************************************************************)
EXTENDS LineParsers

CONSTANTS Files,    \* files there are to load
          MaxLoads  \* bound: files loaded with one parser

(* get_file_type, by the extension. *)
FileTypes == {"excel", "csv", "blf", "asc", "log", "txt", "unknown"}

(* What a line tells: nothing, or a message. *)
LogFiles == [type : FileTypes, format : Formats,
             lines : Seq({told \in Seq(Messages) : Len(told) <= 1})]

ASSUME LoaderAssumption == Files \subseteq LogFiles /\ MaxLoads \in Nat

VARIABLES
  file,               \* the file being loaded, or the last
  loading,            \* "no" or "reading"
  line,               \* lines taken of it
  parsed_count,       \* counted of them
  total_lines,        \* CANLogFile.total_lines
  outcome,            \* of load_log_file: "none" yet, "True", "False" or "raised"
  last_raw_by_id, last_timestamp_by_id,
  loads, created      \* history: files begun, and the entries made of them all

keptVars == <<last_raw_by_id, last_timestamp_by_id>>
loaderVars == <<file, loading, line, parsed_count, total_lines, outcome, keptVars,
                loads, created>>

Noise == <<>>
NoFile == [type |-> "unknown", format |-> "filter", lines |-> <<>>]

LoaderInit ==
  /\ file = NoFile /\ loading = "no" /\ line = 0 /\ parsed_count = 0
  /\ total_lines = 0 /\ outcome = "none"
  /\ last_raw_by_id = <<>> /\ last_timestamp_by_id = <<>>
  /\ loads = 0 /\ created = <<>>

-----------------------------------------------------------------------------
(* Seeded faults: each replaces the definition of the model it is named      *)
(* after in one mutant run.                                                  *)

(* The data seen last stays from file to file. *)
RawAsItWas == last_raw_by_id

-----------------------------------------------------------------------------
(* d.get(id), and d[id] = value. *)
Get(table, id, none) == IF id \in DOMAIN table THEN table[id] ELSE none
Put(table, id, value) ==
  [i \in DOMAIN table \cup {id} |-> IF i = id THEN value ELSE table[i]]

(* The data of the ids of a new file: none. *)
RawAtStart == <<>>

(* load_log_file, up to the reader of an .asc or .blf file; the loaders of    *)
(* the other types it knows cannot be called.                                *)
LoadLogFile(f) ==
  /\ loading = "no" /\ loads < MaxLoads /\ loads' = loads + 1
  /\ file' = f /\ line' = 0 /\ parsed_count' = 0 /\ total_lines' = 0
  /\ last_raw_by_id' = RawAtStart
  /\ loading' = IF f.type \in {"asc", "blf"} THEN "reading" ELSE "no"
  /\ outcome' = CASE f.type \in {"asc", "blf"} -> "none"
                  [] f.type = "unknown" -> "False"
                  [] OTHER -> "raised"
  /\ UNCHANGED <<last_timestamp_by_id, created>>

(* _create_log_entry: what it returns, and what it keeps.  A time of 0 and an *)
(* empty data count as none.                                                 *)
Entry(fields) ==
  LET raw == Get(last_raw_by_id, fields.id, <<>>)
      last == Get(last_timestamp_by_id, fields.id, 0)
  IN [load |-> loads, fields |-> fields,
      changed |-> raw # <<>> /\ raw # fields.data,
      last_timestamp |-> IF last # 0 THEN last ELSE fields.time]

Keep(fields) ==
  /\ last_raw_by_id' = Put(last_raw_by_id, fields.id, fields.data)
  /\ last_timestamp_by_id' = Put(last_timestamp_by_id, fields.id, fields.time)

(* The fields of a message. *)
Told(m) == [time |-> m.time, id |-> m.id.hex, dir |-> m.dir, len |-> Len(m.data),
            data |-> m.data]

(* _parse_from_asc, one line of the reader's: a message is an entry, which is *)
(* counted and dropped.                                                      *)
ReadMessage ==
  /\ loading = "reading" /\ line < Len(file.lines)
  /\ line' = line + 1
  /\ LET told == file.lines[line']
     IN IF told = Noise THEN UNCHANGED <<parsed_count, created, keptVars>>
        ELSE /\ parsed_count' = parsed_count + 1
             /\ created' = Append(created, Entry(Told(told[1])))
             /\ Keep(Told(told[1]))
  /\ UNCHANGED <<file, loading, total_lines, outcome, loads>>

EndReading ==
  /\ loading = "reading" /\ line = Len(file.lines)
  /\ total_lines' = parsed_count /\ loading' = "no" /\ outcome' = "True"
  /\ UNCHANGED <<file, line, parsed_count, keptVars, loads, created>>

(* "Fallback to regex parser for non-standard ASC/BLF", which cannot be       *)
(* called either.                                                            *)
ReaderFails ==
  /\ loading = "reading"
  /\ loading' = "no" /\ outcome' = "raised"
  /\ UNCHANGED <<file, line, parsed_count, total_lines, keptVars, loads, created>>

Loads == ReadMessage \/ EndReading \/ ReaderFails

-----------------------------------------------------------------------------
(* A line whose fields the parser of its format can tell apart.  Those that   *)
(* look for the length everywhere take the digit before an id of two          *)
(* hexadecimal digits for it, or an id or a name before a byte; a name may     *)
(* also be the first number or a direction; a channel may be no number; and a *)
(* code is no length.                                                        *)
Unambiguous(format, m) ==
  /\ format \in {"full", "cancommander", "type3"} => m.id.width # 2
  /\ format = "full" => m.channel.dec # No
  /\ format = "filter" => m.id.dec \notin VALID_DLC \/ ~IsByte(m.label)
  /\ format \in {"filter", "full", "cansuke"} => m.label.dec = No
  /\ format \in {"filter", "full", "cansuke", "cancommander"} => m.label.text # "Tx"
  /\ format = "type2" => m.code # 9
  /\ format = "type3" => m.code <= 8

(* Every line of every format comes out of the parser of its format with the  *)
(* fields its pattern says, if they can be told apart.  load_log_file does    *)
(* not get as far as the parsers (line 135): this is what anyone who calls    *)
(* them with a line of a file is given.                                      *)
FieldsAreTheLines ==
  \A n \in DOMAIN file.lines :
    file.lines[n] # Noise =>
      LET m == file.lines[n][1]
      IN m.data # <<>> /\ Unambiguous(file.format, m) =>
           Parse(file.format, Line(file.format, m)) = <<Told(m)>>

(* The first n entries of an id, and those of them made by one load.          *)
OfId(entries, n, id) == {i \in 1 .. n : entries[i].fields.id = id}
OfLoad(entries, n, load, id) == {i \in OfId(entries, n, id) : entries[i].load = load}

(* The time of the last of the former, and the data of the last of the        *)
(* latter, or none.                                                          *)
TimeBefore(entries, n, id) ==
  LET S == OfId(entries, n, id) IN IF S = {} THEN 0 ELSE entries[Max(S)].fields.time
DataBefore(entries, n, load, id) ==
  LET S == OfLoad(entries, n, load, id)
  IN IF S = {} THEN <<>> ELSE entries[Max(S)].fields.data

(* An entry is marked as changed if its data differ from those of the entry   *)
(* before it with the same id in the same file, if that had any; its last     *)
(* time is that of the entry before it with the same id in any file, unless   *)
(* it was 0.  A file whose reader failed counts as far as it was read.        *)
ChangesAreChanges ==
  \A j \in DOMAIN created :
    LET e == created[j]
        data == DataBefore(created, j - 1, e.load, e.fields.id)
        time == TimeBefore(created, j - 1, e.fields.id)
    IN /\ e.changed = (data # <<>> /\ data # e.fields.data)
       /\ e.last_timestamp = IF time # 0 THEN time ELSE e.fields.time

=============================================================================
