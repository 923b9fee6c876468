---------------------------- MODULE ParsedIndexes ----------------------------
(***************************************************************************)
(* The last part of can_parser_run_worker_segmented (converter/can_parser   *)
(* copy.cpp): the row lists of a merged log are written into three families *)
(* of index files, by CAN id, by channel and by direction, one after the    *)
(* other.  An index file has a table of bounded length, whose entries point *)
(* into a pool of rows of bounded size; when either is full the family goes *)
(* on in another file.  The CAN id family has a second pool, of the rows    *)
(* whose data changed; its pool of timestamps is filled as the pool of rows *)
(* is and is left out.                                                      *)
(*                                                                         *)
(* Headers are written when a file is closed, so each table entry, with     *)
(* its part of the pools, is one step.                                      *)
(***************************************************************************)
EXTENDS Integers, FiniteSets, SequencesExt, Selections

CONSTANTS Rows,          \* what a row can be: id, channel, direction, changed
          PoolCapacity,  \* k..IndexSegmentCapacity, one number in all families
          MaxCanIds, MaxChannels, MaxDirections,  \* kIndexMaxCanIds, ...
          MaxRows        \* bound: rows in the log

ASSUME IndexAssumption ==
  /\ PoolCapacity \in Nat \ {0} /\ MaxRows \in Nat
  /\ {MaxCanIds, MaxChannels, MaxDirections} \subseteq Nat \ {0}
  /\ \A row \in Rows : {row.id, row.channel, row.direction} \subseteq Nat

VARIABLES
  log,      \* the merged rows, row r at log[r + 1]
  pc,       \* where the worker is
  family,   \* the family it writes
  left,     \* the keys it has not begun
  key,      \* the key it writes, or NoKey
  pos,      \* the rows of key it has written
  files     \* by family: the index files

vars == <<log, pc, family, left, key, pos, files>>

NoKey == -1

(* The rows of a set, as the merge came to them. *)
InOrder(rows) == Select([n \in DOMAIN log |-> n - 1], rows)

-----------------------------------------------------------------------------
(* The families. *)

(* global_can_id_index is a hash table: its ids come in any order. *)
CanIdFamily ==
  [keys |-> {row.id : row \in ToSet(log)}, ordered |-> FALSE, max |-> MaxCanIds]

ChannelFamily ==
  [keys |-> {row.channel : row \in ToSet(log)}, ordered |-> TRUE, max |-> MaxChannels]

DirectionFamily ==
  [keys |-> {row.direction : row \in ToSet(log)}, ordered |-> TRUE,
   max |-> MaxDirections]

Families == <<CanIdFamily, ChannelFamily, DirectionFamily>>

KeyOf(f, row) == <<row.id, row.channel, row.direction>>[f]

(* The list of rows of a key, and of those the second pool is for. *)
List(f, k) == InOrder({n - 1 : n \in {m \in DOMAIN log : KeyOf(f, log[m]) = k}})
ChangedList(f, k) ==
  IF f # 1 THEN <<>>
  ELSE InOrder({n - 1 : n \in {m \in DOMAIN log : KeyOf(f, log[m]) = k /\ log[m].changed}})

Init == /\ log \in BoundedSeq(Rows, MaxRows)
        /\ pc = "open" /\ family = 1
        /\ left = CanIdFamily.keys /\ key = NoKey /\ pos = 0
        /\ files = <<<<>>, <<>>, <<>>>>

File == Last(files[family])

-----------------------------------------------------------------------------
(* Seeded faults: each replaces the definition of the model it is named     *)
(* after in one mutant run.                                                 *)

(* Every row taken is also put in the pool of changed rows. *)
AllChanged(taken) == taken

(* Offsets are not reset when a file is opened. *)
OffsetOverFiles == Len(FlattenSeq([n \in DOMAIN files[family] |->
                                     files[family][n].row_pool]))

(* A list that was cut is not gone on with in the next file. *)
CutIsLast(written) == TRUE

-----------------------------------------------------------------------------
Full == \/ Len(File.row_pool) >= PoolCapacity
        \/ Len(File.changed_pool) >= PoolCapacity
        \/ Len(File.table) >= Families[family].max

RowOffset == Len(File.row_pool)

(* At least one row, as the file is not full. *)
Take == LET row_avail == PoolCapacity - Len(File.row_pool)
            changed_avail == PoolCapacity - Len(File.changed_pool)
            avail == IF row_avail < changed_avail THEN row_avail ELSE changed_avail
            remaining == Len(List(family, key)) - pos
        IN  IF avail < remaining THEN avail ELSE remaining

KeyIsWritten(written) == written = Len(List(family, key))

ChangedAmong(taken) ==
  Select(taken, ToSet(ChangedList(family, key)))

EmptyFile == [status |-> "RUNNING", table |-> <<>>, row_pool |-> <<>>,
              changed_pool |-> <<>>]

Closed == [files EXCEPT ![family][Len(files[family])].status = "DONE"]

OpenFile == /\ pc = "open"
            /\ files' = [files EXCEPT ![family] = Append(@, EmptyFile)]
            /\ pc' = "write"
            /\ UNCHANGED <<log, family, left, key, pos>>

(* Returns -7, -8, -12, -13, -15 or -16. *)
FailToOpen == /\ pc = "open"
              /\ pc' = "failed"
              /\ UNCHANGED <<log, family, left, key, pos, files>>

BeginKey == /\ pc = "write" /\ key = NoKey
            /\ key' \in left
            /\ Families[family].ordered => \A k \in left : key' <= k
            /\ left' = left \ {key'}
            /\ pos' = 0
            /\ UNCHANGED <<log, pc, family, files>>

CloseFullFile == /\ pc = "write" /\ key # NoKey /\ Full
                 /\ files' = Closed
                 /\ pc' = "open"
                 /\ UNCHANGED <<log, family, left, key, pos>>

WriteEntry ==
  /\ pc = "write" /\ key # NoKey /\ ~Full
  /\ LET taken == SubSeq(List(family, key), pos + 1, pos + Take)
         changed == ChangedAmong(taken)
         entry == [key |-> key, count |-> Take, row_offset |-> RowOffset,
                   changed_offset |-> Len(File.changed_pool),
                   changed_count |-> Len(changed)]
         written == [File EXCEPT !.table = Append(@, entry),
                                 !.row_pool = @ \o taken,
                                 !.changed_pool = @ \o changed]
     IN  files' = [files EXCEPT ![family][Len(files[family])] = written]
  /\ pos' = pos + Take
  /\ key' = IF KeyIsWritten(pos') THEN NoKey ELSE key
  /\ UNCHANGED <<log, pc, family, left>>

CloseFamily ==
  /\ pc = "write" /\ key = NoKey /\ left = {}
  /\ files' = Closed
  /\ IF family = Len(Families)
       THEN pc' = "done" /\ UNCHANGED <<family, left>>
       ELSE /\ pc' = "open"
            /\ family' = family + 1
            /\ left' = Families[family + 1].keys
  /\ UNCHANGED <<log, key, pos>>

Kill == /\ pc \in {"open", "write"}
        /\ pc' = "dead"
        /\ UNCHANGED <<log, family, left, key, pos, files>>

Worker == \/ OpenFile \/ FailToOpen \/ BeginKey \/ CloseFullFile \/ WriteEntry
          \/ CloseFamily

Next == Worker \/ Kill

Spec == Init /\ [][Next]_vars

-----------------------------------------------------------------------------
(* What the entries of a key in the files f say. *)
RowsFound(file, k) ==
  FlattenSeq([n \in DOMAIN file.table |->
    LET entry == file.table[n]
    IN  IF entry.key # k THEN <<>>
        ELSE SubSeq(file.row_pool, entry.row_offset + 1,
                    entry.row_offset + entry.count)])

ChangedFound(file, k) ==
  FlattenSeq([n \in DOMAIN file.table |->
    LET entry == file.table[n]
    IN  IF entry.key # k THEN <<>>
        ELSE SubSeq(file.changed_pool, entry.changed_offset + 1,
                    entry.changed_offset + entry.changed_count)])

(* What a reader finds in all files of a family.  The header of a file that *)
(* was not closed counts nothing.                                           *)
RowsRead(f, k) ==
  FlattenSeq([n \in DOMAIN files[f] |->
    IF files[f][n].status = "DONE" THEN RowsFound(files[f][n], k) ELSE <<>>])
ChangedRead(f, k) ==
  FlattenSeq([n \in DOMAIN files[f] |->
    IF files[f][n].status = "DONE" THEN ChangedFound(files[f][n], k) ELSE <<>>])

(* A reader that adds up the closed files of a family finds the first rows  *)
(* of each key, in order and once, and those that changed among them; a     *)
(* worker that was killed or failed leaves no row under a wrong key.        *)
ReadsAPrefix ==
  \A f \in DOMAIN Families : \A k \in Families[f].keys :
     /\ IsPrefix(RowsRead(f, k), List(f, k))
     /\ ChangedRead(f, k) = Select(RowsRead(f, k), ToSet(ChangedList(f, k)))

(* When the worker is done, every row is found under its id, its channel    *)
(* and its direction, however the lists were cut by full tables and pools.  *)
EveryRowIndexed ==
  pc = "done" => \A f \in DOMAIN Families : \A k \in Families[f].keys :
                    RowsRead(f, k) = List(f, k)

(* No table entry points outside its pools, no two share a row of them, and *)
(* neither the pools nor the table outgrow what the file was mapped for.    *)
EntriesAreDisjoint ==
  \A f \in DOMAIN Families : \A n \in DOMAIN files[f] :
     LET file == files[f][n]
         span(e) == e.row_offset + 1 .. e.row_offset + e.count
         changed_span(e) == e.changed_offset + 1 .. e.changed_offset + e.changed_count
     IN  /\ Len(file.row_pool) <= PoolCapacity /\ Len(file.changed_pool) <= PoolCapacity
         /\ Len(file.table) <= Families[f].max
         /\ \A m \in DOMAIN file.table :
               /\ span(file.table[m]) \subseteq DOMAIN file.row_pool
               /\ changed_span(file.table[m]) \subseteq DOMAIN file.changed_pool
         /\ \A m, o \in DOMAIN file.table : m # o =>
               /\ span(file.table[m]) \cap span(file.table[o]) = {}
               /\ changed_span(file.table[m]) \cap changed_span(file.table[o]) = {}

=============================================================================
