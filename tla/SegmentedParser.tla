--------------------------- MODULE SegmentedParser ---------------------------
(***************************************************************************)
(* can_parser_run_worker_segmented (converter/can_parser copy.cpp): one     *)
(* worker parses a log file in parallel ranges and merges them, in order,   *)
(* into a family of mapped segment files that readers may open at any time, *)
(* and into the row lists its indexes are built from.                       *)
(*                                                                         *)
(* The threads of the parse write disjoint buffers and are joined before    *)
(* the merge, so the parse is one step; the merge is one step per entry, as *)
(* segments are seen by readers and stay when the worker is killed.         *)
(* Memory is not exhausted.                                                 *)
(***************************************************************************)
EXTENDS LogChunks

CONSTANTS SegmentCapacity,  \* kDataSegmentCapacity
          TableSize,        \* kLastTimestampTableSize
          ChannelNumbers,   \* 256: a channel's number is a uint8_t
          Formats,          \* formats the caller may give, Unknown for none
          MaxSize           \* bound: bytes in the file

ASSUME SegmentsAssumption ==
  /\ SegmentCapacity \in Nat \ {0} /\ TableSize \in Nat
  /\ ChannelNumbers \in Nat \ {0} /\ MaxSize \in Nat
  /\ Unknown \in Formats /\ Formats \subseteq Nat
  /\ \A kind \in Kinds : kind.id \in Nat /\ kind.data \in Nat /\ kind.direction \in {0, 1}

VARIABLES
  text, fmt,   \* the file and the format the caller gave
  pc,          \* where the worker is
  parsed,      \* tout[0].buf .. tout[kNumThreads - 1].buf
  next,        \* entries merged so far
  segments,    \* the segment files: status, write_count, entries
  last,        \* last_timestamp_by_id
  raw,         \* last_raw_by_id
  by_id, changed_by_id,       \* global_can_id_index, .._changed_index
  channel_table, channel_of,  \* channel_table, channel_to_index
  by_channel, by_direction    \* global_channel_rows, global_direction_rows

inputVars == <<text, fmt>>
tableVars == <<last, raw>>
listVars == <<by_id, changed_by_id, channel_table, channel_of, by_channel,
              by_direction>>
vars == <<inputVars, pc, parsed, next, segments, tableVars, listVars>>

Ids == {kind.id : kind \in Kinds}
Channels == {kind.channel : kind \in Kinds}
None == -1

Init ==
  /\ text \in BoundedSeq(Kinds \cup {Newline}, MaxSize) /\ fmt \in Formats
  /\ pc = "parse" /\ parsed = <<>> /\ next = 0 /\ segments = <<>>
  /\ last = [id \in Ids |-> None] /\ raw = [id \in Ids |-> None]
  /\ by_id = [id \in Ids |-> <<>>] /\ changed_by_id = [id \in Ids |-> <<>>]
  /\ channel_table = <<>> /\ channel_of = [c \in Channels |-> None]
  /\ by_channel = <<>> /\ by_direction = [d \in {0, 1} |-> <<>>]

-----------------------------------------------------------------------------
(* Seeded faults: each replaces the definition of the model it is named     *)
(* after in one mutant run.                                                 *)

(* The last timestamp of an id is that of the entry merged before it. *)
PreviousEntry(entry) == IF next = 0 THEN entry.timestamp
                                    ELSE parsed[next].timestamp

(* A row is numbered within its segment. *)
RowInSegment == Len(Last(segments).entries) - 1

(* A segment is given up one entry before it is full. *)
AlmostFull == Len(Last(segments).entries) + 1 >= SegmentCapacity

-----------------------------------------------------------------------------
(* LastTimestampTable.update_and_get_prev *)
Previous(entry) ==
  IF entry.kind.id >= TableSize \/ last[entry.kind.id] = None
    THEN entry.timestamp ELSE last[entry.kind.id]

Changed(entry) == raw[entry.kind.id] \notin {None, entry.kind.data}

Merged(entry) == [line |-> entry.line, timestamp |-> entry.timestamp,
                  kind |-> entry.kind, last_timestamp |-> Previous(entry),
                  changed |-> Changed(entry)]

NewSegment == [status |-> "RUNNING", write_count |-> 0, entries |-> <<>>]

Full == Len(Last(segments).entries) >= SegmentCapacity

WriteCount == Len(Last(segments).entries)

Closed == [segments EXCEPT ![Len(segments)].status = "DONE"]

Parse == /\ pc = "parse"
         /\ parsed' = ParseRanges(text, fmt)
         /\ pc' = "open"
         /\ UNCHANGED <<inputVars, next, segments, tableVars, listVars>>

OpenSegment == /\ pc = "open"
               /\ segments' = Append(segments, NewSegment)
               /\ pc' = "merge"
               /\ UNCHANGED <<inputVars, parsed, next, tableVars, listVars>>

(* Returns -2, -5 or -6: what was closed before stays as it is. *)
FailToOpen == /\ pc \in {"parse", "open"}
              /\ pc' = "failed"
              /\ UNCHANGED <<inputVars, parsed, next, segments, tableVars, listVars>>

CloseFullSegment == /\ pc = "merge" /\ next < Len(parsed) /\ Full
                    /\ segments' = Closed
                    /\ pc' = "open"
                    /\ UNCHANGED <<inputVars, parsed, next, tableVars, listVars>>

WriteEntry ==
  /\ pc = "merge" /\ next < Len(parsed) /\ ~Full
  /\ LET entry == parsed[next + 1]
         id == entry.kind.id
     IN  /\ segments' = [segments EXCEPT ![Len(segments)].entries =
                           Append(@, Merged(entry))]
         /\ last' = IF id < TableSize THEN [last EXCEPT ![id] = entry.timestamp]
                                      ELSE last
         /\ raw' = [raw EXCEPT ![id] = entry.kind.data]
  /\ pc' = "list"
  /\ UNCHANGED <<inputVars, parsed, next, listVars>>

(* global_row_idx *)
RowIndex == next

(* normalize_channel_key aside, a channel is numbered when it is first seen. *)
ListChannel(channel, row) ==
  LET new == channel_of[channel] = None
      number == IF new THEN Len(channel_table) % ChannelNumbers
                       ELSE channel_of[channel]
      lists == IF new THEN Append(by_channel, <<>>) ELSE by_channel
  IN  /\ channel_table' = IF new THEN Append(channel_table, channel)
                                 ELSE channel_table
      /\ channel_of' = [channel_of EXCEPT ![channel] = number]
      /\ by_channel' = [lists EXCEPT ![number + 1] = Append(@, row)]

(* The row is listed and counted. *)
ListEntry ==
  /\ pc = "list"
  /\ LET entry == Last(Last(segments).entries)
         id == entry.kind.id
     IN  /\ by_id' = [by_id EXCEPT ![id] = Append(@, RowIndex)]
         /\ changed_by_id' = IF entry.changed
                               THEN [changed_by_id EXCEPT ![id] = Append(@, RowIndex)]
                               ELSE changed_by_id
         /\ ListChannel(entry.kind.channel, RowIndex)
         /\ by_direction' = [by_direction EXCEPT ![entry.kind.direction] =
                               Append(@, RowIndex)]
  /\ segments' = [segments EXCEPT ![Len(segments)].write_count = WriteCount]
  /\ next' = next + 1
  /\ pc' = "merge"
  /\ UNCHANGED <<inputVars, parsed, tableVars>>

CloseLastSegment == /\ pc = "merge" /\ next = Len(parsed)
                    /\ segments' = Closed
                    /\ pc' = "index"
                    /\ UNCHANGED <<inputVars, parsed, next, tableVars, listVars>>

(* The worker process is killed. *)
Kill == /\ pc \notin {"index", "failed", "dead"}
        /\ pc' = "dead"
        /\ UNCHANGED <<inputVars, parsed, next, segments, tableVars, listVars>>

Worker == \/ Parse \/ OpenSegment \/ FailToOpen \/ CloseFullSegment
          \/ WriteEntry \/ ListEntry \/ CloseLastSegment

Next == Worker \/ Kill

Spec == Init /\ [][Next]_vars

-----------------------------------------------------------------------------
(* What a reader of the segment files finds. *)
OnDisk == FlattenSeq([s \in DOMAIN segments |->
                        SubSeq(segments[s].entries, 1, segments[s].write_count)])

(* The ranges are the file, cut behind line ends only: no thread sees half  *)
(* a line, whatever the length of the file and of its lines.                *)
RangesHoldWholeLines ==
  /\ End(text, NumThreads) = Len(text)
  /\ \A t \in 1 .. NumThreads :
        /\ Begin(text, t) <= End(text, t)
        /\ Begin(text, t) \notin {0, Len(text)} =>
              ByteAt(text, Begin(text, t) - 1) = Newline

(* A file of one format is parsed in parallel as it is from its first line  *)
(* on: the same lines, in their order, with their line numbers.  (In a file *)
(* of several formats each range keeps the first one it meets.)             *)
ParallelIsSequential ==
  pc \notin {"parse", "failed", "dead"} /\ OneFormat(text, fmt) => parsed = ReferenceEntries(text, fmt)

(* The entries before n of parsed with the id of entry n; the latest one.   *)
Earlier(n) == {m \in 1 .. n - 1 : parsed[m].kind.id = parsed[n].kind.id}
Latest(n) == CHOOSE m \in Earlier(n) : \A o \in Earlier(n) : o <= m

(* An entry knows the timestamp of the entry of its id before it and        *)
(* whether its data differ, across ranges and segments; ids beyond the      *)
(* table know no entry before them.                                         *)
Rightly(entry, n) ==
  /\ entry.line = parsed[n].line /\ entry.kind = parsed[n].kind
  /\ entry.timestamp = parsed[n].timestamp
  /\ entry.last_timestamp =
        IF Earlier(n) = {} \/ entry.kind.id >= TableSize
          THEN entry.timestamp ELSE parsed[Latest(n)].timestamp
  /\ entry.changed <=> /\ Earlier(n) # {}
                       /\ parsed[Latest(n)].kind.data # entry.kind.data

(* At every moment, and when the worker is killed or fails, what readers    *)
(* can count is the first entries of the log, merged rightly; at the end it *)
(* is the whole log.                                                        *)
OnDiskIsTheLog ==
  /\ Len(OnDisk) = next
  /\ \A n \in DOMAIN OnDisk : Rightly(OnDisk[n], n)
  /\ pc = "index" => next = Len(parsed)

(* Row r is in segment r \div SegmentCapacity: only the last segment opened *)
(* is not full, none is filled past its capacity, and all before it are     *)
(* closed.                                                                  *)
SegmentsAreFull ==
  \A s \in DOMAIN segments :
     /\ Len(segments[s].entries) <= SegmentCapacity
     /\ s # Len(segments) => /\ segments[s].status = "DONE"
                             /\ segments[s].write_count = SegmentCapacity

(* The rows counted so far that are in a set, in their order. *)
RowsIn(rows) == Select([n \in 1 .. next |-> n - 1], rows)

RowsOf(id) == {r \in 0 .. next - 1 : OnDisk[r + 1].kind.id = id}
ChangedRows == {r \in 0 .. next - 1 : OnDisk[r + 1].changed}
RowsTowards(d) == {r \in 0 .. next - 1 : OnDisk[r + 1].kind.direction = d}
RowsOn(channel) == {r \in 0 .. next - 1 : OnDisk[r + 1].kind.channel = channel}

(* The lists name the rows on disk, each once and in order, under its id,   *)
(* its direction and, unless there are more channels than numbers, its      *)
(* channel.                                                                 *)
EveryRowListed ==
  /\ \A id \in Ids : /\ by_id[id] = RowsIn(RowsOf(id))
                     /\ changed_by_id[id] = RowsIn(RowsOf(id) \cap ChangedRows)
  /\ \A d \in {0, 1} : by_direction[d] = RowsIn(RowsTowards(d))
  /\ Len(channel_table) <= ChannelNumbers =>
        \A c \in DOMAIN channel_table : by_channel[c] = RowsIn(RowsOn(channel_table[c]))

=============================================================================
