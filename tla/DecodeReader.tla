----------------------------- MODULE DecodeReader -----------------------------
(***************************************************************************)
(* CANLogDecodedDiskFile (repository/file_handler/decode_mmap_handler.py):   *)
(* lists of samples read from the files of a decode, and the count of what   *)
(* is decoded, while the decoder may still write or the files be removed.    *)
(*                                                                         *)
(* A decode is a directory and families of arrays.  The native decoder that  *)
(* writes them, and the repository that removes them, are outside the        *)
(* source.  The decoder is assumed to make its files as the writer in        *)
(* can_parser copy.cpp does: a segment is there for a row that has no place,  *)
(* and is nothing but a name at first; then it has a header, then rows, each  *)
(* one in it when its write_count says so, and when it is full or the last    *)
(* row is in it, its status.  Only then the next is begun.  The directory is  *)
(* made likewise.  Nothing is assumed of the order of families and directory. *)
(*                                                                         *)
(* A read is several steps: the directory, the names of the segments, each   *)
(* segment opened, the samples.  A sample is told by its decode and its      *)
(* place in the family.                                                      *)
(***************************************************************************)
EXTENDS Integers, SequencesExt, FiniteSetsExt, Selections

Unasked == -1   \* can_id=None

CONSTANTS Families,     \* of "value", "rawvalue", "changed", "row_index"
          Queries,      \* lists to ask for: a family, a signal and a CAN id or Unasked
          Layouts,      \* what a decode can hold: sequences of signals
          SegmentRows,  \* the capacity of a segment
          Numbered,     \* 1000: segments whose names the pattern [0-9][0-9][0-9] fits
          MaxDecodes    \* bound: decodes of the log

ASSUME ReaderAssumption ==
  /\ Families \subseteq {"value", "rawvalue", "changed", "row_index"}
  /\ \A q \in Queries : q.family \in Families /\ (q.family = "changed" => q.can = Unasked)
  /\ "row_index" \in Families
  /\ Layouts \subseteq Seq([can : Int, signal : Int, samples : Nat, changed : Nat])
  /\ {SegmentRows, Numbered} \subseteq Nat \ {0} /\ MaxDecodes \in Nat

VARIABLES
  decodes,    \* decodes begun
  layout,     \* what the current one holds
  single,     \* whether its families are one file each
  working,    \* whether the decoder runs
  rows,       \* by family: rows written
  finished,   \* by family: segments whose status is set
  opened,     \* by family: the one after them is "none", "blank" or "headed"
  directory   \* "none", "blank", "unfinished" or "finished"

VARIABLES
  pc,         \* where the reader is
  query,      \* what it reads
  entries,    \* the directory entries that matched
  paths,      \* the segment files it has found: how many, of which naming
  held,       \* the segments it has opened
  result,     \* the list it returned
  counted     \* the rows counted in the segments looked at: at the end of a refresh,
              \* decode_verified_size

(* History: whether files were removed since the call; whether the decode    *)
(* was complete when it was made; the rows there were then.                  *)
VARIABLES disturbed, complete, before

decoderVars == <<decodes, layout, single, working, rows, finished, opened, directory>>
readerVars == <<pc, query, entries, paths, held, result, counted>>
callVars == <<disturbed, complete, before>>
allVars == <<decoderVars, readerVars, callVars>>

-----------------------------------------------------------------------------
(* The files of a decode. *)

RowsOf(signal, f) == IF f = "changed" THEN signal.changed ELSE signal.samples
RowsOfAll(s, f) == SumOf([i \in DOMAIN s |-> RowsOf(s[i], f)])

(* A signal's rows are together, after those of the signals before it. *)
Directory ==
  [i \in 1 .. Len(layout) |->
     [can |-> layout[i].can, signal |-> layout[i].signal,
      offset |-> [f \in Families |-> RowsOfAll(SubSeq(layout, 1, i - 1), f)],
      count |-> [f \in Families |-> RowsOf(layout[i], f)],
      samples |-> layout[i].samples]]

Total(f) == RowsOfAll(layout, f)
Capacity(f) == IF single THEN Total(f) ELSE SegmentRows
Least(m, n) == IF m < n THEN m ELSE n
(* Segment files there are: the last may be unfinished. *)
Segments(f) == finished[f] + IF opened[f] = "none" THEN 0 ELSE 1

Complete == /\ directory = "finished"
            /\ \A f \in Families : rows[f] = Total(f) /\ finished[f] = Segments(f)

NoPaths == [count |-> 0, single |-> FALSE]

ReaderInit ==
  /\ decodes = 0 /\ layout = <<>> /\ single = FALSE /\ working = FALSE
  /\ rows = [f \in Families |-> 0] /\ finished = rows
  /\ opened = [f \in Families |-> "none"] /\ directory = "none"
  /\ pc = "idle" /\ query = [family |-> "none", signal |-> Unasked, can |-> Unasked]
  /\ entries = <<>> /\ paths = NoPaths /\ held = <<>>
  /\ result = <<>> /\ counted = 0
  /\ disturbed = FALSE /\ complete = FALSE /\ before = 0

-----------------------------------------------------------------------------
(* Seeded faults: each replaces the definition of the model it is named      *)
(* after in one mutant run.                                                  *)

(* The capacity of a segment counts whatever its status is. *)
CapacityOfAll(f, i) == Capacity(f)

(* rem < cap - 1: the last row of a segment is not found. *)
HoldsOneLess(rem, cap) == rem < cap - 1

(* A segment's capacity is taken for what is written in it. *)
CountsCapacity(i) == Capacity("row_index")

-----------------------------------------------------------------------------
(* The decoder, and the removal of decodes. *)

BeginDecode ==
  /\ ~working /\ directory = "none" /\ \A f \in Families : Segments(f) = 0
  /\ decodes < MaxDecodes /\ decodes' = decodes + 1
  /\ layout' \in Layouts /\ single' \in BOOLEAN
  /\ working' = TRUE
  /\ UNCHANGED <<rows, finished, opened, directory, readerVars, callVars>>

(* The decoder goes on with the files of a family. *)
Writes(f) == /\ working
             /\ UNCHANGED <<decodes, layout, single, working, directory, readerVars, callVars>>

CreateSegment(f) ==
  /\ Writes(f)
  /\ opened[f] = "none" /\ rows[f] < Total(f)
  /\ opened' = [opened EXCEPT ![f] = "blank"]
  /\ UNCHANGED <<rows, finished>>

WriteHeader(f) ==
  /\ Writes(f)
  /\ opened[f] = "blank"
  /\ opened' = [opened EXCEPT ![f] = "headed"]
  /\ UNCHANGED <<rows, finished>>

(* What the segment after the finished ones holds at the end. *)
FilledUp(f) == Least((finished[f] + 1) * Capacity(f), Total(f))

WriteRow(f) ==
  /\ Writes(f)
  /\ opened[f] = "headed" /\ rows[f] < FilledUp(f)
  /\ rows' = [rows EXCEPT ![f] = @ + 1]
  /\ UNCHANGED <<finished, opened>>

FinishSegment(f) ==
  /\ Writes(f)
  /\ opened[f] = "headed" /\ rows[f] = FilledUp(f)
  /\ finished' = [finished EXCEPT ![f] = @ + 1]
  /\ opened' = [opened EXCEPT ![f] = "none"]
  /\ UNCHANGED rows

WriteDirectory ==
  /\ working
  /\ \/ directory = "none" /\ directory' = "blank"
     \/ directory = "blank" /\ directory' = "unfinished"
     \/ directory = "unfinished" /\ directory' = "finished"
  /\ UNCHANGED <<decodes, layout, single, working, rows, finished, opened,
                 readerVars, callVars>>

(* It ends, or is killed. *)
EndDecoder == /\ working /\ working' = FALSE
              /\ UNCHANGED <<decodes, layout, single, rows, finished, opened, directory,
                             readerVars, callVars>>

(* remove_log_decode_mmaps and its like: one kind of file after another. *)
RemoveFiles ==
  /\ ~working
  /\ \/ /\ directory # "none" /\ directory' = "none"
        /\ UNCHANGED <<rows, finished, opened>>
     \/ \E f \in Families : /\ Segments(f) # 0
                            /\ rows' = [rows EXCEPT ![f] = 0]
                            /\ finished' = [finished EXCEPT ![f] = 0]
                            /\ opened' = [opened EXCEPT ![f] = "none"]
                            /\ UNCHANGED directory
  /\ disturbed' = TRUE
  /\ UNCHANGED <<decodes, layout, single, working, readerVars, complete, before>>

-----------------------------------------------------------------------------
(* get_signal_value_list, get_signal_rawvalue_list and                       *)
(* get_signal_changed_row_index_list, one read for each family.              *)

(* _load_decode_signal_directory_entries *)
LoadedEntries == IF directory # "finished" THEN <<>>
                 ELSE Select(Directory, {e \in ToSet(Directory) : e.samples > 0})

(* _get_decode_signal_entries; the list of changes asks for every CAN id. *)
Matched(q) ==
  Select(LoadedEntries, {e \in ToSet(LoadedEntries) :
                           e.signal = q.signal /\ q.can \in {Unasked, e.can}})

Called == pc \in {"idle", "returned", "raised", "refreshed"} /\ disturbed' = FALSE

(* _decode_segment_paths: the one file if it is there, else the numbered ones. *)
SegmentPaths(f) ==
  [count |-> IF single THEN Segments(f) ELSE Least(Segments(f), Numbered),
   single |-> single]

(* A directory that has no header yet cannot be read. *)
GetList(q) ==
  /\ Called
  /\ query' = q /\ entries' = Matched(q)
  /\ pc' = CASE directory = "blank" -> "raised"
            [] directory # "blank" /\ entries' = <<>> -> "returned"
            [] directory # "blank" /\ entries' # <<>> -> "finding"
  /\ held' = <<>> /\ result' = <<>> /\ counted' = 0
  /\ complete' = Complete /\ before' = 0
  /\ UNCHANGED <<decoderVars, paths>>

FindSegments ==
  /\ pc = "finding"
  /\ paths' = SegmentPaths(query.family)
  /\ pc' = IF paths'.count = 0 THEN "returned" ELSE "opening"
  /\ UNCHANGED <<decoderVars, query, entries, held, result, counted, callVars>>

(* A file that was found is still there, or is there again. *)
Exists(f, i) == i <= Segments(f) /\ single = paths.single

Headed(f, i) == i <= finished[f] \/ opened[f] = "headed"

(* The capacity a segment counts with: none while its status is 0. *)
CapacityRead(f, i) == IF i <= finished[f] THEN Capacity(f) ELSE 0

(* _open_decode_array_segments, one segment: open raises if it is gone, mmap  *)
(* or unpack_from if it has no header.                                       *)
OpenSegment ==
  /\ pc = "opening" /\ Len(held) < paths.count
  /\ LET f == query.family
         i == Len(held) + 1
     IN IF Exists(f, i) /\ Headed(f, i)
          THEN /\ held' = Append(held, [decode |-> decodes, capacity |-> CapacityRead(f, i),
                                        size |-> Capacity(f),
                                        start |-> (i - 1) * Capacity(f)])
               /\ UNCHANGED <<pc, paths>>
          ELSE pc' = "raised" /\ held' = <<>> /\ paths' = NoPaths
  /\ UNCHANGED <<decoderVars, query, entries, result, counted, callVars>>

Holds(rem, cap) == rem < cap

(* _decode_global_sample_pos_to_segment_local: the capacities before segment *)
(* i are taken off, and i is the first that holds what remains.              *)
Remains(pos, i) == pos - SumOf([j \in 1 .. i - 1 |-> held[j].capacity])
Found(pos) == {i \in DOMAIN held : Holds(Remains(pos, i), held[i].capacity)}

(* _decode_read_scalar_from_sample_pos: no element, or one, if the file is    *)
(* long enough.                                                              *)
ReadScalar(pos) ==
  IF Found(pos) = {} THEN <<>>
  ELSE LET i == Min(Found(pos))
       IN IF Remains(pos, i) >= held[i].size THEN <<>>
          ELSE <<[decode |-> held[i].decode, at |-> held[i].start + Remains(pos, i)]>>

Positions(e, f) == [j \in 1 .. e.count[f] |-> e.offset[f] + j - 1]
Wanted(es, f) == FlattenSeq([i \in DOMAIN es |-> Positions(es[i], f)])

ReadSamples ==
  /\ pc = "opening" /\ Len(held) = paths.count
  /\ LET wanted == Wanted(entries, query.family)
     IN result' = FlattenSeq([i \in DOMAIN wanted |-> ReadScalar(wanted[i])])
  /\ held' = <<>> /\ paths' = NoPaths /\ pc' = "returned"
  /\ UNCHANGED <<decoderVars, query, entries, counted, callVars>>

-----------------------------------------------------------------------------
(* refresh_decode_mmap_runtime *)

Refresh ==
  /\ Called
  /\ paths' = SegmentPaths("row_index")
  /\ pc' = "counting"
  /\ entries' = <<>> /\ held' = <<>> /\ result' = <<>> /\ counted' = 0
  /\ complete' = FALSE /\ before' = rows["row_index"]
  /\ UNCHANGED <<decoderVars, query>>

(* _read_decode_segment_write_count *)
WriteCount(i) == Least(rows["row_index"] - (i - 1) * Capacity("row_index"),
                       Capacity("row_index"))

(* held counts the segments that were looked at; a file that is gone counts 0, *)
(* as does one without a header, which has no row.                             *)
CountSegment ==
  /\ pc = "counting" /\ Len(held) < paths.count
  /\ held' = Append(held, [decode |-> decodes, capacity |-> 0, size |-> 0, start |-> 0])
  /\ counted' = counted + IF Exists("row_index", Len(held) + 1)
                            THEN WriteCount(Len(held) + 1) ELSE 0
  /\ UNCHANGED <<decoderVars, pc, query, entries, paths, result, callVars>>

Refreshed ==
  /\ pc = "counting" /\ Len(held) = paths.count
  /\ held' = <<>> /\ paths' = NoPaths /\ pc' = "refreshed"
  /\ UNCHANGED <<decoderVars, query, entries, result, counted, callVars>>

-----------------------------------------------------------------------------
Reader == \/ \E q \in Queries : GetList(q)
          \/ FindSegments \/ OpenSegment \/ ReadSamples
          \/ Refresh \/ CountSegment \/ Refreshed

Decoder == \/ BeginDecode \/ WriteDirectory \/ EndDecoder
           \/ \E f \in Families : \/ CreateSegment(f) \/ WriteHeader(f)
                                  \/ WriteRow(f) \/ FinishSegment(f)

ReaderNext == Reader \/ Decoder \/ RemoveFiles

ReaderSpec == ReaderInit /\ [][ReaderNext]_allVars

-----------------------------------------------------------------------------
Answered == pc = "returned" /\ ~disturbed
Samples(wanted) == [i \in DOMAIN wanted |-> [decode |-> decodes, at |-> wanted[i]]]
Numberable(f) == single \/ Segments(f) <= Numbered

(* Whenever the reader comes, beside a decoder that works, was killed or has  *)
(* ended: the list it returns is, of the samples of the signals asked for,   *)
(* in order, exactly those before some row the decoder has passed.  Nothing  *)
(* of another signal, nothing unwritten, no gap.                             *)
SamplesAreTheirs ==
  Answered =>
    \E passed \in 0 .. rows[query.family] :
       result = Select(Samples(Wanted(entries, query.family)),
                       [decode : {decodes}, at : 0 .. passed - 1])

(* A decode that was complete when it was asked is read without an exception, *)
(* and every sample is returned, as long as its segments have three-digit     *)
(* numbers.                                                                  *)
WholeWhenComplete ==
  complete /\ ~disturbed =>
    /\ pc # "raised"
    /\ pc = "returned" /\ Numberable(query.family) =>
         Len(result) = Len(Wanted(Matched(query), query.family))

(* The count of decoded rows is one the decoder went through during the       *)
(* refresh, unless files were removed under the reader: whichever segment is  *)
(* begun, filled or finished while they are counted one by one.               *)
CountedAreWritten ==
  pc = "refreshed" /\ ~disturbed /\ Numberable("row_index") =>
    before <= counted /\ counted <= rows["row_index"]

=============================================================================
