# A verification model of file_service

`file_service` records CAN traffic from a shared-memory ring, parses log files, loads
DBC databases and decodes logs, for an application that watches it through events.
This directory holds TLA+ models of its parts, the TLC configurations that check them,
and TLAPS proofs about nine of them: the recorder, recordings in the service, database
loads and decodes, the decode scheduler, parse jobs, the segmented parser, its index
files, the reader of decodes, and the line parsers, log loader and converter.

Paths below are relative to `src/src/file_service/`. The repository has no tests; its
documentation is docstrings and comments.

## Inventory

| part | state it keeps | operations | hard part | correct when |
|---|---|---|---|---|
| **CAN log ring** `repository/file_handler/ring_handler.py` | header `write_idx`, slots | `write`: pack entry, bump slot, publish header; `read_by_index` | no lock between processes; slots are reused | a published index names an entry that was packed |
| **Recorder** `recorder/*` | read index, batch, segment writer, state file, status | attach, poll loop, drain after stop, batch write, state file, close | lapped by the producer; stop at any statement; kill; failing write | recording is the consecutive frames since the attach; STOPPED means nothing promised is missing |
| **Decode scheduler** `decode/decoder_manager.py` | queue, active batch, known signals, worker | submit, set, discard, start, stop, removal of decodes | worker and removals outside the lock; flag checked outside the lock | one decode at a time, none twice; observers have the signals of what is told complete |
| **Parse jobs** `file_service.py`, `event_dispatcher.py` | process pool, futures, posted events | `parse_log_file`, done callback, dispatch | caller, worker, manager thread and dispatcher interleave; a dying worker breaks the pool | the end of every job is told once, truthfully |
| **Recording in the service** `file_service.py:256-318, 446-468` | stop event, process handle, active log | start, stop, status callback | stop event shared by successive recorders; status late or never | one recorder at a time; stop reaches the one that runs |
| **Segmented parser** `converter/can_parser copy.cpp` | chunk ranges, per-chunk entries, segments, indexes | split, parallel parse, merge, index builders | chunk boundaries; per-chunk format and timestamps | the result is that of a sequential parse |
| **DBC loading** `decode/dbc_manager.py`, `file_service.py:206-231` | pickles, converted temp file, pool of one thread | `parse_dbc_file`, `parse_database`, `_on_done` | one temp file for all loads; a failed load's event names no load | a pickle holds the database it is named for; an event comes after its pickle, in the order of the calls |
| **Decode worker** `decode/decode_process.py`, `decode_source.py`, `file_service.py:236-264, 474-479` | status channel | `decode`, run, report, `on_decode_callback` | wakeup before status; a detach that names no channel; many decodes on one channel | at most one status per decode; DONE only if one ended well on its database |
| **Decode reader** `repository/file_handler/decode_mmap_handler.py` | segments held during a read, verified count | lists of values, raw values, changes; refresh | segments are created, grow, finish and disappear under the reader; positions run over segments | the samples of the signal asked for, nothing unwritten, no gap |
| **BLF converter** `converter/blf_converter.py` | time base, part files | convert | sizes, several parts, times from a base, failure halfway | the parts together are the log |
| **Line parsers and loaders** `parser/python/line_parsers.py`, `parser/file_loaders.py` | last data and time by id, entries, counts | parse a line, load a file by its type | eight formats whose fields are found by their looks; a reader that fails halfway; state kept from file to file | the field values of the line; changes are changes |
| **others** | none | identifiers, exporter, notes, older loaders, stub of the native module | | |

How they interact: the service owns the recorder process through a stop event, a
process handle and a status channel; producer and recorder share only the ring;
recorder and readers share only segment files. The decode scheduler owns one worker
process through a runtime object, and reads its output from disk. Parse jobs go to a
pool of one process; their end comes back on the pool's manager thread, which posts
events that the main dispatcher delivers. Databases are loaded on a thread of the
service, and decodes run each in a process of its own that reads the pickle a load has
written. Recorders and decodes report through one status channel for each kind, to a
dispatcher whose `detach` names no channel.

The hazards of this code, at their lines, with the properties that cover them, are in
`PROJECT.json`.

### What the repository does not hold

`lw` (observers, status channel, dispatcher, base service), `can_sdk`, `canapp` (data
objects), the native module behind `module/fs_core.pyi`, `_DecodeWorkerRuntime` and
the repositories of logs and decodes. Where a model needs one, it is modelled from how
the code calls it and marked external in the map.

The commit is work in progress: some names are used and not defined. The models
describe the code with them resolved in the evident way: `application_events.py:67`
puts a field without default after one with a default; `file_service.py:74-75` builds
`CANDBManager` without its storage and subscribes to an event that does not exist;
`_worker_alive`, `_recorder_state`, `_decoder_state` and `_qt_dispatcher`
(`file_service.py:61-64, 78`) are commented out and used later; `rcd_process.py:7`
imports a module that is not there; `dbc_manager.py:240` passes a field `CANDBInfo`
does not have; `decode_source.py:138` calls a method by another name.

## Modules

| module | what it is |
|---|---|
| `CanLogRing` | the ring and its producer, one action per step of `write` |
| `Recorder` | extends the ring with the recorder process, statement by statement (`pc`), the service's stop and a kill; its properties |
| `RecorderPhases` | the phases of a recorder and the moves between them, shared by `Recording` and `RecordingService` |
| `Recording` | abstract specification: frames arrive, a recording holds a growing piece of them, goes through the phases and tells its statuses, the last when it is complete |
| `RecorderInvariant` | the inductive invariant of `Recorder` |
| `RecorderProofs` | proofs about `Recorder`, with the refinement of `Recording` |
| `Selections` | the loops that build a list from a list or add one up, as folds and a recursive function |
| `DecodeScheduler` | `MessageDecoder` with its worker process |
| `DecodeQueue` | abstract specification of it: jobs wait once and in order; a command is one step, and is served before the next |
| `ParseJobs` | `parse_log_file`, the pool, its manager thread, the dispatcher |
| `StatusChannels` | status cell, wakeup, attach and detach, as the service uses them (external) |
| `RecordingService` | extends it: start and stop, `start_recording`, `stop_recording`, `on_recorder_callback`, recorders as phases |
| `DbcLoading` | database loads on the pool's thread, their temporary file, pickles and events |
| `FileServiceWorkers` | extends both and adds decodes: the service over all its workers |
| `DecodeReader` | lists of samples and refresh over the files of a decode, step by step |
| `LineParsers` | pure: the lines of the eight formats, and the parsers that read them |
| `LogLoader` | extends it with `load_log_file` and what is kept from line to line |
| `BlfConverter` | extends `LineParsers` with `convert_blf_file` |
| `TextImport` | the two together: files loaded one after the other, a log converted |
| `LogChunks` | pure: how a log file is cut into ranges and each is parsed; the sequential reference |
| `SegmentedParser` | extends `LogChunks` with the merge into segment files and row lists |
| `ParsedIndexes` | the row lists written into index files, by id, channel and direction |
| `Induction` | lemmas: induction over natural numbers said about sets, what folds, `Select`, `AddNew`, `FlattenSeq` and `SumOf` return |
| `DecodeProofs` | proofs about `DecodeScheduler` and `DecodeReader` |
| `ParseJobsProofs`, `FileServiceProofs` | proofs, the last about `FileServiceWorkers` |
| `TextImportProofs` | proofs about `LineParsers`, `LogLoader`, `BlfConverter` and the two together |
| `SegmentedParserProofs`, `ParsedIndexesProofs` | proofs about the parser: its ranges, segments and lists (`LogChunks` and `SegmentedParser`), its index files |
| `MC*` | TLC instances |

### Recorder and CanLogRing

Frames are numbers in the order the producer published them, so a slot, a batch and
the log hold frame numbers, and `NoFrame` is an empty slot. `producer` walks through
`write`: slot packed, header published. `pc` names the statement the recorder is at:
`attach` (ring reader constructed, read index set to the header), `open` (writer),
`loop` (stop event), `poll` (available), `take`/`read` (batch copied slot by slot, so
the producer may replace any of them in between), `write`, `save` (state file),
`drain`, `report`, `announce` (STOPPED), `close`. A slot being replaced while it is
copied gives the old frame, the new one or `NoFrame` (the outcomes of an unlocked
copy). A failing open or write goes to `close` with no status; `Kill` stops the
process at any statement. `first`, `due` and `overrun` are history: the frame the
recorder attached at, what had been published when the stop was requested, and whether
the producer has lapped the recorder. Byte counters, wording of statuses and the
segment layout are left out.

### DecodeScheduler

A job is a pair of paths; `output` is what is on disk for it. A command checks
`_started`, then takes `_lock`. Under the lock it replaces the queue (`Enqueue`) and, if
no worker runs, goes through it in steps of its own: `LookUp` one job, `TellSignals` and
`NotifyComplete` if it is decoded, `SpawnDecode` behind the loop. `step`, `left`,
`runnable` and `found` say where it is. No other command comes between, since the lock is
held, but `RemoveDecodes` does, since removals take none; nothing keeps them from what a
worker is writing, which is then `"torn"`. `TellSignals` may return at once, as
`_ensure_decoded_store` may give no store (204-206). `stop` is two steps, its body and
the reset of `_started` outside the lock. `running` is the set of worker processes, each
with what is left of its batch; the worker works between any two steps and may die.
`undone` is history: whether the store was missing, or the decode at hand was removed
since it was looked up; then the observers may have another list when it is told complete.
`CountsAsDecoded` says which outputs `decode_mmaps_exist` accepts, which the
repository does not tell; in the runs a partial or torn output counts as well, as a test
for the existence of files would have it. `emit_decode_progress` is left out: it returns
at its first test, since no code sets `_decoding_file`.

### ParseJobs

`at` is where the application thread is in `parse_log_file`: before, after submit,
after `add_done_callback`. The manager thread receives a result, completes the future,
and runs its callbacks in a step of its own; on a future that is done already,
`add_done_callback` calls back on the caller's thread. When the worker dies, the
manager breaks the pool once it has received what was sent, and fails the futures
left, oldest first. One application thread calls `parse_log_file`.

### LogChunks, SegmentedParser, ParsedIndexes

`converter/can_parser copy.cpp`, function `can_parser_run_worker_segmented`, in its
three parts. A file is a sequence of bytes; what a line says is told by its first
byte, a record of the formats whose parsers accept it and the id, data, channel and
direction they read; its timestamp is its place in the file. The eight token parsers
are thus a set of accepting formats per line, tried in one order by `Detect`.

The counting and parsing threads write disjoint buffers and are joined, so the parse
is one step of `SegmentedParser`. The merge is not: an entry is written, then listed
and counted in the header, since other processes map segments while they grow; opening
a segment may fail and the worker may be killed. `OnDisk` is what such a process can
count. `ParsedIndexes` takes any merged log (`EveryRowListed` is what the merge
promises of the lists) and writes one table entry per step. The three loops of the
code are one action system over three families that differ in their keys, their order
and their limit.

The native module's own source is not in the repository; this copy is read as what its
`run_worker_segmented` does.

The reference of `LogChunks` (`ReferenceEntries`) says without ranges what
`can_parser_parse_file` does: the format of the first line that any parser accepts,
and every line that format accepts, numbered from the top.

Left out: carriage returns, the 16384-byte line buffer of the single-file entry
points, `get_status`, memory exhaustion, the pool of timestamps (filled like the pool
of rows).

### StatusChannels, RecordingService, DbcLoading, FileServiceWorkers

A channel is a cell and a wakeup: a status that is sent replaces the one before it,
the callback is given what the cell holds when it runs, and `detach` takes every
callback off the dispatcher (`file_service.py:316, 467, 479` pass it nothing). A
wakeup may or may not outlive the detach. `main` is what the thread of the service is
in: its event loop, the join of `stop_recording` (which returns when the process has
ended or the second is over), or `parse_dbc_file` between submit and
`add_done_callback`.

A recorder is a phase here (`starting` to `exited`) and a process in `Recorder`. The
moves from phase to phase are those of `RecorderPhases`; `Recording` makes the same
ones, with the statuses told at each, and `Recorder` implements it. One stop event
serves all recorders. `asked`, `said`, `forgotten` and `restarted` are history:
which recorders were alive at a stop, which said STOPPED, which the service let go of
while they worked, and whether the service was started with one alive.

A load goes through the states of `parse_database`: the conversion empties
`db_temp.dbc` and fills it, cantools reads it, the pickle is written in two steps, and
anything may raise. Loads and pickles are numbered by their call, so "the database of
source n" is the number n. The pool's thread runs the callback of a load before it
takes the next one.

A decode is given the id of any database `parse_dbc_file` has returned, loaded or not.
Its process reads the pickle, decodes, wakes the channel (the `finally` clause of
`decode_process`) and then sends the status that its caller makes of the return code.
It may die at any of these. `statuses` are the ones the service dispatched.

### DecodeReader

The files of a decode are families of arrays, in one file or in numbered segments, and
a directory that says which rows belong to which signal. `GetList` matches the
directory, `FindSegments` lists names, `OpenSegment` opens one segment, `ReadSamples`
maps every position wanted to a segment and reads it; `Refresh`, `CountSegment`,
`Refreshed` are the verified count. Between any two of them the decoder, which is
outside the repository, does its next step, or stops; or files are removed.

Of the decoder it is assumed that it makes its files as the repository's own writer of
segments does (`can_parser copy.cpp:1080-1099`): a segment appears for a row that has no
place, blank at first; then it has a header; then rows, each in it once its write count
says so; when it is full, or holds the last row, its status is set and only then the next
is begun. The directory is made likewise. Nothing is assumed of the order in which the
families and the directory are written. `OpenSegment` and `GetList` raise where the code
does: on a file that is gone, that mmap refuses because it is empty, or whose header
cannot be unpacked (`decode_mmap_handler.py:319-322`). `CountSegment` takes those for 0
rows (342-350).

A sample is told by its decode and its place, so one that belongs to another signal,
decode or place differs. `disturbed` says that files were removed since the call: then
the samples are not promised anything. A file is there or gone: families are removed one
after the other, each in one step, and only when no decoder works.

### LineParsers, LogLoader, BlfConverter, TextImport

A line is a sequence of tokens, and a token is what the parsers ask of it: the number
it is in base 10 and 16, its width, its time. The `*Line` operators say what the
patterns of `define.py` say a line of a format is; the `parse_*` operators are the
parsers, among them `_find_dlc_with_hex_payload`, which takes the first one- or
two-digit number before a byte for the length.

**Who calls them.** Nobody in the repository. `_parse_from_csv`, `_parse_from_excel` and
`_parse_from_file` are decorated with `@DeprecationWarning` (`file_loaders.py:39, 58,
135`), which makes each of them an instance of that exception: calling one raises
TypeError. So `load_log_file` raises for text, CSV and Excel files, and so does the
fallback of an ASC or BLF reader that fails (line 127). `LogLoader` models that: its
`LoadLogFile` goes on only for ASC and BLF files, and `ReaderFails` ends in `"raised"`.
The note at `file_loaders.py:14` says that parsing in Python is deprecated, so this is
taken as the state of the code and not as a finding. The line parsers are modelled as the
pure functions they are, and `FieldsAreTheLines` is about what they return for the lines
of a file, whoever calls them.

In `LogLoader` one message of a reader is one step; `_create_log_entry` is `Entry` and
`Keep`, and the two dictionaries of the parser object are functions that grow (`Get`,
`Put`). The entries are counted and dropped by the code; the history `created` keeps them,
with the number of the load that made each. `Unambiguous` lists what a line must not look
like for its parser to tell its fields apart: an id of two digits behind a single digit, a
channel that is no decimal number in the full format (`line_parsers.py:178`), a name that
is a number, a byte behind an id or the word `Tx`, the DLC code 9 (`"9".isdigit()`, so it
is taken for a length of 9 and not looked up as 12), and in a line with the code and no
length, a code above 8. Those lines come out with other fields or none (see Findings).

`BlfConverter` writes one message per step into parts: its time from the base, a channel
that is 1 for channel 0 and 2 for every other (`blf_converter.py:24`), and the name of the
database, `UNKNOW` without one and `NOT_FOUND` if it has none for the id (27-34). It may
raise before the first part is open, and at any message. Left out are a message that
`format_log_entry` cannot format, a line written in part, and a next part that cannot be
opened. The size of a line is 1 and its bytes of data: the property needs only that lines
have sizes. Converter and loader share nothing; `TextImport` runs them in one thread.
Which parser a line goes to is decided outside the repository; here a line goes to the
parser of its own format.

## Runs

| run | bounds | shows |
|---|---|---|
| `recorder` | ring of 2, 4 frames | all properties of `Recorder`, its inductive invariant (with the type invariant `TypeOK`), refinement of `Recording`, liveness |
| `decode_scheduler` | 3 jobs, requests of 2, 5 commands | at most one decode, nothing queued twice, nothing decoded again, signals before completion beside removals and a missing store, refinement of `DecodeQueue` |
| `decode_orphaned_partial` | 2 jobs, 3 commands | violated: discard leaves partial output |
| `decode_queue_served` | same | violated: queued jobs wait for another command |
| `decode_when_stopped` | same | violated: a command admitted before `stop` spawns a worker after it |
| `parse_jobs` | 3 calls | one truthful end per job, in order, always told |
| `parse_error_code` | 2 calls | violated: an error code is told as DONE |
| `segmented_parser` | texts of up to 6 bytes over 4 kinds of line, 3 ranges, segments of 2 | no line is cut; a file of one format gives the entries of a sequential parse; on disk is always the first part of the log, with rightly merged timestamps and changes; lists name every row |
| `parsed_indexes` | logs of up to 4 rows, pools of 3, tables of 2 and 1 | every row is found by id, channel and direction, once and in order; entries never overlap |
| `service_workers` | 3 recordings, 4 calls, 2 loads, 2 decodes | one recorder works at a time, unless one was forgotten through an earlier STOPPED; STOPPED is noticed; a stop ends every recording it was asked for; pickles, load events and decode statuses are truthful and in order |
| `decode_reader` | 2 decodes of up to 3 signals and 5 rows in 3 families, segments of 2 rows, 2 numbered names | lists are the samples asked for up to a row the decoder passed; whole, and without an exception, if the decode was complete; counts are counts the decoder went through |
| `text_import` | files of 2 messages in each of 8 formats and of 5 types, logs of up to 3 on 3 channels, with a database and without, 2 loads, parts of size 4 | every line comes out of its parser with its fields, if they can be told apart; changes are changes; the parts are the log |

Bounds. A ring of two slots with four frames is replaced twice, so there are laps by
one and by two, and batches of one and two with replacement during the copy. Three
decode jobs give one running, one behind it in its batch and one queued; five commands
are enough to submit, queue, discard or stop, and submit again. Three parse jobs are
one with the worker, one waiting and one submitted around its death.

Six bytes in three ranges give a nominal range of two bytes: lines longer than a
range, empty ranges, boundaries on, before and behind a newline, files shorter than
the number of threads; five entries make three segments. In the index files, lists are
cut by a full pool and by a full table.

Three recordings let an earlier recorder say STOPPED late, over a second one that is
held, and a third be started beside the one that was let go of; four calls are three
starts and the stop among them. Two loads are enough for both to use the temporary
file, and two decodes for one to find the status of the other. In `decode_reader`
rows are in one file, fill a segment, or need three segments of which two can be numbered;
signal 1 is in two messages, in one layout with a signal without samples between them; it
is asked for in one message and, for its changes, in all. In `text_import` ids of three
and of two digits, decimal and not, a channel that is no decimal number, a name that looks
like a byte or is the word Tx, data of one, two, twelve and no bytes and a first time of 0
are the cases the parsers, the loader and the converter tell apart; two loads keep one
file's state for the next; a log's times may begin with 0, come back to it or be 0
throughout.

Deadlock is not checked in the recorder's runs (the recorder exits, the producer
reaches its bound), the scheduler's (commands are bounded), the parser's (the worker
ends), `service_workers` (calls, loads and decodes are bounded), `decode_reader` and
`text_import` (decodes and loads are bounded) and the ones stating a single violated
property.

Fairness. `Recorder`: weak fairness of the recorder's own statements only; the
producer need not produce, and `StopEndsRecorder` excuses a kill. `ParseJobs`: weak
fairness of a call that has begun, the worker, the pool's manager thread and the
dispatcher; no call need be made, and the worker may die instead of ending a job.
`DecodeScheduler`, only for `QueueIsServed`: a worker that never dies works on, and an
admitted command gets the lock and goes through the queue; further commands are not owed. `FileServiceWorkers`:
weak fairness of the end of a join, which its timeout bounds, of the event loop's
answers, and of each recorder that is not killed; the pool's thread, the decode
processes and `add_done_callback` go on as well, and nobody need call anything.
`StopEndsRecordings` is not owed to a recorder that the service was started over.

## Findings

- The decode in flight is never recorded (`decoder_manager.py:108, 241, 287`), so
  discarding it leaves its partial output behind, against invariant 3 of the class.
- Jobs queued behind a running worker are started by nothing but another command.
- A command from another thread can spawn a decode after `stop`.
- `_on_parse_completed` drops the parser's return code: a failed parse is DONE.

Not stated as findings, since no text of the repository promises otherwise, but seen
while modelling; the models behave so:

- `rcd_process.py:57` writes its batches without `_write_batch`, so WRITE_BATCH
  ("Write state", `status.py:6`) is only ever reported by the drain, and the branch at
  lines 49-51 is dead.
- `cmd_set_decode_jobs` with no valid job kills the worker and keeps the old queue
  (`decoder_manager.py:294`).
- A job of the last batch that is submitted again is dropped, even if its worker died or
  its decode was removed since (`decoder_manager.py:300-306`); `cmd_set_decode_jobs`
  takes it.
- DONE or FAILED can be delivered before STARTED, which is posted after
  `add_done_callback` (`file_service.py:146-154`).
- `_do_start` clears the stop event over a recorder that outlived the join
  (`file_service.py:89`): it records on.
- `detach` names no channel: the end of a decode takes the recorder's callback off the
  dispatcher (`file_service.py:479`). A recorder's STOPPED can be missed that way, and
  a recorder's late STOPPED makes the service forget the one it has started since
  (465).
- `decode_source.py:139` wakes the channel before the status is in it: the callback
  may be given the status of an earlier decode, and its detach loses the one that
  follows.
- A line whose id is two hexadecimal digits, after a one-digit channel, loses its
  length: the channel is taken for it (`line_parsers.py:22`). DLC code 9 is read as 9
  bytes by `_parse_cancommander_type2` (288), while `CANFD_DLC_MAP` (`define.py:140`)
  says 12.
- `load_log_file` can read only ASC and BLF files: the decorator `@DeprecationWarning`
  makes the other loaders uncallable (`file_loaders.py:39, 58, 135`), and the fallback of
  a reader that failed (127) raises TypeError out of `load_log_file`.
- An ASC or BLF file that can be read keeps no entries, only their number.
- A full-format line whose channel is no decimal number is dropped
  (`line_parsers.py:178`).
- A first message at 0.0 gives no time base, and the next one does
  (`blf_converter.py:59`); every channel but 0 is written as 2 (24); only the path of the
  last part is returned.
- A decode that is removed between its look-up and its completion is still told complete
  (`decoder_manager.py:274-278`), and one without a store is told complete with no signals
  told (204-206).
- A list of samples asked for while the decoder has just created a segment or the
  directory raises (`decode_mmap_handler.py:320, 322`); the count of rows does not.

## Proofs

**Recorder.** For every `Capacity >= 1` and `MaxFrames` (the assumptions of
`CanLogRing`):

- `TypeCorrect`, `StoppedComplete`, `StateFileSafe`;
- `NeverStaleCorrect`, `FramesInOrderCorrect`, `RecorderInvCorrect`;
- `RefinesRecording`: `Recorder` implements `Recording`.

None of the stated invariants is inductive. That STOPPED comes last needs what the
drain has promised at each statement (`DrainInv`): the frames due are within the batch
that is being taken, then behind the read index. That the read index says what is in
the file needs the account of frames that left the ring and are not written yet
(`AccountInv`), whose batch must never reach past the header (`IndexInv`). Order of
frames rests on two facts about the ring: it holds the last `Capacity` frames, except
the one under the producer's hand (`RingInv`), and the reader's cursor is among these
until `overrun` (`OrderInv`). Freshness after a lap is a separate argument
(`FreshInv`): whatever is found in the slot of frame i is i or a later frame of the
same slot. The module proves these parts one after the other, each using those before
it as facts about reachable states; `RecorderInvCorrect` puts them together. The
refinement maps the process to its phase (`Phase`) and shows that each statement is one
abstract step or none: a tape that only grows, and only while polling or draining; a
drain that ends with every frame due on the tape; WAIT_RING, perhaps WRITE_BATCH and
STOPPED told at the moves that `RecordingService` tells them at. That the poll tells
WAIT_RING only once, although the code tests whether it has to, needs `StatusInv`:
nothing changes the status before the drain.

The other proofs hold for any number of jobs, calls, recordings, loads and decodes,
any text, number of threads, layout of a decode and capacity, under the assumptions the
modules name (`SchedulerAssumption`, `JobsAssumption`, `RecordingAssumption`,
`LoadsAssumption`, `DecodesAssumption`, `ChunksAssumption`, `SegmentsAssumption`,
`IndexAssumption`, `ReaderAssumption`), and without fairness.

**Induction.** The induction theorems of the library take an operator as a parameter,
which no prover here can be given. `Induction` says them about sets: a set that holds 0
and with n also n + 1 holds every number (`SetInduction`, from a least element that
well-foundedness gives). From it come the existence of functions defined by recursion,
what `FoldLeft` iterates, and with that what the loops of the models return: `Select` keeps
order and what is in the set and distributes over concatenation, `AddNew` repeats nothing,
`FlattenSeq` grows by its last part, `SumOf` is what any running total ends at. For this the models write their loops as folds
(`Selections`) and not with `SelectSeq`, whose test is an operator, so that no lemma could be stated about it.

**Decode scheduler.** `OneDecodeAtATime`: `running` never holds two batches. There is a
lemma for each operation: a spawn happens only where nothing runs, a discard leaves none,
work replaces a worker's batch by its rest. `JobsQueuedOnce` needs that neither queue nor
batch repeats a job and that what a worker has left is part of the batch and not queued
(`Queued`, in `SchedulerInv`): a queue takes only what is not in flight, although `active`
outlives its worker. `NeverDecodedAgain` and `SignalsToldFirst` are action properties over
several steps, so the invariant carries what was found out in the earlier ones
(`ScanInv`, `ToldInv`): while a command goes through the queue no worker runs, so what it
found not to be on disk still is not when the batch is spawned; `known` equals what the
observers have been shown, and between the telling and the completion of a job the list
shown is the one on disk, unless `undone`.

`RefinesQueue` shows that seen from outside the scheduler is `DecodeQueue`: the check
before the lock, the telling of signals and the reset after the lock are no steps, the
body of a command is one, each look-up of a decoded job and the spawn is one, and until
the spawn no other command comes. What the abstract queue says of a command is free of the
loops of the code: the jobs that wait afterwards are exactly those that waited and those
asked for that were not in the last batch, each once, the ones that waited before in their
order; what waits is told complete if it is on disk, or is given to one worker (from
`AddNewKeeps`, `LookedOver` and `WhatWaits`).

**Parse jobs.** `OneOutcome`, `DoneParsed`, `RefusedStays`, `EndsInOrder`. The first
three rest on `FlowInv`: until the pool is broken a job is in one place (queue, worker
or results) and its future is pending there; and on `EventInv`: an end is told only of
a future that is done, by a callback that is gone (`Settled`), over the events
delivered and posted together, so that a dispatch changes nothing. `EndsInOrder` needs
more, because DONE of a job says nothing of the jobs before it: `InLine` orders all
jobs over results, worker and queue, `EarlierEnded` says that a job which returned has
none pending before it and none returned behind it while its callbacks run, and
`EndsAreTold` that the end of each job was told or somebody is about to tell it.

**Recordings.** `OneRecorderWorks`, `ForgottenOnlyByEarlierStop`, `StoppedIsAnswered`
from `RecordingInv`. `OneRecorder` alone is not inductive: a new recorder needs that
every working one is the one held or a forgotten one (`WorkingIsHeld`), and a join
that times out keeps its handle for that reason. That only an earlier STOPPED makes
the service forget needs that the handle is that of the last recorder (`LastIsHeld`)
and that whoever said STOPPED no longer works (`SaidIsOver`).

**Loads and decodes.** `PickleIsAsked`, `ToldWhole`, `ToldAsCalled` from `DbcInv`,
`StatusesEarned` from `DbcInv` and `DecodeInv`. That the file is the thread's own
(`FileIsTheThreads`) rests on the pool taking a load only when it is not busy; that
the i-th event is about the i-th load on the order in which loads are taken, each when
all before it are told (`TakenInOrder`), through the case that a load ended before its
callback was added. In `DecodeInv` a callback that is attached is good for one more
status, whatever wakes it (`OneStatusEach`), since every answer detaches it and only
`decode` attaches it; and DONE, in the cell or told, comes from a decode that found
its pickle whole.

**Ranges and parse.** `NoLineIsCut` rests on `RangesAreWhole`: by induction over the
threads, each end is a line end or the end of the text and not before the end of the
previous range, since the nominal end is cut behind the next newline (`NextNewline`).
`ParallelParseIsSequential` has two halves. A thread that starts at the beginning of a
line, with the number of newlines before it, holds after each byte the reference entries
of the lines it has passed (`ThreadParses`, by induction over the bytes of its range);
what it detects can only be the format of the file, if there is one (`KnowsFormat`). The
ranges, in order, then add up to the reference entries of the whole text
(`RangesTogether`, by induction over the threads). Without `OneFormat` only the first half
holds, and the ranges may disagree.

**Segment files.** `SegmentsFilled` from `SegmentsInv`, which adds that the last
segment is full when the next is to be opened, and that its count is its length
between two entries. `DiskIsTheLog` needs in addition that the tables of last times and
data know of each id the latest of the entries merged so far, one more while an entry is
written and not yet counted (`TablesInv`): an entry that is merged rightly compares with
that one. `DiskInv` says that what is counted is as long as the merge has come, each entry
right, and that an entry not yet counted is right as well. `AllRowsListed`: the lists of an
id and of a direction are the rows on disk of that key (`IdListsInv`), which a listed row
extends at the end as its number is the greatest; for channels the same holds of the table
place (`ChannelsInv`), under the bound of 256 that the property states, with the two
directions of the numbering separately: a number leads to its channel, and a channel in the
table to its place.

**Index files.** `WrittenAsFarAs` proves `IndexInv`, from which `ReadersFindAPrefix`,
`AllRowsIndexed` and `EntriesNeverOverlap` follow. Its parts: what all files of a family
hold of a key is as much of its list as the worker has come to (`WrittenInv`, with `Due`);
what they hold of the changed rows is the changed ones among those (`ChangesInv`); an entry
begins where those before it end, in both pools, and none is longer than what is left of
them (`FilesFit`); only the last file of the family being written may be open (`Closing`),
which makes what a reader finds a prefix. That the changed pool has room for what is put
into it follows from there being at most as many changed rows as rows taken.

**Decode reader.** `ReaderInvariant`, from which `CountsAreWritten` follows at once, and
`SamplesRight` and `WholeLists` with one more argument. Of the decoder it says
(`WrittenAs`) that it is within one segment: those before are finished and full, the one
after them is missing, blank or has a header, and only with a header it has rows. To a
reader the decoder only goes on (`Onward`): rows, finished segments and the count of
segments grow, another decode begins only where nothing is left, a complete one is not
touched. So the entries are still those of the directory (`EntriesInv`), the segments
found are still there (`PathsInv`), and of the segments held only the last may count for
nothing (`HeldInv`), because a decoder that has begun the next one finished it. That is
what keeps the arithmetic of positions right: `capacities` has no hole, so the loop that
takes capacities off finds a position in the segment it is in (`ReadInside`) or nowhere
(`ReadBeyond`), and the row up to which everything was read is the end of the full
segments, at most what is written. Positions wanted lie below the total
(`DirectoryFits`, from sums of the layout). An answer stays right because a list from a
directory that is finished pins the decode; a read of a complete decode does not raise
because every segment of it has its header. `CountInv` says between which two numbers the
count over the first k segments is: what they held when the refresh began and what they
hold now. Removal of files under the reader is excluded, as in the properties.

**Text import.** Assumed of the constants: files have one of the types and formats and
lines of at most one message; a message is a time, a direction, a DLC code, data of
exactly the length of the code, in bytes of two hexadecimal digits, an id and a channel
that are hexadecimal numbers, and any token as its name (`Messages`, `LogFiles`). One
lemma per format (`FilterRead` to `Type3Read`) shows that its parser returns the fields
of the message its line tells, or nothing where there are no data: for the parsers that
look for the length everywhere, that the length stands before a byte and nothing before
it looks like one (`FoundByDlc`), for the others that the payload is whole. `LinesRead`
puts them together; `FieldsRight` needs of the loader only that the file is one of the
constants. `ChangesMarked` needs that the two dictionaries hold of each id what its last
entry has: the time over all loads, the data of this load (`TablesInv`, with
`TimeBefore` and `DataBefore`); `OneMore` says how these change when an entry is made, and
a new load has no data because its number is new.
`PartsHoldTheLog` rests on `ConverterInv`: the time base is the first time that is not 0 (`BaseInv`), so that a base found late changes no line already written
(`TimesKept`); the size kept is that of the open part, and the parts before it were left
with the line that filled them (`SizesInv`, `LeftFull`); the parts joined grow by the line
written, whether or not a new part is opened behind it (`FlattenWritten`).

Model-checked only: liveness (`StopEndsRecorder`, `EveryFrameIsRecorded`,
`EveryJobEnds`, `StopEndsRecordings`), which is out of the prover's reach. Every
invariant of a passing run is also a theorem.

## Not modelled

- Formatting, logging, identifiers, the exporter, and the notes in `task_manager.py`:
  no state that a property is about. The older parser process has no caller left.
- The native module is a binary. Its parser is modelled from the copy in the
  repository, its decoder only by its return codes and the order of its writes.
- `format_detector.py` holds only comments.
- `_load_or_build_candb` has no caller; `_build_decoder_defs` (`decode_source.py`)
  turns a database into native structures, without state.
- `emit_decode_progress` of the scheduler returns at its first test (see
  `NothingIsRecorded` in `DecodeProofs`).
- Formatting a ring again under a recorder (`ring_handler.py:87`): its producer is
  outside the repository.
- Observers that call the scheduler from their callback, with its lock held
  (`decoder_manager.py:278`): they are outside the repository.
- Names of messages in the line parsers' results, the factor of times in milliseconds, and
  the regular expressions that detect a line: the line parsers' input here is a line of the
  format.
- The bodies of the three loaders that cannot be called (`file_loaders.py:40-75, 136-155`).
- Removal of decode files under a decoder that works, or of some files of a family, and
  what a decoder makes of a decode that was removed in part.

## Plan

Done: every part of the inventory but those above, with the proofs listed. What is
left:

- Successive recorders on one ring, which their producer may format again, as
  `RecordingService` runs them; the moves of each are those of `Recorder` already.
