------------------------------ MODULE LogChunks ------------------------------
(***************************************************************************)
(* The first half of can_parser_run_worker_segmented (converter/can_parser  *)
(* copy.cpp): a log file is cut into one byte range per thread, each range  *)
(* is parsed on its own, and the ranges are taken in order.                 *)
(*                                                                         *)
(* A text is a sequence of bytes; byte p of the file is text[p + 1].  A     *)
(* line is told by its first byte: it is Newline, or a kind that says which *)
(* formats' parsers accept the line and with what entry.                    *)
(***************************************************************************)
EXTENDS Integers, FiniteSets, SequencesExt, Selections

CONSTANTS NumThreads,  \* kNumThreads
          Newline,     \* the byte '\n'
          Kinds        \* of lines: formats, id, data, channel, direction

ASSUME ChunksAssumption ==
  /\ NumThreads \in Nat \ {0}
  /\ Newline \notin Kinds
  /\ \A kind \in Kinds : kind.formats \subseteq Nat \ {0}

Unknown == 0   \* FMT_UNKNOWN

ByteAt(text, p) == text[p + 1]

(* memchr(from, '\n', limit - from), one past the newline, or limit. *)
PastNewline(text, from, limit) ==
  LET newlines == {p \in from .. limit - 1 : ByteAt(text, p) = Newline}
  IN  IF newlines = {} THEN limit
                       ELSE CHOOSE p \in 1 .. limit :
                              /\ p - 1 \in newlines
                              /\ \A q \in newlines : p - 1 <= q

-----------------------------------------------------------------------------
(* Seeded faults: each replaces the definition of the model it is named     *)
(* after in one mutant run.                                                 *)

(* A range ends at its nominal end, wherever in a line that is. *)
CutThere(text, from) == from

(* The lines of the file are counted from the start of each range. *)
LinesFromRange(text, t) == 0

-----------------------------------------------------------------------------
(* The end of the range that would nominally end before byte from. *)
CutAfter(text, from) == PastNewline(text, from, Len(text))

(* ranges[t].end, with RangeEnd[0] the beginning of ranges[1]. *)
Nominal(text, t) ==
  LET end == t * (Len(text) \div NumThreads)
  IN  IF end >= Len(text) THEN Len(text) - 1 ELSE end

RangeEnd(text) ==
  LET size == Len(text)
      end[t \in 0 .. NumThreads] ==
        IF t = 0 THEN 0
        ELSE IF t = NumThreads \/ end[t - 1] >= size THEN size
        ELSE CutAfter(text, Nominal(text, t))
  IN  end

Begin(text, t) == RangeEnd(text)[t - 1]
End(text, t) == RangeEnd(text)[t]

(* chunk_start_line: the newlines of the ranges before. *)
StartLine(text, t) ==
  Cardinality({p \in 0 .. Begin(text, t) - 1 : ByteAt(text, p) = Newline})

(* Where the lines of a range start. *)
LineStarts(text, begin, end) ==
  {p \in begin .. end - 1 : p = begin \/ ByteAt(text, p - 1) = Newline}

Accepts(byte, fmt) == byte \in Kinds /\ fmt \in byte.formats

(* detect_and_parse: the parsers are tried in one order. *)
Detect(byte) ==
  IF byte \notin Kinds \/ byte.formats = {} THEN Unknown
  ELSE CHOOSE fmt \in byte.formats : \A other \in byte.formats : fmt <= other

(* The entry of the line that starts at p; p stands for its timestamp. *)
Entry(text, p, line) == [line |-> line, timestamp |-> p, kind |-> ByteAt(text, p)]

(* What the line at p does to a thread: the format is detected once, on the *)
(* first line some parser accepts, unless the caller gave it.               *)
ParseLine(text, p, acc) ==
  LET byte == ByteAt(text, p)
      as == IF acc.fmt = Unknown THEN Detect(byte) ELSE acc.fmt
      parsed == as # Unknown /\ Accepts(byte, as)
  IN  [fmt |-> IF parsed THEN as ELSE acc.fmt,
       line |-> acc.line + 1,
       entries |-> IF parsed THEN Append(acc.entries, Entry(text, p, acc.line + 1))
                             ELSE acc.entries]

(* The body of a thread: at[p] is what it holds when it has come to byte p. *)
ParseRange(text, t, fmt) ==
  LET begin == Begin(text, t)
      end == End(text, t)
      starts == LineStarts(text, begin, end)
      at[p \in begin .. end] ==
        IF p = begin THEN [fmt |-> fmt, line |-> StartLine(text, t), entries |-> <<>>]
        ELSE IF p - 1 \in starts THEN ParseLine(text, p - 1, at[p - 1])
        ELSE at[p - 1]
  IN  at[end].entries

ParseRanges(text, fmt) ==
  FlattenSeq([t \in 1 .. NumThreads |-> ParseRange(text, t, fmt)])

-----------------------------------------------------------------------------
(* Reference: what a parse of the whole file from its first line yields,    *)
(* said without ranges.                                                     *)
AllStarts(text) == LineStarts(text, 0, Len(text))

Detected(text) == {Detect(ByteAt(text, p)) : p \in AllStarts(text)} \ {Unknown}

(* The file has one format: the caller gave it, or no two lines disagree. *)
OneFormat(text, fmt) == fmt # Unknown \/ \A f, g \in Detected(text) : f = g

FileFormat(text, fmt) ==
  IF fmt # Unknown \/ Detected(text) = {} THEN fmt ELSE CHOOSE f \in Detected(text) : TRUE

(* The first bytes of the lines that are entries, in their order. *)
ReferenceStarts(text, fmt) ==
  Select([n \in DOMAIN text |-> n - 1],
         {p \in AllStarts(text) : Accepts(ByteAt(text, p), FileFormat(text, fmt))})

LineOf(text, p) == 1 + Cardinality({q \in 0 .. p - 1 : ByteAt(text, q) = Newline})

ReferenceEntries(text, fmt) ==
  LET starts == ReferenceStarts(text, fmt)
  IN  [n \in DOMAIN starts |-> Entry(text, starts[n], LineOf(text, starts[n]))]

=============================================================================
