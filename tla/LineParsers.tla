----------------------------- MODULE LineParsers -----------------------------
(***************************************************************************)
(* The lines of the log formats (parser/define.py) and the parsers that read *)
(* them (parser/python/line_parsers.py).                                     *)
(*                                                                         *)
(* A line is a sequence of tokens.  What the parsers ask of a token is kept: *)
(* the number it is if all its characters are digits, the number it is if    *)
(* all are hexadecimal, how many there are, and the time it is as a float.   *)
(* Message names and the factor of times in milliseconds are left out.       *)
(***************************************************************************)
EXTENDS Integers, SequencesExt, FiniteSetsExt

No == -1

(* A word: no number. *)
Word(w) == [text |-> w, dec |-> No, hex |-> No, width |-> No, time |-> No]
(* A number, as its digits read in base 10 (or No) and in base 16.            *)
Digits(dec, hex, width) ==
  [text |-> "digits", dec |-> dec, hex |-> hex, width |-> width, time |-> No]
(* One digit. *)
Digit(n) == Digits(n, n, 1)
(* digits "." digits *)
Float(t) == [text |-> "float", dec |-> No, hex |-> No, width |-> No, time |-> t]
(* Milliseconds: five digits. *)
Millis(t) == [text |-> "digits", dec |-> t, hex |-> t, width |-> 5, time |-> t]

Formats == {"filter", "canoe", "compact", "full", "cansuke", "cancommander",
            "type2", "type3"}

-----------------------------------------------------------------------------
(* What a line of each format is, for a message with at least one data byte. *)
(* A message has a time, a channel, an id, a direction, a label, a DLC code  *)
(* and its data, whose length is the one the code stands for.                *)

(* CANFD_DLC_MAP: the length a DLC code stands for. *)
DlcLength == <<0, 1, 2, 3, 4, 5, 6, 7, 8, 12, 16, 20, 24, 32, 48, 64>>
CANFD_DLC_MAP == [code \in 0 .. 15 |-> DlcLength[code + 1]]
Code(n) == Digits(IF n < 10 THEN n ELSE No, n, 1)
Length(n) == Digits(n, (n \div 10) * 16 + (n % 10), IF n < 10 THEN 1 ELSE 2)

LengthOf(m) == Length(Len(m.data))

(* What the fields are: the id and the bytes are hexadecimal numbers, two     *)
(* digits for a byte, and the label is any token.                            *)
Tokens == [text : STRING, dec : Int, hex : Int, width : Int, time : Int]
Numbers == [text : {"digits"}, dec : Int, hex : Nat, width : Int, time : {No}]
ByteNumbers == [text : {"digits"}, dec : Int, hex : Nat, width : {2}, time : {No}]

Messages ==
  {m \in [time : Int, channel : Numbers, id : Numbers, dir : {"Tx", "Rx"},
          label : Tokens, code : 0 .. 15, data : Seq(ByteNumbers)] :
     Len(m.data) = CANFD_DLC_MAP[m.code]}

(* PATTERN_FILTER; PATTERN_BLF is the same fields. *)
FilterLine(m) ==
  <<Float(m.time), Word("CAN"), m.channel, Word(m.dir), m.id, m.label, LengthOf(m)>> \o m.data

(* PATTERN_CANOE: the label, single characters, the length. *)
CanoeLine(m) ==
  <<Float(m.time), Word("CANFD"), m.channel, Word(m.dir), m.id, m.label,
    Digit(1), Digit(0), Code(m.code), LengthOf(m)>> \o m.data

(* PATTERN_CANOE_COMPACT *)
CompactLine(m) ==
  <<Float(m.time), m.channel, m.id, Word(m.dir), Word("d"), LengthOf(m)>> \o m.data

(* PATTERN_CANOE_SYMBOLIC *)
FullLine(m) ==
  <<Word("date"), Word("clock"), Float(m.time), Digit(1), Word("CANFD"), m.channel,
    m.id, Word(m.dir), m.label, LengthOf(m)>> \o m.data

(* PATTERN_CANSK *)
CansukeLine(m) ==
  <<Float(m.time), m.channel, m.id, Word(m.dir), m.label, LengthOf(m)>> \o m.data

(* PATTERN_CANCMD *)
CancommanderLine(m) ==
  <<Word("date"), Word("clock"), Float(m.time), Digit(1), Word("CANFD"), m.channel,
    m.id, Word(m.dir), m.label, Word("-"), LengthOf(m)>> \o m.data

(* PATTERN_CANCMD_TYPE2, whose fields are columns; the data is one of them. *)
Type2Line(m) ==
  <<Millis(m.time), m.channel, m.id, m.label, Code(m.code), m.data, Word(m.dir),
    Word("CANFD"), Digit(1)>>

(* PATTERN_CANCMD_TYPE3 *)
Type3Line(m) ==
  <<Millis(m.time), m.channel, m.id, Code(m.code)>> \o m.data
    \o <<Word(m.dir), Word("CANFD"), Digit(1)>>

Line(format, m) ==
  CASE format = "filter" -> FilterLine(m)    [] format = "canoe" -> CanoeLine(m)
    [] format = "compact" -> CompactLine(m)  [] format = "full" -> FullLine(m)
    [] format = "cansuke" -> CansukeLine(m)  [] format = "type2" -> Type2Line(m)
    [] format = "cancommander" -> CancommanderLine(m)
    [] format = "type3" -> Type3Line(m)

-----------------------------------------------------------------------------
(* Seeded faults: each replaces the definition of the model it is named      *)
(* after in one mutant run.                                                  *)

(* The payload ends one token early. *)
PayloadButOne(tokens, i, n) == SubSeq(tokens, i + 1, Min({i + n - 1, Len(tokens)}))

-----------------------------------------------------------------------------
(* The parsers.  A result is a sequence: nothing for None, or the fields.    *)

VALID_DLC == {0, 1, 2, 3, 4, 5, 6, 7, 8, 12, 16, 20, 24, 32, 48, 64}
IsByte(token) == token.width = 2 /\ token.hex # No

(* _find_dlc_with_hex_payload: the places of a length that a byte follows.   *)
DlcPlaces(tokens) ==
  {i \in 1 .. Len(tokens) - 1 :
     /\ tokens[i].width \in {1, 2} /\ tokens[i].dec \in VALID_DLC
     /\ IsByte(tokens[i + 1])}

(* The tokens behind place i, as many as there are of n.                     *)
Payload(tokens, i, n) == SubSeq(tokens, i + 1, Min({i + n, Len(tokens)}))

(* None if the id is no hexadecimal number. *)
Fields(time, id, dir, len, data) ==
  IF id.hex = No THEN <<>>
  ELSE <<[time |-> time, id |-> id.hex, dir |-> dir, len |-> len, data |-> data]>>

(* The first such place is the length, whatever the field it is in. *)
FieldsByDlc(tokens, time, id, dir) ==
  IF DlcPlaces(tokens) = {} THEN <<>>
  ELSE LET i == Min(DlcPlaces(tokens))
       IN Fields(time, id, dir, tokens[i].dec, Payload(tokens, i, tokens[i].dec))

(* Only if all of the payload is there. *)
FieldsIfWhole(time, id, dir, len, data) ==
  IF Len(data) = len THEN Fields(time, id, dir, len, data) ELSE <<>>

PlaceOf(tokens, word) == SelectInSeq(tokens, LAMBDA token : token.text = word)
Direction(tokens) == IF PlaceOf(tokens, "Tx") # 0 THEN "Tx" ELSE "Rx"
DirectionPlace(tokens) == PlaceOf(tokens, Direction(tokens))

parse_filter_log(tokens) ==
  FieldsByDlc(tokens, tokens[1].time, tokens[DirectionPlace(tokens) + 1], Direction(tokens))

parse_canoe(tokens) ==
  IF Len(tokens) < 6 THEN <<>>
  ELSE FieldsByDlc(SubSeq(tokens, 6, Len(tokens)), tokens[1].time, tokens[5], tokens[4].text)

parse_canoe_compact(tokens) ==
  FieldsIfWhole(tokens[1].time, tokens[3], tokens[4].text, tokens[6].dec,
                Payload(tokens, 6, tokens[6].dec))

(* The channel has to be a decimal number. *)
parse_canoe_full(tokens) ==
  IF tokens[6].dec = No THEN <<>>
  ELSE FieldsByDlc(tokens, tokens[3].time, tokens[DirectionPlace(tokens) - 1],
                   Direction(tokens))

(* The length is the first decimal number behind the direction. *)
parse_cansuke(tokens) ==
  LET numbers == {i \in DirectionPlace(tokens) + 1 .. Len(tokens) : tokens[i].dec # No}
      i == Min(numbers)
  IN IF numbers = {} THEN <<>>
     ELSE FieldsIfWhole(tokens[1].time, tokens[DirectionPlace(tokens) - 1], Direction(tokens),
                        tokens[i].dec, Payload(tokens, i, tokens[i].dec))

parse_cancommander(tokens) ==
  FieldsByDlc(tokens, tokens[3].time, tokens[DirectionPlace(tokens) - 1], Direction(tokens))

(* A code that is a decimal digit is taken for the length itself. *)
LengthOfCode(code) == IF code.dec # No THEN code.dec ELSE CANFD_DLC_MAP[code.hex]

parse_cancommander_type2(cols) ==
  LET len == LengthOfCode(cols[5])
  IN Fields(cols[1].time, cols[3], cols[7].text, len, Payload(cols[6], 0, len))

parse_cancommander_type3(tokens) ==
  FieldsByDlc(tokens, tokens[1].time, tokens[3], Direction(tokens))

Parse(format, tokens) ==
  CASE format = "filter" -> parse_filter_log(tokens)
    [] format = "canoe" -> parse_canoe(tokens)
    [] format = "compact" -> parse_canoe_compact(tokens)
    [] format = "full" -> parse_canoe_full(tokens)
    [] format = "cansuke" -> parse_cansuke(tokens)
    [] format = "cancommander" -> parse_cancommander(tokens)
    [] format = "type2" -> parse_cancommander_type2(tokens)
    [] format = "type3" -> parse_cancommander_type3(tokens)

=============================================================================
