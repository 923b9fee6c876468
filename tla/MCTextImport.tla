----------------------------- MODULE MCTextImport -----------------------------
(***************************************************************************)
(* TLC instance of TextImport.                                               *)
(***************************************************************************)
EXTENDS TextImport

Message(time, id, dir, label, code, data) ==
  [time |-> time, channel |-> Digit(1), id |-> id, dir |-> dir, label |-> label,
   code |-> code, data |-> data]

(* Ids: three digits, one of them no decimal; two decimal digits that are a   *)
(* length as well; two that are no number.                                   *)
Long == Digits(No, 426, 3)
Decimal == Digits(12, 18, 2)
Short == Digits(No, 26, 2)

Name == Word("Engine")
ByteName == Digits(No, 172, 2)
Bytes(n) == [i \in 1 .. n |-> Digits(8, 8, 2)]
OtherBytes == <<Digits(No, 171, 2), Digits(12, 18, 2)>>

First == {Message(1, Long, "Rx", Name, 2, OtherBytes),
          Message(1, Decimal, "Tx", ByteName, 1, Bytes(1))}
Second == {Message(2, Long, "Rx", Name, 1, Bytes(1)),
           [Message(2, Long, "Rx", Name, 2, OtherBytes)
              EXCEPT !.channel = Digits(No, 10, 1)],
           Message(2, Short, "Tx", Name, 9, Bytes(12)),
           Message(2, Decimal, "Rx", Word("Tx"), 1, Bytes(1))}

Lines == {<<<<m>>, Noise, <<n>>>> : m \in First, n \in Second}

(* A file to read: the data of an id change, are none, and change back; times *)
(* of 0 among them.                                                          *)
Changes == {<<<<Message(0, Long, "Rx", Name, 1, Bytes(1))>>,
              <<Message(5, Long, "Rx", Name, 0, <<>>)>>,
              <<Message(6, Long, "Rx", Name, 1, Bytes(1))>>>>}

MCFiles == [type : {"txt"}, format : Formats, lines : Lines]
           \cup [type : {"asc"}, format : {"canoe"}, lines : Lines \cup Changes]
           \cup [type : {"blf", "excel", "unknown"}, format : {"canoe"}, lines : Changes]

(* A log that begins at 0, one that comes back to it, and one without times;  *)
(* channels 0, 1 and 2; parts that fill up, and a line that fills one alone.  *)
OnChannel(channel, time, id, n) ==
  [Message(time, id, "Rx", Name, n, Bytes(n)) EXCEPT !.channel = Digit(channel)]

MCLogs == {<<OnChannel(0, 0, Long, 2), OnChannel(1, 2, Short, 1), OnChannel(2, 3, Long, 1)>>,
           <<OnChannel(1, 1, Short, 0), OnChannel(0, 2, Long, 2), OnChannel(0, 0, Long, 1)>>,
           <<OnChannel(2, 0, Long, 4), OnChannel(0, 0, Short, 3)>>}

(* None, and one that knows one of the ids. *)
MCDatabases == {<<>>, <<[id \in {Long.hex} |-> Word("Gear")]>>}

=============================================================================
