--------------------------- MODULE TextImportProofs ---------------------------
(***************************************************************************)
(* Theorems about TextImport, for any logs and any files: what the parsers   *)
(* find in the lines of each format, which changes a loader marks, and what  *)
(* the parts of a converted log hold together.                               *)
(***************************************************************************)
EXTENDS TextImport, Induction

-----------------------------------------------------------------------------
(* Lists of tokens. *)

(* The least number of a set is the one no other is less than. *)
LEMMA MinIs ==
  ASSUME NEW T \in SUBSET Nat, NEW n \in T, \A i \in T : n <= i
  PROVE  T # {} /\ Min(T) = n
<1>1. n \in T /\ \A i \in T : n <= i
  OBVIOUS
<1>2. Min(T) \in T /\ \A i \in T : Min(T) <= i
  BY <1>1 DEF Min
<1>3. PICK k \in Nat : k = Min(T)
  BY <1>2
<1>4. n <= k /\ k <= n /\ n \in Nat
  BY <1>1, <1>2, <1>3
<1>5. n = k
  BY <1>4
<1>6. QED
  BY <1>1, <1>3, <1>5

(* The payload is what stands behind the place, if there is as much. *)
LEMMA PayloadIs ==
  ASSUME NEW X, NEW tokens \in Seq(X), NEW data \in Seq(X), NEW p \in Nat,
         p + Len(data) <= Len(tokens),
         \A i \in 1 .. Len(data) : tokens[p + i] = data[i]
  PROVE  Payload(tokens, p, Len(data)) = data
<1> DEFINE n == Len(data)
           r == SubSeq(tokens, p + 1, p + n)
<1>1. n \in Nat /\ Len(tokens) \in Nat
  OBVIOUS
<1>2. Min({p + n, Len(tokens)}) = p + n
  <2> DEFINE T == {p + n, Len(tokens)}
  <2>1. T \in SUBSET Nat /\ p + n \in T /\ \A i \in T : p + n <= i
    BY <1>1
  <2> HIDE DEF T
  <2>2. QED
    BY <2>1, MinIs DEF T
<1>3. r \in Seq(X) /\ Len(r) = n /\ \A i \in 1 .. n : r[i] = tokens[p + i]
  BY <1>1, Stretch
<1>4. r = data
  <2> HIDE DEF r
  <2>1. QED
    BY <1>1, <1>3, SeqEqual DEF n
<1>5. QED
  BY <1>2, <1>4 DEF Payload

(* All behind the first a. *)
LEMMA Rest ==
  ASSUME NEW X, NEW s \in Seq(X), NEW a \in Nat, a <= Len(s)
  PROVE  LET r == SubSeq(s, a + 1, Len(s))
         IN  /\ r \in Seq(X) /\ Len(r) = Len(s) - a
             /\ \A i \in 1 .. Len(s) - a : r[i] = s[a + i]
<1>1. PICK c \in Nat : c = Len(s) - a
  OBVIOUS
<1>2. a + c = Len(s)
  BY <1>1
<1>3. /\ SubSeq(s, a + 1, a + c) \in Seq(X) /\ Len(SubSeq(s, a + 1, a + c)) = c
      /\ \A i \in 1 .. c : SubSeq(s, a + 1, a + c)[i] = s[a + i]
  BY <1>2, Stretch
<1>4. QED
  BY <1>1, <1>2, <1>3

(* Whether a length stands at place i. *)
IsPlace(tokens, i) ==
  /\ tokens[i].width \in {1, 2} /\ tokens[i].dec \in VALID_DLC
  /\ IsByte(tokens[i + 1])

(* The length is found at the first place that could be one. *)
LEMMA FirstPlace ==
  ASSUME NEW tokens, NEW p \in 1 .. Len(tokens) - 1, Len(tokens) \in Nat,
         IsPlace(tokens, p), \A i \in 1 .. p - 1 : ~IsPlace(tokens, i)
  PROVE  DlcPlaces(tokens) # {} /\ Min(DlcPlaces(tokens)) = p
<1> DEFINE T == DlcPlaces(tokens)
<1>1. T = {i \in 1 .. Len(tokens) - 1 : IsPlace(tokens, i)}
  BY DEF DlcPlaces, IsPlace
<1>2. T \in SUBSET Nat /\ p \in T /\ \A i \in T : p <= i
  BY <1>1
<1> HIDE DEF T
<1>3. QED
  BY <1>2, MinIs DEF T

LEMMA NoPlace ==
  ASSUME NEW tokens, \A i \in 1 .. Len(tokens) - 1 : ~IsPlace(tokens, i)
  PROVE  DlcPlaces(tokens) = {}
  BY DEF DlcPlaces, IsPlace

(* A word is found at the first place it stands at. *)
LEMMA WordAt ==
  ASSUME NEW tokens, NEW p \in 1 .. Len(tokens), Len(tokens) \in Nat, NEW word,
         tokens[p].text = word, \A i \in 1 .. p - 1 : tokens[i].text # word
  PROVE  PlaceOf(tokens, word) = p
<1> DEFINE T == {i \in 1 .. Len(tokens) : tokens[i].text = word}
<1>1. T \in SUBSET Nat /\ p \in T /\ \A i \in T : p <= i
  OBVIOUS
<1>2. T # {} /\ Min(T) = p
  <2> HIDE DEF T
  <2>1. QED
    BY <1>1, MinIs
<1>3. QED
  BY <1>2 DEF PlaceOf, SelectInSeq

LEMMA WordNowhere ==
  ASSUME NEW tokens, NEW word, \A i \in 1 .. Len(tokens) : tokens[i].text # word
  PROVE  PlaceOf(tokens, word) = 0
<1> DEFINE T == {i \in 1 .. Len(tokens) : tokens[i].text = word}
<1>1. T = {}
  OBVIOUS
<1>2. QED
  BY <1>1 DEF PlaceOf, SelectInSeq

-----------------------------------------------------------------------------
(* Tokens and messages. *)

(* What the parsers ask of each kind of token. *)
IsWord(token, w) == token.text = w /\ token.dec = No /\ token.width = No
IsNumber(token) == token.text = "digits" /\ token.hex \in Nat

LEMMA WordFacts ==
  ASSUME NEW w
  PROVE  IsWord(Word(w), w) /\ Word(w).hex = No
  BY DEF Word, IsWord

LEMMA FloatFacts ==
  ASSUME NEW t \in Int
  PROVE  IsWord(Float(t), "float") /\ Float(t).time = t
  BY DEF Float, IsWord

LEMMA DigitFacts ==
  ASSUME NEW n \in Nat
  PROVE  IsNumber(Digit(n)) /\ Digit(n).dec = n /\ Digit(n).width = 1
  BY DEF Digit, Digits, IsNumber

LEMMA MillisFacts ==
  ASSUME NEW t \in Int
  PROVE  /\ Millis(t).text = "digits" /\ Millis(t).time = t /\ Millis(t).width = 5
  BY DEF Millis

LEMMA NumberFacts ==
  /\ \A n \in Numbers : IsNumber(n)
  /\ \A n \in ByteNumbers : IsNumber(n) /\ IsByte(n)
<1>1. \A n \in Numbers : IsNumber(n)
  BY DEF Numbers, IsNumber
<1>2. \A n \in ByteNumbers : IsNumber(n) /\ IsByte(n)
  BY DEF ByteNumbers, IsNumber, IsByte, No
<1>3. QED
  BY <1>1, <1>2

(* The code of a message, in its line. *)
LEMMA CodeFacts ==
  ASSUME NEW n \in 0 .. 15
  PROVE  /\ IsNumber(Code(n)) /\ Code(n).width = 1 /\ Code(n).hex = n
         /\ Code(n).dec = IF n < 10 THEN n ELSE No
  BY DEF Code, Digits, IsNumber

LEMMA LengthTokenFacts ==
  ASSUME NEW n \in 0 .. 64
  PROVE  /\ IsNumber(Length(n)) /\ Length(n).dec = n /\ Length(n).width \in {1, 2}
         /\ n < 10 => Length(n).width = 1
<1>1. (n \div 10) * 16 + (n % 10) \in Nat
  OBVIOUS
<1>2. PICK h \in Nat : h = (n \div 10) * 16 + (n % 10)
  BY <1>1
<1>3. QED
  BY <1>2 DEF Length, Digits, IsNumber

(* The codes stand for the lengths there are. *)
LEMMA LengthsOfCodes ==
  ASSUME NEW code \in 0 .. 15
  PROVE  /\ CANFD_DLC_MAP[code] \in VALID_DLC /\ CANFD_DLC_MAP[code] \in 0 .. 64
         /\ code <= 8 => CANFD_DLC_MAP[code] = code
         /\ code = 9 => CANFD_DLC_MAP[code] = 12
<1>1. CANFD_DLC_MAP[code] = DlcLength[code + 1]
  BY DEF CANFD_DLC_MAP
<1>2. \/ code = 0 \/ code = 1 \/ code = 2 \/ code = 3 \/ code = 4 \/ code = 5 \/ code = 6
      \/ code = 7 \/ code = 8 \/ code = 9 \/ code = 10 \/ code = 11 \/ code = 12
      \/ code = 13 \/ code = 14 \/ code = 15
  OBVIOUS
<1>3. QED
  BY <1>1, <1>2 DEF DlcLength, VALID_DLC

LEMMA MessageFacts ==
  ASSUME NEW m \in Messages
  PROVE  /\ m.time \in Int /\ m.dir \in {"Tx", "Rx"} /\ m.label \in Tokens
         /\ IsNumber(m.channel) /\ IsNumber(m.id) /\ m.code \in 0 .. 15
         /\ m.data \in Seq(ByteNumbers)
         /\ \A i \in 1 .. Len(m.data) : IsNumber(m.data[i]) /\ IsByte(m.data[i])
         /\ Len(m.data) = CANFD_DLC_MAP[m.code] /\ Len(m.data) \in VALID_DLC
         /\ IsNumber(LengthOf(m)) /\ LengthOf(m).dec = Len(m.data)
         /\ LengthOf(m).width \in {1, 2} /\ (Len(m.data) < 10 => LengthOf(m).width = 1)
<1>1. /\ m.time \in Int /\ m.dir \in {"Tx", "Rx"} /\ m.label \in Tokens
      /\ m.channel \in Numbers /\ m.id \in Numbers /\ m.code \in 0 .. 15
      /\ m.data \in Seq(ByteNumbers) /\ Len(m.data) = CANFD_DLC_MAP[m.code]
  BY DEF Messages
<1>2. IsNumber(m.channel) /\ IsNumber(m.id)
  BY <1>1, NumberFacts
<1>3. \A i \in 1 .. Len(m.data) : m.data[i] \in ByteNumbers
  BY <1>1
<1>4. \A i \in 1 .. Len(m.data) : IsNumber(m.data[i]) /\ IsByte(m.data[i])
  BY <1>3, NumberFacts
<1>6. Len(m.data) \in VALID_DLC /\ Len(m.data) \in 0 .. 64
  BY <1>1, LengthsOfCodes
<1>7. /\ IsNumber(LengthOf(m)) /\ LengthOf(m).dec = Len(m.data)
      /\ LengthOf(m).width \in {1, 2} /\ (Len(m.data) < 10 => LengthOf(m).width = 1)
  BY <1>6, LengthTokenFacts DEF LengthOf
<1>8. QED
  BY <1>1, <1>2, <1>4, <1>6, <1>7

-----------------------------------------------------------------------------
(* Lines: some tokens, the data, and for one format three tokens more.       *)

(* data stands in tokens behind place p. *)
StandsBehind(tokens, p, data) ==
  /\ p + Len(data) <= Len(tokens)
  /\ \A i \in 1 .. Len(data) : tokens[p + i] = data[i]

BeginsWith(tokens, head, data, X) ==
  /\ tokens \in Seq(X) /\ Len(tokens) = Len(head) + Len(data)
  /\ \A i \in 1 .. Len(head) : tokens[i] = head[i]
  /\ StandsBehind(tokens, Len(head), data)

LEMMA Behind ==
  ASSUME NEW X, NEW head \in Seq(X), NEW m \in Messages, ByteNumbers \subseteq X
  PROVE  BeginsWith(head \o m.data, head, m.data, X)
<1> DEFINE data == m.data
<1>1. data \in Seq(X)
  BY MessageFacts
<1> HIDE DEF data
<1>2. /\ head \o data \in Seq(X) /\ Len(head \o data) = Len(head) + Len(data)
      /\ \A i \in 1 .. Len(head) : (head \o data)[i] = head[i]
      /\ \A i \in 1 .. Len(data) : (head \o data)[Len(head) + i] = data[i]
  BY <1>1
<1>3. QED
  BY <1>1, <1>2 DEF data, StandsBehind, BeginsWith

(* Data are numbers, not words. *)
LEMMA DataTexts ==
  ASSUME NEW m \in Messages, NEW tokens, NEW p \in Nat, StandsBehind(tokens, p, m.data),
         NEW i \in p + 1 .. p + Len(m.data)
  PROVE  tokens[i].text = "digits"
<1>1. Len(m.data) \in Nat /\ \A j \in 1 .. Len(m.data) : IsNumber(m.data[j])
  BY MessageFacts
<1>2. PICK j \in 1 .. Len(m.data) : j = i - p
  BY <1>1
<1>3. p + j = i
  BY <1>1, <1>2
<1>4. tokens[i] = m.data[j]
  BY <1>3 DEF StandsBehind
<1>5. QED
  BY <1>1, <1>4 DEF IsNumber

(* What a parser may say of the line of a message: its fields, or nothing if  *)
(* it has no data.                                                           *)
RightFields(result, m) == \/ result = <<Told(m)>>
                          \/ m.data = <<>> /\ result = <<>>

(* The length of m stands at p, no place before it could be one, and without  *)
(* data none behind it.                                                      *)
LengthAt(tokens, p, m) ==
  /\ p \in 1 .. Len(tokens) /\ Len(tokens) \in Nat
  /\ tokens[p].dec = Len(m.data) /\ tokens[p].width \in {1, 2}
  /\ \A i \in 1 .. p - 1 : ~IsPlace(tokens, i)
  /\ m.data = <<>> => \A i \in p .. Len(tokens) - 1 : ~IsPlace(tokens, i)

(* The parsers that look for the length find it there. *)
LEMMA FoundByDlc ==
  ASSUME NEW X, NEW tokens \in Seq(X), NEW p, NEW m \in Messages, ByteNumbers \subseteq X,
         LengthAt(tokens, p, m), StandsBehind(tokens, p, m.data),
         NEW id, id = m.id
  PROVE  RightFields(FieldsByDlc(tokens, m.time, id, m.dir), m)
<1>1. /\ m.data \in Seq(ByteNumbers) /\ Len(m.data) \in VALID_DLC /\ Len(m.data) \in Nat
      /\ \A i \in 1 .. Len(m.data) : IsByte(m.data[i])
      /\ m.id.hex \in Nat
  BY MessageFacts DEF IsNumber
<1>2. p \in 1 .. Len(tokens) /\ Len(tokens) \in Nat /\ p \in Nat
  BY DEF LengthAt
<1>3. CASE m.data = <<>>
  <2>1. \A i \in 1 .. Len(tokens) - 1 : i \in 1 .. p - 1 \/ i \in p .. Len(tokens) - 1
    BY <1>2
  <2>2. \A i \in 1 .. Len(tokens) - 1 : ~IsPlace(tokens, i)
    BY <1>3, <2>1 DEF LengthAt
  <2>3. DlcPlaces(tokens) = {}
    BY <2>2, NoPlace
  <2>4. QED
    BY <1>3, <2>3 DEF FieldsByDlc, RightFields
<1>4. CASE m.data # <<>>
  <2>1. Len(m.data) >= 1
    BY <1>1, <1>4
  <2>2. p + 1 <= Len(tokens) /\ tokens[p + 1] = m.data[1] /\ IsByte(m.data[1])
    BY <1>1, <1>2, <2>1 DEF StandsBehind
  <2>3. IsPlace(tokens, p)
    BY <1>1, <2>2 DEF LengthAt, IsPlace
  <2>4. p \in 1 .. Len(tokens) - 1
    BY <1>2, <2>2
  <2>5. DlcPlaces(tokens) # {} /\ Min(DlcPlaces(tokens)) = p
    BY <1>2, <2>3, <2>4, FirstPlace DEF LengthAt
  <2>6. Payload(tokens, p, Len(m.data)) = m.data
    <3>1. m.data \in Seq(X)
      BY <1>1
    <3>2. QED
      BY <1>2, <3>1, PayloadIs DEF StandsBehind
  <2>7. FieldsByDlc(tokens, m.time, id, m.dir)
          = Fields(m.time, m.id, m.dir, Len(m.data), m.data)
    BY <2>5, <2>6 DEF FieldsByDlc, LengthAt
  <2>8. m.id.hex # No
    BY <1>1 DEF No
  <2>9. QED
    BY <2>7, <2>8 DEF Fields, Told, RightFields
<1>5. QED
  BY <1>3, <1>4

(* The parsers that know where the length is, or take what looks like it, and  *)
(* ask for all of the payload.                                               *)
LEMMA FoundWhole ==
  ASSUME NEW X, NEW tokens \in Seq(X), NEW p \in Nat, NEW m \in Messages,
         ByteNumbers \subseteq X, StandsBehind(tokens, p, m.data), NEW id, id = m.id
  PROVE  RightFields(FieldsIfWhole(m.time, id, m.dir, Len(m.data),
                                   Payload(tokens, p, Len(m.data))), m)
<1>1. m.data \in Seq(X) /\ m.id.hex \in Nat
  BY MessageFacts DEF IsNumber
<1>2. Payload(tokens, p, Len(m.data)) = m.data
  BY <1>1, PayloadIs DEF StandsBehind
<1>3. m.id.hex # No
  BY <1>1 DEF No
<1>4. QED
  BY <1>2, <1>3 DEF FieldsIfWhole, Fields, Told, RightFields

(* The direction is where it should be, if no token before it is one and none *)
(* behind it is "Tx".                                                        *)
LEMMA DirectionAt ==
  ASSUME NEW tokens, Len(tokens) \in Nat, NEW p \in 1 .. Len(tokens), NEW dir \in {"Tx", "Rx"},
         tokens[p].text = dir, \A i \in 1 .. p - 1 : tokens[i].text \notin {"Tx", "Rx"},
         \A i \in p + 1 .. Len(tokens) : tokens[i].text # "Tx"
  PROVE  Direction(tokens) = dir /\ DirectionPlace(tokens) = p
<1>1. PlaceOf(tokens, dir) = p
  BY WordAt
<1>2. CASE dir = "Tx"
  BY <1>1, <1>2 DEF Direction, DirectionPlace
<1>3. CASE dir = "Rx"
  <2>1. \A i \in 1 .. Len(tokens) : i \in 1 .. p - 1 \/ i = p \/ i \in p + 1 .. Len(tokens)
    OBVIOUS
  <2>2. \A i \in 1 .. Len(tokens) : tokens[i].text # "Tx"
    BY <1>3, <2>1
  <2>3. PlaceOf(tokens, "Tx") = 0
    BY <2>2, WordNowhere
  <2>4. QED
    BY <1>1, <1>3, <2>3 DEF Direction, DirectionPlace
<1>4. QED
  BY <1>2, <1>3

-----------------------------------------------------------------------------
(* Each format. *)

LEMMA FilterRead ==
  ASSUME NEW m \in Messages, Unambiguous("filter", m)
  PROVE  RightFields(parse_filter_log(FilterLine(m)), m)
<1> DEFINE head == <<Float(m.time), Word("CAN"), m.channel, Word(m.dir), m.id, m.label,
                     LengthOf(m)>>
           X == ByteNumbers \cup {Float(m.time), Word("CAN"), m.channel, Word(m.dir), m.id,
                                  m.label, LengthOf(m)}
           tokens == FilterLine(m)
           n == Len(m.data)
<1>1. head \in Seq(X) /\ Len(head) = 7 /\ ByteNumbers \subseteq X
  OBVIOUS
<1>2. /\ tokens \in Seq(X) /\ Len(tokens) = 7 + n /\ StandsBehind(tokens, 7, m.data)
      /\ \A i \in 1 .. 7 : tokens[i] = head[i]
  <2> HIDE DEF head, X
  <2>1. tokens = head \o m.data
    BY DEF FilterLine, head
  <2> HIDE DEF tokens
  <2>2. BeginsWith(tokens, head, m.data, X)
    BY <1>1, <2>1, Behind
  <2>3. QED
    BY <1>1, <2>2 DEF BeginsWith
<1>3. /\ tokens[1] = Float(m.time) /\ tokens[2] = Word("CAN") /\ tokens[3] = m.channel
      /\ tokens[4] = Word(m.dir) /\ tokens[5] = m.id /\ tokens[6] = m.label
      /\ tokens[7] = LengthOf(m)
  <2> HIDE DEF tokens
  <2>1. QED
    BY <1>2
<1> HIDE DEF head, X, tokens
<1>4. /\ m.time \in Int /\ m.dir \in {"Tx", "Rx"} /\ IsNumber(m.channel) /\ IsNumber(m.id)
      /\ n \in Nat /\ \A i \in 1 .. n : IsNumber(m.data[i])
      /\ IsNumber(LengthOf(m)) /\ LengthOf(m).dec = n /\ LengthOf(m).width \in {1, 2}
  BY MessageFacts
<1>5. /\ IsWord(tokens[1], "float") /\ tokens[1].time = m.time /\ IsWord(tokens[2], "CAN")
      /\ IsWord(tokens[4], m.dir)
  BY <1>3, <1>4, FloatFacts, WordFacts
<1>6. Direction(tokens) = m.dir /\ DirectionPlace(tokens) = 4
  <2>1. \A i \in 1 .. 4 - 1 : tokens[i].text \notin {"Tx", "Rx"}
    <3>1. tokens[1].text = "float" /\ tokens[2].text = "CAN" /\ tokens[3].text = "digits"
      BY <1>3, <1>4, <1>5 DEF IsWord, IsNumber
    <3>2. QED
      BY <3>1
  <2>2. \A i \in 4 + 1 .. Len(tokens) : tokens[i].text # "Tx"
    <3>1. tokens[5].text = "digits" /\ tokens[6].text # "Tx" /\ tokens[7].text = "digits"
      BY <1>3, <1>4 DEF IsNumber, Unambiguous
    <3>2. \A i \in 7 + 1 .. 7 + n : tokens[i].text = "digits"
      BY <1>2, DataTexts
    <3>3. \A i \in 5 .. 7 + n : i = 5 \/ i = 6 \/ i = 7 \/ i \in 7 + 1 .. 7 + n
      BY <1>4
    <3>4. QED
      BY <1>2, <3>1, <3>2, <3>3
  <2>3. Len(tokens) \in Nat /\ 4 \in 1 .. Len(tokens) /\ tokens[4].text = m.dir
    BY <1>2, <1>4, <1>5 DEF IsWord
  <2>4. QED
    BY <1>4, <2>1, <2>2, <2>3, DirectionAt
<1>7. LengthAt(tokens, 7, m)
  <2>1. ~IsPlace(tokens, 1) /\ ~IsPlace(tokens, 2) /\ ~IsPlace(tokens, 4)
    BY <1>5 DEF IsWord, IsPlace, No
  <2>2. ~IsPlace(tokens, 3)
    BY <1>5 DEF IsWord, IsPlace, IsByte, No
  <2>3. ~IsPlace(tokens, 5)
    BY <1>3 DEF Unambiguous, IsPlace
  <2>4. ~IsPlace(tokens, 6)
    <3>1. m.label.dec = No
      BY DEF Unambiguous
    <3>2. QED
      BY <1>3, <3>1 DEF IsPlace, No, VALID_DLC
  <2>5. \A i \in 1 .. 7 - 1 : i = 1 \/ i = 2 \/ i = 3 \/ i = 4 \/ i = 5 \/ i = 6
    OBVIOUS
  <2>6. \A i \in 1 .. 7 - 1 : ~IsPlace(tokens, i)
    BY <2>1, <2>2, <2>3, <2>4, <2>5
  <2>7. m.data = <<>> => Len(tokens) = 7
    BY <1>2
  <2>8. QED
    BY <1>2, <1>3, <1>4, <2>6, <2>7 DEF LengthAt
<1>8. RightFields(FieldsByDlc(tokens, m.time, m.id, m.dir), m)
  BY <1>1, <1>2, <1>7, FoundByDlc
<1>9. tokens[DirectionPlace(tokens) + 1] = m.id
  BY <1>3, <1>6
<1>10. QED
  BY <1>5, <1>6, <1>8, <1>9 DEF parse_filter_log, tokens

LEMMA CanoeRead ==
  ASSUME NEW m \in Messages
  PROVE  RightFields(parse_canoe(CanoeLine(m)), m)
<1> DEFINE head == <<Float(m.time), Word("CANFD"), m.channel, Word(m.dir), m.id, m.label,
                     Digit(1), Digit(0), Code(m.code), LengthOf(m)>>
           X == ByteNumbers \cup {Float(m.time), Word("CANFD"), m.channel, Word(m.dir), m.id,
                                  m.label, Digit(1), Digit(0), Code(m.code), LengthOf(m)}
           tokens == CanoeLine(m)
           n == Len(m.data)
<1>1. head \in Seq(X) /\ Len(head) = 10 /\ ByteNumbers \subseteq X
  OBVIOUS
<1>2. /\ tokens \in Seq(X) /\ Len(tokens) = 10 + n /\ StandsBehind(tokens, 10, m.data)
      /\ \A i \in 1 .. 10 : tokens[i] = head[i]
  <2> HIDE DEF head, X
  <2>1. tokens = head \o m.data
    BY DEF CanoeLine, head
  <2> HIDE DEF tokens
  <2>2. BeginsWith(tokens, head, m.data, X)
    BY <1>1, <2>1, Behind
  <2>3. QED
    BY <1>1, <2>2 DEF BeginsWith
<1>3. /\ tokens[1] = Float(m.time) /\ tokens[2] = Word("CANFD")
      /\ tokens[3] = m.channel /\ tokens[4] = Word(m.dir) /\ tokens[5] = m.id
      /\ tokens[6] = m.label /\ tokens[7] = Digit(1) /\ tokens[8] = Digit(0)
      /\ tokens[9] = Code(m.code) /\ tokens[10] = LengthOf(m)
  <2> HIDE DEF tokens
  <2>1. QED
    BY <1>2
<1> HIDE DEF head, X, tokens
<1>4. /\ m.time \in Int /\ m.code \in 0 .. 15 /\ n \in Nat /\ n = CANFD_DLC_MAP[m.code]
      /\ LengthOf(m).dec = n /\ LengthOf(m).width \in {1, 2}
      /\ n < 10 => LengthOf(m).width = 1
  BY MessageFacts
<1>5. tokens[1].time = m.time /\ tokens[4].text = m.dir
  BY <1>3, <1>4, FloatFacts, WordFacts DEF IsWord
<1> DEFINE u == SubSeq(tokens, 6, Len(tokens))
<1>6. u \in Seq(X) /\ Len(u) = 5 + n /\ \A i \in 1 .. 5 + n : u[i] = tokens[5 + i]
  <2> DEFINE k == Len(tokens)
  <2>1. k = 10 + n /\ n \in Nat
    BY <1>2, <1>4
  <2> HIDE DEF k, n
  <2>2. 5 \in Nat /\ 5 <= k /\ 5 + 1 = 6 /\ k - 5 = 5 + n
    BY <2>1
  <2>3. /\ SubSeq(tokens, 5 + 1, k) \in Seq(X) /\ Len(SubSeq(tokens, 5 + 1, k)) = k - 5
        /\ \A i \in 1 .. k - 5 : SubSeq(tokens, 5 + 1, k)[i] = tokens[5 + i]
    BY <1>2, <2>2, Rest DEF k
  <2>4. SubSeq(tokens, 5 + 1, k) = u
    BY <2>2 DEF k
  <2> HIDE DEF u
  <2>5. QED
    BY <2>2, <2>3, <2>4
<1> HIDE DEF u
<1>7. /\ u[1] = m.label /\ u[2] = Digit(1) /\ u[3] = Digit(0) /\ u[4] = Code(m.code)
      /\ u[5] = LengthOf(m)
  <2>1. n \in Nat /\ \A i \in 1 .. 5 : i \in 1 .. 5 + n
    BY <1>4
  <2>2. u[1] = tokens[6] /\ u[2] = tokens[7] /\ u[3] = tokens[8] /\ u[4] = tokens[9] /\ u[5] = tokens[10]
    BY <1>6, <2>1
  <2>3. QED
    BY <1>3, <2>2
<1>8. StandsBehind(u, 5, m.data)
  <2>1. ASSUME NEW i \in 1 .. n PROVE u[5 + i] = m.data[i]
    <3>1. PICK j \in 1 .. 5 + n : j = 5 + i
      BY <1>4
    <3>2. PICK k \in 1 .. 10 + n : k = 10 + i
      BY <1>4
    <3>3. 5 + j = k
      BY <1>4, <3>1, <3>2
    <3>4. u[j] = tokens[k]
      BY <1>6, <3>3
    <3>5. tokens[k] = m.data[i]
      BY <1>2, <3>2 DEF StandsBehind
    <3>6. QED
      BY <3>1, <3>4, <3>5
  <2>2. 5 + n <= Len(u)
    BY <1>4, <1>6
  <2>3. QED
    BY <2>1, <2>2 DEF StandsBehind
<1>9. LengthAt(u, 5, m)
  <2>1. ~IsPlace(u, 1) /\ ~IsPlace(u, 2) /\ ~IsPlace(u, 3)
    <3>1. Digit(1).width = 1 /\ Digit(0).width = 1 /\ Code(m.code).width = 1
      BY <1>4, DigitFacts, CodeFacts
    <3>2. QED
      BY <1>7, <3>1 DEF IsPlace, IsByte
  <2>2. ~IsPlace(u, 4)
    <3>1. Code(m.code).dec = IF m.code < 10 THEN m.code ELSE No
      BY <1>4, CodeFacts
    <3>2. CASE m.code <= 8
      <4>1. n = m.code
        BY <1>4, <3>2, LengthsOfCodes
      <4>2. QED
        BY <1>4, <1>7, <3>2, <4>1 DEF IsPlace, IsByte
    <3>3. CASE ~(m.code <= 8)
      <4>1. Code(m.code).dec \notin VALID_DLC
        BY <1>4, <3>1, <3>3 DEF VALID_DLC, No
      <4>2. QED
        BY <1>7, <4>1 DEF IsPlace
    <3>4. QED
      BY <3>2, <3>3
  <2>3. \A i \in 1 .. 5 - 1 : i = 1 \/ i = 2 \/ i = 3 \/ i = 4
    OBVIOUS
  <2>4. \A i \in 1 .. 5 - 1 : ~IsPlace(u, i)
    BY <2>1, <2>2, <2>3
  <2>5. m.data = <<>> => Len(u) = 5
    BY <1>6
  <2>6. QED
    BY <1>4, <1>6, <1>7, <2>4, <2>5 DEF LengthAt
<1>10. RightFields(FieldsByDlc(u, m.time, m.id, m.dir), m)
  BY <1>1, <1>6, <1>8, <1>9, FoundByDlc
<1>11. ~(Len(tokens) < 6)
  BY <1>2, <1>4
<1>12. QED
  BY <1>3, <1>5, <1>10, <1>11 DEF parse_canoe, tokens, u

LEMMA CompactRead ==
  ASSUME NEW m \in Messages
  PROVE  RightFields(parse_canoe_compact(CompactLine(m)), m)
<1> DEFINE head == <<Float(m.time), m.channel, m.id, Word(m.dir), Word("d"), LengthOf(m)>>
           X == ByteNumbers \cup {Float(m.time), m.channel, m.id, Word(m.dir), Word("d"),
                                  LengthOf(m)}
           tokens == CompactLine(m)
           n == Len(m.data)
<1>1. head \in Seq(X) /\ Len(head) = 6 /\ ByteNumbers \subseteq X
  OBVIOUS
<1>2. /\ tokens \in Seq(X) /\ Len(tokens) = 6 + n /\ StandsBehind(tokens, 6, m.data)
      /\ \A i \in 1 .. 6 : tokens[i] = head[i]
  <2> HIDE DEF head, X
  <2>1. tokens = head \o m.data
    BY DEF CompactLine, head
  <2> HIDE DEF tokens
  <2>2. BeginsWith(tokens, head, m.data, X)
    BY <1>1, <2>1, Behind
  <2>3. QED
    BY <1>1, <2>2 DEF BeginsWith
<1>3. /\ tokens[1] = Float(m.time) /\ tokens[2] = m.channel /\ tokens[3] = m.id
      /\ tokens[4] = Word(m.dir) /\ tokens[5] = Word("d") /\ tokens[6] = LengthOf(m)
  <2> HIDE DEF tokens
  <2>1. QED
    BY <1>2
<1> HIDE DEF head, X, tokens
<1>4. m.time \in Int /\ LengthOf(m).dec = n
  BY MessageFacts
<1>5. tokens[1].time = m.time /\ tokens[4].text = m.dir
  BY <1>3, <1>4, FloatFacts, WordFacts DEF IsWord
<1>6. RightFields(FieldsIfWhole(m.time, m.id, m.dir, n, Payload(tokens, 6, n)), m)
  <2>1. 6 \in Nat
    OBVIOUS
  <2>2. QED
    BY <1>1, <1>2, <2>1, FoundWhole
<1>7. QED
  BY <1>3, <1>4, <1>5, <1>6 DEF parse_canoe_compact, tokens

LEMMA FullRead ==
  ASSUME NEW m \in Messages, Unambiguous("full", m)
  PROVE  RightFields(parse_canoe_full(FullLine(m)), m)
<1> DEFINE head == <<Word("date"), Word("clock"), Float(m.time), Digit(1), Word("CANFD"),
                     m.channel, m.id, Word(m.dir), m.label, LengthOf(m)>>
           X == ByteNumbers \cup {Word("date"), Word("clock"), Float(m.time), Digit(1),
                                  Word("CANFD"), m.channel, m.id, Word(m.dir), m.label,
                                  LengthOf(m)}
           tokens == FullLine(m)
           n == Len(m.data)
<1>1. head \in Seq(X) /\ Len(head) = 10 /\ ByteNumbers \subseteq X
  OBVIOUS
<1>2. /\ tokens \in Seq(X) /\ Len(tokens) = 10 + n /\ StandsBehind(tokens, 10, m.data)
      /\ \A i \in 1 .. 10 : tokens[i] = head[i]
  <2> HIDE DEF head, X
  <2>1. tokens = head \o m.data
    BY DEF FullLine, head
  <2> HIDE DEF tokens
  <2>2. BeginsWith(tokens, head, m.data, X)
    BY <1>1, <2>1, Behind
  <2>3. QED
    BY <1>1, <2>2 DEF BeginsWith
<1>3. /\ tokens[1] = Word("date") /\ tokens[2] = Word("clock")
      /\ tokens[3] = Float(m.time) /\ tokens[4] = Digit(1)
      /\ tokens[5] = Word("CANFD") /\ tokens[6] = m.channel /\ tokens[7] = m.id
      /\ tokens[8] = Word(m.dir) /\ tokens[9] = m.label /\ tokens[10] = LengthOf(m)
  <2> HIDE DEF tokens
  <2>1. QED
    BY <1>2
<1> HIDE DEF head, X, tokens
<1>4. /\ m.time \in Int /\ m.dir \in {"Tx", "Rx"} /\ IsNumber(m.channel) /\ IsNumber(m.id)
      /\ n \in Nat /\ IsNumber(LengthOf(m)) /\ LengthOf(m).dec = n
      /\ LengthOf(m).width \in {1, 2}
  BY MessageFacts
<1>5. /\ IsWord(tokens[1], "date") /\ IsWord(tokens[2], "clock") /\ IsWord(tokens[3], "float")
      /\ tokens[3].time = m.time /\ IsNumber(tokens[4]) /\ IsWord(tokens[5], "CANFD")
      /\ IsWord(tokens[8], m.dir)
  BY <1>3, <1>4, FloatFacts, WordFacts, DigitFacts
<1>6. Direction(tokens) = m.dir /\ DirectionPlace(tokens) = 8
  <2>1. \A i \in 1 .. 8 - 1 : tokens[i].text \notin {"Tx", "Rx"}
    <3>1. /\ tokens[1].text = "date" /\ tokens[2].text = "clock" /\ tokens[3].text = "float"
          /\ tokens[4].text = "digits" /\ tokens[5].text = "CANFD" /\ tokens[6].text = "digits"
          /\ tokens[7].text = "digits"
      BY <1>3, <1>4, <1>5, DigitFacts DEF IsWord, IsNumber
    <3>2. \A i \in 1 .. 8 - 1 : i = 1 \/ i = 2 \/ i = 3 \/ i = 4 \/ i = 5 \/ i = 6 \/ i = 7
      OBVIOUS
    <3>3. QED
      BY <3>1, <3>2
  <2>2. \A i \in 8 + 1 .. Len(tokens) : tokens[i].text # "Tx"
    <3>1. tokens[9].text # "Tx" /\ tokens[10].text = "digits"
      BY <1>3, <1>4, <1>5 DEF IsWord, IsNumber, Unambiguous
    <3>2. \A i \in 10 + 1 .. 10 + n : tokens[i].text = "digits"
      BY <1>2, DataTexts
    <3>3. \A i \in 8 + 1 .. 10 + n : i = 9 \/ i = 10 \/ i \in 10 + 1 .. 10 + n
      BY <1>4
    <3>4. QED
      BY <1>2, <3>1, <3>2, <3>3
  <2>3. Len(tokens) \in Nat /\ 8 \in 1 .. Len(tokens) /\ tokens[8].text = m.dir
    BY <1>2, <1>4, <1>5 DEF IsWord
  <2>4. QED
    BY <1>4, <2>1, <2>2, <2>3, DirectionAt
<1>7. LengthAt(tokens, 10, m)
  <2>1. /\ ~IsPlace(tokens, 1) /\ ~IsPlace(tokens, 2) /\ ~IsPlace(tokens, 3)
        /\ ~IsPlace(tokens, 5) /\ ~IsPlace(tokens, 8)
    BY <1>5 DEF IsWord, IsPlace, No
  <2>2. ~IsPlace(tokens, 4) /\ ~IsPlace(tokens, 7)
    BY <1>5 DEF IsWord, IsPlace, IsByte, No
  <2>3. ~IsPlace(tokens, 6)
    <3>1. m.id.width # 2
      BY DEF Unambiguous
    <3>2. QED
      BY <1>3, <3>1 DEF IsPlace, IsByte
  <2>4. ~IsPlace(tokens, 9)
    <3>1. m.label.dec = No
      BY DEF Unambiguous
    <3>2. QED
      BY <1>3, <3>1 DEF IsPlace, No, VALID_DLC
  <2>5. \A i \in 1 .. 10 - 1 : \/ i = 1 \/ i = 2 \/ i = 3 \/ i = 4 \/ i = 5
                               \/ i = 6 \/ i = 7 \/ i = 8 \/ i = 9
    OBVIOUS
  <2>6. \A i \in 1 .. 10 - 1 : ~IsPlace(tokens, i)
    BY <2>1, <2>2, <2>3, <2>4, <2>5
  <2>7. m.data = <<>> => Len(tokens) = 10
    BY <1>2
  <2>8. QED
    BY <1>2, <1>3, <1>4, <2>6, <2>7 DEF LengthAt
<1>8. RightFields(FieldsByDlc(tokens, m.time, m.id, m.dir), m)
  BY <1>1, <1>2, <1>7, FoundByDlc
<1>9. tokens[DirectionPlace(tokens) - 1] = m.id
  BY <1>3, <1>6
<1>10. tokens[6].dec # No
  BY <1>3 DEF Unambiguous
<1>11. QED
  BY <1>5, <1>6, <1>8, <1>9, <1>10 DEF parse_canoe_full, tokens

LEMMA CancommanderRead ==
  ASSUME NEW m \in Messages, Unambiguous("cancommander", m)
  PROVE  RightFields(parse_cancommander(CancommanderLine(m)), m)
<1> DEFINE head == <<Word("date"), Word("clock"), Float(m.time), Digit(1), Word("CANFD"),
                     m.channel, m.id, Word(m.dir), m.label, Word("-"), LengthOf(m)>>
           X == ByteNumbers \cup {Word("date"), Word("clock"), Float(m.time), Digit(1),
                                  Word("CANFD"), m.channel, m.id, Word(m.dir), m.label,
                                  Word("-"), LengthOf(m)}
           tokens == CancommanderLine(m)
           n == Len(m.data)
<1>1. head \in Seq(X) /\ Len(head) = 11 /\ ByteNumbers \subseteq X
  OBVIOUS
<1>2. /\ tokens \in Seq(X) /\ Len(tokens) = 11 + n /\ StandsBehind(tokens, 11, m.data)
      /\ \A i \in 1 .. 11 : tokens[i] = head[i]
  <2> HIDE DEF head, X
  <2>1. tokens = head \o m.data
    BY DEF CancommanderLine, head
  <2> HIDE DEF tokens
  <2>2. BeginsWith(tokens, head, m.data, X)
    BY <1>1, <2>1, Behind
  <2>3. QED
    BY <1>1, <2>2 DEF BeginsWith
<1>3. /\ tokens[1] = Word("date") /\ tokens[2] = Word("clock")
      /\ tokens[3] = Float(m.time) /\ tokens[4] = Digit(1)
      /\ tokens[5] = Word("CANFD") /\ tokens[6] = m.channel /\ tokens[7] = m.id
      /\ tokens[8] = Word(m.dir) /\ tokens[9] = m.label /\ tokens[10] = Word("-")
      /\ tokens[11] = LengthOf(m)
  <2> HIDE DEF tokens
  <2>1. QED
    BY <1>2
<1> HIDE DEF head, X, tokens
<1>4. /\ m.time \in Int /\ m.dir \in {"Tx", "Rx"} /\ IsNumber(m.channel) /\ IsNumber(m.id)
      /\ n \in Nat /\ IsNumber(LengthOf(m)) /\ LengthOf(m).dec = n
      /\ LengthOf(m).width \in {1, 2}
  BY MessageFacts
<1>5. /\ IsWord(tokens[1], "date") /\ IsWord(tokens[2], "clock") /\ IsWord(tokens[3], "float")
      /\ tokens[3].time = m.time /\ IsNumber(tokens[4]) /\ IsWord(tokens[5], "CANFD")
      /\ IsWord(tokens[8], m.dir) /\ IsWord(tokens[10], "-")
  BY <1>3, <1>4, FloatFacts, WordFacts, DigitFacts
<1>6. Direction(tokens) = m.dir /\ DirectionPlace(tokens) = 8
  <2>1. \A i \in 1 .. 8 - 1 : tokens[i].text \notin {"Tx", "Rx"}
    <3>1. /\ tokens[1].text = "date" /\ tokens[2].text = "clock" /\ tokens[3].text = "float"
          /\ tokens[4].text = "digits" /\ tokens[5].text = "CANFD" /\ tokens[6].text = "digits"
          /\ tokens[7].text = "digits"
      BY <1>3, <1>4, <1>5, DigitFacts DEF IsWord, IsNumber
    <3>2. \A i \in 1 .. 8 - 1 : i = 1 \/ i = 2 \/ i = 3 \/ i = 4 \/ i = 5 \/ i = 6 \/ i = 7
      OBVIOUS
    <3>3. QED
      BY <3>1, <3>2
  <2>2. \A i \in 8 + 1 .. Len(tokens) : tokens[i].text # "Tx"
    <3>1. tokens[9].text # "Tx" /\ tokens[10].text = "-" /\ tokens[11].text = "digits"
      BY <1>3, <1>4, <1>5 DEF IsWord, IsNumber, Unambiguous
    <3>2. \A i \in 11 + 1 .. 11 + n : tokens[i].text = "digits"
      BY <1>2, DataTexts
    <3>3. \A i \in 8 + 1 .. 11 + n : i = 9 \/ i = 10 \/ i = 11 \/ i \in 11 + 1 .. 11 + n
      BY <1>4
    <3>4. QED
      BY <1>2, <3>1, <3>2, <3>3
  <2>3. Len(tokens) \in Nat /\ 8 \in 1 .. Len(tokens) /\ tokens[8].text = m.dir
    BY <1>2, <1>4, <1>5 DEF IsWord
  <2>4. QED
    BY <1>4, <2>1, <2>2, <2>3, DirectionAt
<1>7. LengthAt(tokens, 11, m)
  <2>1. /\ ~IsPlace(tokens, 1) /\ ~IsPlace(tokens, 2) /\ ~IsPlace(tokens, 3)
        /\ ~IsPlace(tokens, 5) /\ ~IsPlace(tokens, 8) /\ ~IsPlace(tokens, 10)
    BY <1>5 DEF IsWord, IsPlace, No
  <2>2. ~IsPlace(tokens, 4) /\ ~IsPlace(tokens, 7) /\ ~IsPlace(tokens, 9)
    BY <1>5 DEF IsWord, IsPlace, IsByte, No
  <2>3. ~IsPlace(tokens, 6)
    <3>1. m.id.width # 2
      BY DEF Unambiguous
    <3>2. QED
      BY <1>3, <3>1 DEF IsPlace, IsByte
  <2>4. \A i \in 1 .. 11 - 1 : \/ i = 1 \/ i = 2 \/ i = 3 \/ i = 4 \/ i = 5
                               \/ i = 6 \/ i = 7 \/ i = 8 \/ i = 9 \/ i = 10
    OBVIOUS
  <2>5. \A i \in 1 .. 11 - 1 : ~IsPlace(tokens, i)
    BY <2>1, <2>2, <2>3, <2>4
  <2>6. m.data = <<>> => Len(tokens) = 11
    BY <1>2
  <2>7. QED
    BY <1>2, <1>3, <1>4, <2>5, <2>6 DEF LengthAt
<1>8. RightFields(FieldsByDlc(tokens, m.time, m.id, m.dir), m)
  BY <1>1, <1>2, <1>7, FoundByDlc
<1>9. tokens[DirectionPlace(tokens) - 1] = m.id
  BY <1>3, <1>6
<1>10. QED
  BY <1>5, <1>6, <1>8, <1>9 DEF parse_cancommander, tokens

LEMMA CansukeRead ==
  ASSUME NEW m \in Messages, Unambiguous("cansuke", m)
  PROVE  RightFields(parse_cansuke(CansukeLine(m)), m)
<1> DEFINE head == <<Float(m.time), m.channel, m.id, Word(m.dir), m.label, LengthOf(m)>>
           X == ByteNumbers \cup {Float(m.time), m.channel, m.id, Word(m.dir), m.label,
                                  LengthOf(m)}
           tokens == CansukeLine(m)
           n == Len(m.data)
<1>1. head \in Seq(X) /\ Len(head) = 6 /\ ByteNumbers \subseteq X
  OBVIOUS
<1>2. /\ tokens \in Seq(X) /\ Len(tokens) = 6 + n /\ StandsBehind(tokens, 6, m.data)
      /\ \A i \in 1 .. 6 : tokens[i] = head[i]
  <2> HIDE DEF head, X
  <2>1. tokens = head \o m.data
    BY DEF CansukeLine, head
  <2> HIDE DEF tokens
  <2>2. BeginsWith(tokens, head, m.data, X)
    BY <1>1, <2>1, Behind
  <2>3. QED
    BY <1>1, <2>2 DEF BeginsWith
<1>3. /\ tokens[1] = Float(m.time) /\ tokens[2] = m.channel /\ tokens[3] = m.id
      /\ tokens[4] = Word(m.dir) /\ tokens[5] = m.label /\ tokens[6] = LengthOf(m)
  <2> HIDE DEF tokens
  <2>1. QED
    BY <1>2
<1> HIDE DEF head, X, tokens
<1>4. /\ m.time \in Int /\ m.dir \in {"Tx", "Rx"} /\ IsNumber(m.channel) /\ IsNumber(m.id)
      /\ n \in Nat /\ IsNumber(LengthOf(m)) /\ LengthOf(m).dec = n
      /\ LengthOf(m).width \in {1, 2}
  BY MessageFacts
<1>5. IsWord(tokens[1], "float") /\ tokens[1].time = m.time /\ IsWord(tokens[4], m.dir)
  BY <1>3, <1>4, FloatFacts, WordFacts
<1>6. Direction(tokens) = m.dir /\ DirectionPlace(tokens) = 4
  <2>1. \A i \in 1 .. 4 - 1 : tokens[i].text \notin {"Tx", "Rx"}
    <3>1. /\ tokens[1].text = "float" /\ tokens[2].text = "digits" /\ tokens[3].text = "digits"
      BY <1>3, <1>4, <1>5, DigitFacts DEF IsWord, IsNumber
    <3>2. \A i \in 1 .. 4 - 1 : i = 1 \/ i = 2 \/ i = 3
      OBVIOUS
    <3>3. QED
      BY <3>1, <3>2
  <2>2. \A i \in 4 + 1 .. Len(tokens) : tokens[i].text # "Tx"
    <3>1. tokens[5].text # "Tx" /\ tokens[6].text = "digits"
      BY <1>3, <1>4, <1>5 DEF IsWord, IsNumber, Unambiguous
    <3>2. \A i \in 6 + 1 .. 6 + n : tokens[i].text = "digits"
      BY <1>2, DataTexts
    <3>3. \A i \in 4 + 1 .. 6 + n : i = 5 \/ i = 6 \/ i \in 6 + 1 .. 6 + n
      BY <1>4
    <3>4. QED
      BY <1>2, <3>1, <3>2, <3>3
  <2>3. Len(tokens) \in Nat /\ 4 \in 1 .. Len(tokens) /\ tokens[4].text = m.dir
    BY <1>2, <1>4, <1>5 DEF IsWord
  <2>4. QED
    BY <1>4, <2>1, <2>2, <2>3, DirectionAt
<1> DEFINE T == {i \in DirectionPlace(tokens) + 1 .. Len(tokens) : tokens[i].dec # No}
<1>7. T # {} /\ Min(T) = 6
  <2>1. T = {i \in 5 .. 6 + n : tokens[i].dec # No}
    BY <1>2, <1>6
  <2>2. tokens[5].dec = No
    BY <1>3 DEF Unambiguous
  <2>3. tokens[6].dec # No
    BY <1>3, <1>4 DEF No
  <2>4. T \in SUBSET Nat /\ 6 \in T /\ \A i \in T : 6 <= i
    BY <1>4, <2>1, <2>2, <2>3
  <2> HIDE DEF T
  <2>5. QED
    BY <2>4, MinIs
<1>8. RightFields(FieldsIfWhole(m.time, m.id, m.dir, n, Payload(tokens, 6, n)), m)
  <2>1. 6 \in Nat
    OBVIOUS
  <2>2. QED
    BY <1>1, <1>2, <2>1, FoundWhole
<1>9. tokens[DirectionPlace(tokens) - 1] = m.id /\ tokens[6].dec = n
  BY <1>3, <1>4, <1>6
<1>10. QED
  BY <1>5, <1>6, <1>7, <1>8, <1>9 DEF parse_cansuke, tokens

LEMMA Type2Read ==
  ASSUME NEW m \in Messages, Unambiguous("type2", m)
  PROVE  RightFields(parse_cancommander_type2(Type2Line(m)), m)
<1> DEFINE cols == Type2Line(m)
           n == Len(m.data)
<1>1. /\ cols[1] = Millis(m.time) /\ cols[3] = m.id /\ cols[5] = Code(m.code)
      /\ cols[6] = m.data /\ cols[7] = Word(m.dir)
  BY DEF Type2Line
<1> HIDE DEF cols
<1>2. /\ m.time \in Int /\ m.code \in 0 .. 15 /\ n = CANFD_DLC_MAP[m.code] /\ n \in Nat
      /\ m.data \in Seq(ByteNumbers) /\ m.id.hex \in Nat
  BY MessageFacts DEF IsNumber
<1>3. cols[1].time = m.time /\ cols[7].text = m.dir
  BY <1>1, <1>2, MillisFacts, WordFacts DEF IsWord
<1>4. LengthOfCode(cols[5]) = n
  <2>1. Code(m.code).hex = m.code /\ Code(m.code).dec = IF m.code < 10 THEN m.code ELSE No
    BY <1>2, CodeFacts
  <2>2. CASE m.code <= 8
    <3>1. n = m.code
      BY <1>2, <2>2, LengthsOfCodes
    <3>2. PICK c \in 0 .. 8 : c = m.code
      BY <1>2, <2>2
    <3>3. c < 10 /\ c # No
      BY DEF No
    <3>4. Code(m.code).dec = m.code /\ m.code # No
      BY <2>1, <3>2, <3>3
    <3>5. QED
      BY <1>1, <3>1, <3>4 DEF LengthOfCode
  <2>3. CASE ~(m.code <= 8)
    <3>1. m.code # 9
      BY DEF Unambiguous
    <3>2. Code(m.code).dec = No
      BY <1>2, <2>1, <2>3, <3>1
    <3>3. QED
      BY <1>1, <1>2, <2>1, <3>2 DEF LengthOfCode
  <2>4. QED
    BY <2>2, <2>3
<1>5. Payload(cols[6], 0, n) = m.data
  <2>1. 0 + n <= n /\ \A i \in 1 .. n : m.data[0 + i] = m.data[i]
    BY <1>2
  <2>2. Payload(m.data, 0, n) = m.data
    BY <1>2, <2>1, PayloadIs
  <2>3. QED
    BY <1>1, <2>2
<1>6. m.id.hex # No
  BY <1>2 DEF No
<1>7. QED
  BY <1>1, <1>3, <1>4, <1>5, <1>6
     DEF parse_cancommander_type2, Fields, Told, RightFields, cols

LEMMA Type3Read ==
  ASSUME NEW m \in Messages, Unambiguous("type3", m)
  PROVE  RightFields(parse_cancommander_type3(Type3Line(m)), m)
<1> DEFINE head == <<Millis(m.time), m.channel, m.id, Code(m.code)>>
           tail == <<Word(m.dir), Word("CANFD"), Digit(1)>>
           X == ByteNumbers \cup {Millis(m.time), m.channel, m.id, Code(m.code),
                                  Word(m.dir), Word("CANFD"), Digit(1)}
           front == head \o m.data
           tokens == Type3Line(m)
           n == Len(m.data)
<1>1. /\ head \in Seq(X) /\ Len(head) = 4 /\ ByteNumbers \subseteq X
      /\ tail \in Seq(X) /\ Len(tail) = 3
  OBVIOUS
<1>2. /\ front \in Seq(X) /\ Len(front) = 4 + n /\ StandsBehind(front, 4, m.data)
      /\ \A i \in 1 .. 4 : front[i] = head[i]
  <2> HIDE DEF head, X
  <2>1. BeginsWith(front, head, m.data, X)
    BY <1>1, Behind
  <2> HIDE DEF front
  <2>2. QED
    BY <1>1, <2>1 DEF BeginsWith
<1>3. /\ m.time \in Int /\ m.dir \in {"Tx", "Rx"} /\ IsNumber(m.channel) /\ IsNumber(m.id)
      /\ m.code \in 0 .. 15 /\ n \in Nat /\ n = CANFD_DLC_MAP[m.code]
  BY MessageFacts
<1>4. /\ tokens \in Seq(X) /\ Len(tokens) = 4 + n + 3
      /\ \A i \in 1 .. 4 + n : tokens[i] = front[i]
      /\ \A i \in 1 .. 3 : tokens[4 + n + i] = tail[i]
  <2>1. tokens = front \o tail
    BY DEF Type3Line
  <2> HIDE DEF front, tail, X, head, tokens
  <2>2. front \in Seq(X) /\ tail \in Seq(X)
    BY <1>1, <1>2
  <2>3. /\ front \o tail \in Seq(X) /\ Len(front \o tail) = Len(front) + Len(tail)
        /\ \A i \in 1 .. Len(front) : (front \o tail)[i] = front[i]
        /\ \A i \in 1 .. Len(tail) : (front \o tail)[Len(front) + i] = tail[i]
    BY <2>2
  <2>4. QED
    BY <1>1, <1>2, <2>1, <2>3
<1> HIDE DEF front, tokens, n
<1>5. /\ tokens[1] = Millis(m.time) /\ tokens[2] = m.channel /\ tokens[3] = m.id
      /\ tokens[4] = Code(m.code)
  <2>1. \A i \in 1 .. 4 : i \in 1 .. 4 + n
    BY <1>3
  <2>2. \A i \in 1 .. 4 : tokens[i] = head[i]
    BY <1>2, <1>4, <2>1
  <2>3. QED
    BY <2>2
<1>6. PICK p \in Nat : p = 4 + n + 1
  BY <1>3
<1>7. /\ tokens[p] = Word(m.dir) /\ tokens[p + 1] = Word("CANFD") /\ tokens[p + 2] = Digit(1)
      /\ Len(tokens) = p + 2 /\ p >= 5
  <2>1. 4 + n + 1 = p /\ 4 + n + 2 = p + 1 /\ 4 + n + 3 = p + 2 /\ p >= 5
    BY <1>3, <1>6
  <2>2. tokens[p] = tail[1] /\ tokens[p + 1] = tail[2] /\ tokens[p + 2] = tail[3]
    BY <1>4, <2>1
  <2>3. QED
    BY <1>4, <2>1, <2>2
<1> HIDE DEF head, tail, X
<1>8. StandsBehind(tokens, 4, m.data)
  <2>1. \A i \in 1 .. n : front[4 + i] = m.data[i]
    BY <1>2 DEF StandsBehind, n
  <2>2. ASSUME NEW i \in 1 .. n PROVE tokens[4 + i] = m.data[i]
    <3>1. PICK j \in 1 .. 4 + n : j = 4 + i
      BY <1>3
    <3>2. front[j] = m.data[i]
      BY <2>1, <3>1
    <3>3. tokens[j] = front[j]
      BY <1>4
    <3>4. QED
      BY <3>1, <3>2, <3>3
  <2>3. 4 + n <= Len(tokens)
    BY <1>3, <1>4
  <2>4. QED
    BY <2>2, <2>3 DEF StandsBehind, n
<1>9. /\ tokens[1].time = m.time /\ tokens[1].text = "digits" /\ tokens[1].width = 5
      /\ tokens[2].text = "digits" /\ tokens[3].text = "digits"
  BY <1>3, <1>5, MillisFacts DEF IsNumber
<1>10. /\ tokens[4].text = "digits" /\ tokens[4].width = 1
       /\ tokens[4].dec = IF m.code < 10 THEN m.code ELSE No
  BY <1>3, <1>5, CodeFacts DEF IsNumber
<1>11. /\ IsWord(tokens[p], m.dir) /\ IsWord(tokens[p + 1], "CANFD")
       /\ tokens[p + 2].text = "digits"
  BY <1>7, WordFacts, DigitFacts DEF IsNumber
<1>12. Direction(tokens) = m.dir
  <2>1. p \in 1 .. Len(tokens) /\ Len(tokens) \in Nat /\ tokens[p].text = m.dir
    BY <1>7, <1>11 DEF IsWord
  <2>2. \A i \in 1 .. p - 1 : tokens[i].text \notin {"Tx", "Rx"}
    <3>1. \A i \in 1 .. p - 1 : i = 1 \/ i = 2 \/ i = 3 \/ i = 4 \/ i \in 4 + 1 .. 4 + n
      BY <1>3, <1>6
    <3>2. \A i \in 4 + 1 .. 4 + n : tokens[i].text = "digits"
      BY <1>8, DataTexts DEF n
    <3>3. \A i \in 1 .. p - 1 : tokens[i].text = "digits"
      BY <1>9, <1>10, <3>1, <3>2
    <3>4. QED
      BY <3>3
  <2>3. \A i \in p + 1 .. Len(tokens) : tokens[i].text # "Tx"
    <3>1. \A i \in p + 1 .. Len(tokens) : i = p + 1 \/ i = p + 2
      BY <1>7
    <3>2. tokens[p + 1].text # "Tx" /\ tokens[p + 2].text # "Tx"
      BY <1>11 DEF IsWord
    <3>3. QED
      BY <3>1, <3>2
  <2>4. QED
    BY <1>3, <2>1, <2>2, <2>3, DirectionAt
<1>13. LengthAt(tokens, 4, m)
  <2>1. m.id.width # 2 /\ m.code <= 8
    BY DEF Unambiguous
  <2>2. tokens[4].dec = n
    <3>1. n = m.code
      BY <1>3, <2>1, LengthsOfCodes
    <3>2. QED
      BY <1>3, <1>10, <2>1, <3>1
  <2>3. ~IsPlace(tokens, 1) /\ ~IsPlace(tokens, 2) /\ ~IsPlace(tokens, 3)
    BY <1>5, <1>9, <1>10, <2>1 DEF IsPlace, IsByte
  <2>4. ASSUME m.data = <<>>, NEW i \in 4 .. Len(tokens) - 1 PROVE ~IsPlace(tokens, i)
    <3>1. p = 5
      <4>1. n = 0
        BY <2>4 DEF n
      <4>2. QED
        BY <1>6, <4>1
    <3>2. IsWord(tokens[5], m.dir) /\ IsWord(tokens[6], "CANFD") /\ Len(tokens) = 7
      BY <1>7, <1>11, <3>1
    <3>3. ~IsPlace(tokens, 4)
      BY <3>2 DEF IsPlace, IsByte, IsWord, No
    <3>4. ~IsPlace(tokens, 5) /\ ~IsPlace(tokens, 6)
      BY <3>2 DEF IsPlace, IsWord, No
    <3>5. i = 4 \/ i = 5 \/ i = 6
      BY <3>2
    <3>6. QED
      BY <3>3, <3>4, <3>5
  <2>5. \A i \in 1 .. 4 - 1 : i = 1 \/ i = 2 \/ i = 3
    OBVIOUS
  <2>6. \A i \in 1 .. 4 - 1 : ~IsPlace(tokens, i)
    BY <2>3, <2>5
  <2>7. 4 \in 1 .. Len(tokens) /\ Len(tokens) \in Nat
    BY <1>7
  <2>8. QED
    BY <1>10, <2>2, <2>4, <2>6, <2>7 DEF LengthAt, n
<1>14. RightFields(FieldsByDlc(tokens, m.time, m.id, m.dir), m)
  <2>1. ByteNumbers \subseteq X
    BY DEF X
  <2>2. QED
    BY <1>4, <1>8, <1>13, <2>1, FoundByDlc
<1>15. QED
  BY <1>5, <1>9, <1>12, <1>14 DEF parse_cancommander_type3, tokens

(* What the parser of a format makes of a line of it. *)
LEMMA LinesRead ==
  ASSUME NEW m \in Messages, NEW format \in Formats, Unambiguous(format, m)
  PROVE  RightFields(Parse(format, Line(format, m)), m)
<1>1. CASE format = "filter"
  BY <1>1, FilterRead DEF Parse, Line
<1>2. CASE format = "canoe"
  BY <1>2, CanoeRead DEF Parse, Line
<1>3. CASE format = "compact"
  BY <1>3, CompactRead DEF Parse, Line
<1>4. CASE format = "full"
  BY <1>4, FullRead DEF Parse, Line
<1>5. CASE format = "cansuke"
  BY <1>5, CansukeRead DEF Parse, Line
<1>6. CASE format = "cancommander"
  BY <1>6, CancommanderRead DEF Parse, Line
<1>7. CASE format = "type2"
  BY <1>7, Type2Read DEF Parse, Line
<1>8. CASE format = "type3"
  BY <1>8, Type3Read DEF Parse, Line
<1>9. QED
  BY <1>1, <1>2, <1>3, <1>4, <1>5, <1>6, <1>7, <1>8 DEF Formats

-----------------------------------------------------------------------------
(* The loader. *)

IsSequence(s) == \E X : s \in Seq(X)

LoaderTypes ==
  /\ file \in LogFiles /\ line \in 0 .. Len(file.lines) /\ loads \in Nat
  /\ IsSequence(created)
  /\ \A i \in 1 .. Len(created) : created[i].load \in 0 .. loads

(* What is kept of an id is the time of its last entry, and the data of its   *)
(* last entry in this load.                                                  *)
TimeKept(id) == Get(last_timestamp_by_id, id, 0) = TimeBefore(created, Len(created), id)
DataKept(id) ==
  Get(last_raw_by_id, id, <<>>) = DataBefore(created, Len(created), loads, id)
TablesInv == \A id \in Nat : TimeKept(id) /\ DataKept(id)

(* ChangesAreChanges, of one entry. *)
ChangeRight(entries, j) ==
  LET e == entries[j]
      data == DataBefore(entries, j - 1, e.load, e.fields.id)
      time == TimeBefore(entries, j - 1, e.fields.id)
  IN /\ e.changed = (data # <<>> /\ data # e.fields.data)
     /\ e.last_timestamp = IF time # 0 THEN time ELSE e.fields.time

ChangesInv == \A j \in 1 .. Len(created) : ChangeRight(created, j)

LoaderInv == LoaderTypes /\ TablesInv /\ ChangesInv

LEMMA AppendFacts ==
  ASSUME NEW s, IsSequence(s), NEW x
  PROVE  /\ IsSequence(Append(s, x)) /\ Len(s) \in Nat /\ Len(Append(s, x)) = Len(s) + 1
         /\ Append(s, x)[Len(s) + 1] = x
         /\ \A i \in 1 .. Len(s) : Append(s, x)[i] = s[i]
<1>1. PICK X : s \in Seq(X)
  BY DEF IsSequence
<1> DEFINE Y == X \cup {x}
<1>2. s \in Seq(Y) /\ x \in Y
  BY <1>1
<1> HIDE DEF Y
<1>3. /\ Append(s, x) \in Seq(Y) /\ Len(s) \in Nat /\ Len(Append(s, x)) = Len(s) + 1
      /\ Append(s, x)[Len(s) + 1] = x
      /\ \A i \in 1 .. Len(s) : Append(s, x)[i] = s[i]
  BY <1>2
<1>4. QED
  BY <1>3 DEF IsSequence

LEMMA EmptyIsSequence == IsSequence(<<>>) /\ Len(<<>>) = 0
<1>1. <<>> \in Seq({})
  OBVIOUS
<1>2. QED
  BY <1>1 DEF IsSequence

(* What entries up to n say depends on those only. *)
SaySame(s, t, n, load, id) ==
  /\ TimeBefore(s, n, id) = TimeBefore(t, n, id)
  /\ DataBefore(s, n, load, id) = DataBefore(t, n, load, id)

Same(s, t, n) == \A i \in 1 .. n : s[i] = t[i]

LEMMA SameBefore ==
  ASSUME NEW s, NEW t, NEW n \in Nat, Same(s, t, n), NEW load, NEW id
  PROVE  SaySame(s, t, n, load, id)
<1> DEFINE S == OfId(s, n, id)
           L == OfLoad(s, n, load, id)
<1>1. S = OfId(t, n, id) /\ S \in SUBSET (1 .. n)
  BY DEF OfId, Same
<1>2. L = OfLoad(t, n, load, id) /\ L \in SUBSET (1 .. n)
  BY <1>1 DEF OfLoad, Same
<1> HIDE DEF S, L
<1>3. S # {} => s[Max(S)] = t[Max(S)]
  <2> SUFFICES ASSUME S # {} PROVE s[Max(S)] = t[Max(S)]
    OBVIOUS
  <2>1. Max(S) \in 1 .. n
    BY <1>1, MaxIsGreatest
  <2>2. QED
    BY <2>1 DEF Same
<1>4. L # {} => s[Max(L)] = t[Max(L)]
  <2> SUFFICES ASSUME L # {} PROVE s[Max(L)] = t[Max(L)]
    OBVIOUS
  <2>1. Max(L) \in 1 .. n
    BY <1>2, MaxIsGreatest
  <2>2. QED
    BY <2>1 DEF Same
<1>5. TimeBefore(s, n, id) = TimeBefore(t, n, id)
  BY <1>1, <1>3 DEF TimeBefore, S
<1>6. DataBefore(s, n, load, id) = DataBefore(t, n, load, id)
  BY <1>2, <1>4 DEF DataBefore, L
<1>7. QED
  BY <1>5, <1>6 DEF SaySame

(* The greatest of a set up to n + 1 that n + 1 is in. *)
LEMMA MaxIsLast ==
  ASSUME NEW n \in Nat, NEW S \in SUBSET (1 .. n + 1), n + 1 \in S
  PROVE  S # {} /\ Max(S) = n + 1
<1>1. n + 1 \in Nat /\ S # {}
  OBVIOUS
<1>2. Max(S) \in S /\ n + 1 <= Max(S)
  BY <1>1, MaxIsGreatest
<1>3. PICK k \in 1 .. n + 1 : k = Max(S)
  BY <1>2
<1>4. n + 1 <= k
  BY <1>2, <1>3
<1>5. QED
  BY <1>1, <1>3, <1>4

(* One entry more is the last of its id and load, and of no other. *)
SaysMore(s, n, load, id) ==
  /\ s[n + 1].fields.id = id =>
       TimeBefore(s, n + 1, id) = s[n + 1].fields.time
  /\ s[n + 1].fields.id # id => TimeBefore(s, n + 1, id) = TimeBefore(s, n, id)
  /\ s[n + 1].fields.id = id /\ s[n + 1].load = load =>
       DataBefore(s, n + 1, load, id) = s[n + 1].fields.data
  /\ s[n + 1].fields.id # id =>
       DataBefore(s, n + 1, load, id) = DataBefore(s, n, load, id)

LEMMA OneMore ==
  ASSUME NEW s, NEW n \in Nat, NEW load, NEW id
  PROVE  SaysMore(s, n, load, id)
<1> DEFINE S == OfId(s, n + 1, id)
           L == OfLoad(s, n + 1, load, id)
<1>1. S \in SUBSET (1 .. n + 1) /\ L \in SUBSET (1 .. n + 1) /\ n + 1 \in 1 .. n + 1
  BY DEF OfId, OfLoad
<1>2. CASE s[n + 1].fields.id = id
  <2>1. n + 1 \in S
    BY <1>1, <1>2 DEF OfId
  <2>2. s[n + 1].load = load => n + 1 \in L
    BY <2>1 DEF OfLoad
  <2> HIDE DEF S, L
  <2>3. S # {} /\ Max(S) = n + 1
    BY <1>1, <2>1, MaxIsLast
  <2>4. s[n + 1].load = load => L # {} /\ Max(L) = n + 1
    BY <1>1, <2>2, MaxIsLast
  <2>5. TimeBefore(s, n + 1, id) = s[n + 1].fields.time
    BY <2>3 DEF TimeBefore, S
  <2>6. s[n + 1].load = load => DataBefore(s, n + 1, load, id) = s[n + 1].fields.data
    BY <2>4 DEF DataBefore, L
  <2>7. QED
    BY <1>2, <2>5, <2>6 DEF SaysMore
<1>3. CASE s[n + 1].fields.id # id
  <2>1. \A i \in 1 .. n + 1 : i \in 1 .. n \/ i = n + 1
    OBVIOUS
  <2>2. S = OfId(s, n, id)
    BY <1>3, <2>1 DEF OfId
  <2>3. L = OfLoad(s, n, load, id)
    BY <2>2 DEF OfLoad
  <2> HIDE DEF S, L
  <2>4. TimeBefore(s, n + 1, id) = TimeBefore(s, n, id)
    BY <2>2 DEF TimeBefore, S
  <2>5. DataBefore(s, n + 1, load, id) = DataBefore(s, n, load, id)
    BY <2>3 DEF DataBefore, L
  <2>6. QED
    BY <1>3, <2>4, <2>5 DEF SaysMore
<1>4. QED
  BY <1>2, <1>3

LEMMA PutThenGet ==
  ASSUME NEW table, NEW id, NEW value, NEW i, NEW none
  PROVE  Get(Put(table, id, value), i, none) = IF i = id THEN value ELSE Get(table, i, none)
BY DEF Get, Put

LEMMA LoaderInitInv == LoaderInit => LoaderInv
<1> SUFFICES ASSUME LoaderInit PROVE LoaderInv
  OBVIOUS
<1>1. /\ file = NoFile /\ line = 0 /\ created = <<>> /\ loads = 0
      /\ last_raw_by_id = <<>> /\ last_timestamp_by_id = <<>>
  BY DEF LoaderInit
<1>2. NoFile \in LogFiles /\ Len(NoFile.lines) = 0
  BY DEF NoFile, LogFiles, FileTypes, Formats
<1>3. IsSequence(created) /\ Len(created) = 0
  BY <1>1, EmptyIsSequence
<1>4. LoaderTypes
  <2>1. file \in LogFiles /\ line \in 0 .. Len(file.lines)
    BY <1>1, <1>2
  <2>2. QED
    BY <1>1, <1>3, <2>1 DEF LoaderTypes
<1>5. TablesInv
  <2>1. DOMAIN last_raw_by_id = {} /\ DOMAIN last_timestamp_by_id = {}
    BY <1>1
  <2>2. \A id : OfId(created, 0, id) = {} /\ OfLoad(created, 0, loads, id) = {}
    BY DEF OfId, OfLoad
  <2>3. \A id : TimeKept(id) /\ DataKept(id)
    BY <1>3, <2>1, <2>2 DEF TimeKept, DataKept, Get, TimeBefore, DataBefore
  <2>4. QED
    BY <2>3 DEF TablesInv
<1>6. ChangesInv
  BY <1>3 DEF ChangesInv
<1>7. QED
  BY <1>4, <1>5, <1>6 DEF LoaderInv

(* Whatever file is loaded, nothing has been read of it. *)
LEMMA LoadLogFileInv ==
  ASSUME LoaderInv, NEW f \in LogFiles, LoadLogFile(f)
  PROVE  LoaderInv'
<1>1. /\ file' = f /\ line' = 0 /\ created' = created /\ loads' = loads + 1
      /\ last_raw_by_id' = <<>> /\ last_timestamp_by_id' = last_timestamp_by_id
  BY DEF LoadLogFile, RawAtStart
<1>2. /\ loads \in Nat /\ IsSequence(created)
      /\ \A i \in 1 .. Len(created) : created[i].load \in 0 .. loads
  BY DEF LoaderInv, LoaderTypes
<1>3. Len(f.lines) \in Nat
  BY DEF LogFiles
<1>4. LoaderTypes'
  <2>1. file' \in LogFiles /\ line' \in 0 .. Len(file'.lines) /\ loads' \in Nat
    BY <1>1, <1>2, <1>3
  <2>2. \A i \in 1 .. Len(created) : created[i].load \in 0 .. loads + 1
    BY <1>2
  <2>3. QED
    BY <1>1, <1>2, <2>1, <2>2 DEF LoaderTypes
<1>5. TablesInv'
  <2>1. \A i \in 1 .. Len(created) : created[i].load # loads + 1
    BY <1>2
  <2>2. \A id : OfLoad(created, Len(created), loads + 1, id) = {}
    BY <2>1 DEF OfLoad, OfId
  <2>3. DOMAIN last_raw_by_id' = {}
    BY <1>1
  <2>4. \A id : DataKept(id)'
    BY <1>1, <2>2, <2>3 DEF DataKept, DataBefore, Get
  <2>5. \A id \in Nat : TimeKept(id)'
    BY <1>1 DEF LoaderInv, TablesInv, TimeKept
  <2>6. QED
    BY <2>4, <2>5 DEF TablesInv
<1>6. ChangesInv'
  BY <1>1 DEF LoaderInv, ChangesInv
<1>7. QED
  BY <1>4, <1>5, <1>6 DEF LoaderInv

(* A line read or not, nothing kept. *)
LEMMA NothingKept ==
  ASSUME LoaderInv, UNCHANGED <<file, created, keptVars, loads>>,
         line' \in 0 .. Len(file.lines)
  PROVE  LoaderInv'
<1>1. /\ file' = file /\ created' = created /\ loads' = loads
      /\ last_raw_by_id' = last_raw_by_id /\ last_timestamp_by_id' = last_timestamp_by_id
  BY DEF keptVars
<1>2. LoaderTypes'
  BY <1>1 DEF LoaderInv, LoaderTypes
<1>3. TablesInv'
  BY <1>1 DEF LoaderInv, TablesInv, TimeKept, DataKept
<1>4. ChangesInv'
  BY <1>1 DEF LoaderInv, ChangesInv
<1>5. QED
  BY <1>2, <1>3, <1>4 DEF LoaderInv

(* A message makes an entry. *)
LEMMA MessageKept ==
  ASSUME LoaderInv, line' \in 0 .. Len(file.lines), NEW r, r.id \in Nat,
         UNCHANGED <<file, loads>>, created' = Append(created, Entry(r)), Keep(r)
  PROVE  LoaderInv'
<1> DEFINE N == Len(created)
           raw == Get(last_raw_by_id, r.id, <<>>)
           last == Get(last_timestamp_by_id, r.id, 0)
           t == created'
           e == t[N + 1]
<1>1. /\ file' = file /\ loads' = loads
      /\ last_raw_by_id' = Put(last_raw_by_id, r.id, r.data)
      /\ last_timestamp_by_id' = Put(last_timestamp_by_id, r.id, r.time)
  BY DEF Keep
<1>2. /\ IsSequence(created) /\ loads \in Nat
      /\ \A i \in 1 .. N : created[i].load \in 0 .. loads
  BY DEF LoaderInv, LoaderTypes
<1>3. /\ IsSequence(t) /\ N \in Nat /\ Len(t) = N + 1 /\ created' = t
      /\ e = Entry(r) /\ \A i \in 1 .. N : t[i] = created[i]
  BY <1>2, AppendFacts
<1>4. /\ e.load = loads /\ e.fields = r
      /\ e.changed = (raw # <<>> /\ raw # r.data)
      /\ e.last_timestamp = IF last # 0 THEN last ELSE r.time
  <2> HIDE DEF e
  <2>1. QED
    BY <1>3 DEF Entry
<1>5. raw = DataBefore(created, N, loads, r.id) /\ last = TimeBefore(created, N, r.id)
  BY DEF LoaderInv, TablesInv, TimeKept, DataKept
<1> HIDE DEF e, t, N, raw, last
<1>6. \A i \in 1 .. N + 1 : i \in 1 .. N \/ i = N + 1
  BY <1>3
<1>7. LoaderTypes'
  <2>1. \A i \in 1 .. N + 1 : t[i].load \in 0 .. loads
    BY <1>2, <1>3, <1>4, <1>6 DEF e
  <2>2. QED
    BY <1>1, <1>3, <2>1 DEF LoaderInv, LoaderTypes
<1>8. ASSUME NEW id \in Nat
      PROVE  /\ TimeBefore(t, N, id) = TimeBefore(created, N, id)
             /\ DataBefore(t, N, loads, id) = DataBefore(created, N, loads, id)
  <2>1. Same(t, created, N)
    BY <1>3 DEF Same
  <2>2. SaySame(t, created, N, loads, id)
    BY <1>3, <2>1, SameBefore
  <2>3. QED
    BY <2>2 DEF SaySame
<1>9. TablesInv'
  <2>1. ASSUME NEW id \in Nat
        PROVE  /\ Get(last_timestamp_by_id', id, 0) = TimeBefore(t, N + 1, id)
               /\ Get(last_raw_by_id', id, <<>>) = DataBefore(t, N + 1, loads, id)
    <3>1. /\ Get(last_timestamp_by_id', id, 0)
               = IF id = r.id THEN r.time ELSE Get(last_timestamp_by_id, id, 0)
          /\ Get(last_raw_by_id', id, <<>>)
               = IF id = r.id THEN r.data ELSE Get(last_raw_by_id, id, <<>>)
      BY <1>1, PutThenGet
    <3>2. /\ Get(last_timestamp_by_id, id, 0) = TimeBefore(created, N, id)
          /\ Get(last_raw_by_id, id, <<>>) = DataBefore(created, N, loads, id)
      BY <2>1 DEF LoaderInv, TablesInv, TimeKept, DataKept, N
    <3>3. t[N + 1].fields = r /\ t[N + 1].load = loads
      BY <1>4 DEF e
    <3> HIDE DEF e
    <3>4. SaysMore(t, N, loads, id)
      BY <1>3, OneMore
    <3>5. CASE id = r.id
      <4>1. /\ TimeBefore(t, N + 1, id) = r.time
            /\ DataBefore(t, N + 1, loads, id) = r.data
        BY <3>3, <3>4, <3>5 DEF SaysMore
      <4>2. QED
        BY <3>1, <3>5, <4>1
    <3>6. CASE id # r.id
      <4>1. /\ TimeBefore(t, N + 1, id) = TimeBefore(t, N, id)
            /\ DataBefore(t, N + 1, loads, id) = DataBefore(t, N, loads, id)
        BY <3>3, <3>4, <3>6 DEF SaysMore
      <4>2. QED
        BY <1>8, <3>1, <3>2, <3>6, <4>1
    <3>7. QED
      BY <3>5, <3>6
  <2>2. QED
    BY <1>1, <1>3, <2>1 DEF TablesInv, TimeKept, DataKept
<1>10. ChangesInv'
  <2>1. ASSUME NEW j \in 1 .. N PROVE ChangeRight(t, j)
    <3> DEFINE load == created[j].load
               id == created[j].fields.id
    <3>1. ChangeRight(created, j) /\ t[j] = created[j]
      BY <1>3 DEF LoaderInv, ChangesInv, N
    <3>2. j - 1 \in Nat /\ Same(created, t, j - 1)
      BY <1>3 DEF Same
    <3> HIDE DEF load, id
    <3>3. SaySame(created, t, j - 1, load, id)
      BY <3>2, SameBefore
    <3>4. QED
      BY <3>1, <3>3 DEF ChangeRight, SaySame, load, id
  <2>2. ChangeRight(t, N + 1)
    <3>1. (N + 1) - 1 = N /\ t[N + 1] = e
      BY <1>3 DEF e
    <3>2. /\ DataBefore(t, N, loads, r.id) = raw
          /\ TimeBefore(t, N, r.id) = last
      BY <1>5, <1>8
    <3>3. QED
      BY <1>4, <3>1, <3>2 DEF ChangeRight
  <2>3. QED
    BY <1>3, <1>6, <2>1, <2>2 DEF ChangesInv
<1>11. QED
  BY <1>7, <1>9, <1>10 DEF LoaderInv

(* Every step of the loader. *)
LEMMA LoadsInv ==
  ASSUME LoaderInv, Loads
  PROVE  LoaderInv'
<1>1. file \in LogFiles /\ line \in 0 .. Len(file.lines) /\ Len(file.lines) \in Nat
  BY DEF LoaderInv, LoaderTypes, LogFiles
<1>2. ASSUME ReadMessage PROVE LoaderInv'
  <2> DEFINE told == file.lines[line']
             r == Told(told[1])
  <2>1. /\ line < Len(file.lines) /\ line' = line + 1 /\ file' = file /\ loads' = loads
        /\ IF told = Noise THEN UNCHANGED <<parsed_count, created, keptVars>>
           ELSE created' = Append(created, Entry(r)) /\ Keep(r)
    BY <1>2 DEF ReadMessage
  <2>2. line' \in 0 .. Len(file.lines) /\ line' \in 1 .. Len(file.lines)
    BY <1>1, <2>1
  <2>3. CASE told = Noise
    BY <2>1, <2>2, <2>3, NothingKept
  <2>4. CASE told # Noise
    <3>1. told \in Seq(Messages) /\ Len(told) <= 1
      BY <1>1, <2>2 DEF LogFiles
    <3> HIDE DEF told
    <3>2. told[1] \in Messages
      BY <2>4, <3>1 DEF Noise
    <3>3. r.id = told[1].id.hex /\ told[1].id.hex \in Nat
      BY <3>2, MessageFacts DEF Told, IsNumber
    <3> HIDE DEF r
    <3>4. QED
      BY <2>1, <2>2, <2>4, <3>3, MessageKept
  <2>5. QED
    BY <2>3, <2>4
<1>3. ASSUME EndReading PROVE LoaderInv'
  BY <1>1, <1>3, NothingKept DEF EndReading
<1>4. ASSUME ReaderFails PROVE LoaderInv'
  BY <1>1, <1>4, NothingKept DEF ReaderFails
<1>5. QED
  BY <1>2, <1>3, <1>4 DEF Loads

LEMMA LoaderStays ==
  ASSUME LoaderInv, UNCHANGED loaderVars
  PROVE  LoaderInv'
<1>1. line \in 0 .. Len(file.lines) /\ UNCHANGED <<file, created, keptVars, loads>>
      /\ line' = line
  BY DEF loaderVars, LoaderInv, LoaderTypes
<1>2. QED
  BY <1>1, NothingKept

-----------------------------------------------------------------------------
(* The converter. *)

(* What a line of a part tells. *)
Written == [time : Int, channel : Numbers, id : Numbers, dir : {"Tx", "Rx"},
            label : Tokens \cup {Word("UNKNOW"), Word("NOT_FOUND")}, code : 0 .. 15,
            data : Seq(ByteNumbers)]

ConverterTypes ==
  /\ source \in Seq(Messages) /\ db \in Databases /\ taken \in 0 .. Len(source)
  /\ time_base \in Int /\ parts \in Seq(Seq(Written))

(* The base is the time of the first message that has one. *)
BaseOf(log, n) == IF Timed(log, n) = {} THEN 0 ELSE log[Min(Timed(log, n))].time
BaseInv == time_base = BaseOf(source, taken)

(* A part left is full, and was not without its last line. *)
LeftFull(part) == /\ PartSize(part) >= SizeLimit
                  /\ PartSize(part) - LineSize(Last(part)) < SizeLimit

(* The open part has the size that is kept, the ones before it are full. *)
SizesInv ==
  /\ parts # <<>> /\ file_size = PartSize(parts[Len(parts)]) /\ file_size < SizeLimit
  /\ \A p \in 1 .. Len(parts) - 1 : LeftFull(parts[p])

(* The lines are those of the messages taken. *)
LineRight(names, log, n, written, i) ==
  SameButTime(names, written, log[i]) /\ written.time = TimeOf(log, n, i)
LinesInv ==
  /\ Len(FlattenSeq(parts)) = taken
  /\ \A i \in 1 .. taken : LineRight(db, source, taken, FlattenSeq(parts)[i], i)

NotBegun == parts = <<>> /\ taken = 0 /\ file_size = 0
ConverterInv ==
  /\ ConverterTypes /\ BaseInv
  /\ NotBegun \/ (SizesInv /\ LinesInv)
  /\ converting = "idle" => NotBegun
  /\ converting = "writing" => SizesInv /\ LinesInv

(* One line more in the last part. *)
LEMMA FlattenWritten ==
  ASSUME NEW X, NEW ss \in Seq(Seq(X)), ss # <<>>, NEW x \in X
  PROVE  FlattenSeq([ss EXCEPT ![Len(ss)] = Append(@, x)]) = Append(FlattenSeq(ss), x)
<1>1. Len(ss) \in 1 .. Len(ss) /\ ss[Len(ss)] \in Seq(X)
  OBVIOUS
<1>2. Append(ss[Len(ss)], x) = ss[Len(ss)] \o <<x>> /\ <<x>> \in Seq(X)
  BY <1>1, AppendIsConcat
<1>3. [ss EXCEPT ![Len(ss)] = Append(@, x)] = [ss EXCEPT ![Len(ss)] = @ \o <<x>>]
  BY <1>2
<1>4. FlattenSeq([ss EXCEPT ![Len(ss)] = @ \o <<x>>]) = FlattenSeq(ss) \o <<x>>
  BY <1>2, FlattenGrows
<1>5. FlattenSeq(ss) \in Seq(X)
  BY FlattenTyped
<1>6. Append(FlattenSeq(ss), x) = FlattenSeq(ss) \o <<x>>
  BY <1>5, AppendIsConcat
<1>7. QED
  BY <1>3, <1>4, <1>6

(* The sum of one number more. *)
LEMMA SumAppend ==
  ASSUME NEW s \in Seq(Nat), NEW x \in Nat
  PROVE  SumOf(Append(s, x)) = SumOf(s) + x /\ SumOf(s) \in Nat
<1> DEFINE N == Len(s)
           t == Append(s, x)
<1>1. /\ t \in Seq(Nat) /\ Len(t) = N + 1 /\ N \in Nat /\ t[N + 1] = x
      /\ \A i \in 1 .. N : t[i] = s[i]
  OBVIOUS
<1>2. PICK f : SumsBy(f, s) /\ f[N] = SumOf(s)
  BY SumSteps
<1> DEFINE g == [i \in 0 .. N + 1 |-> IF i = N + 1 THEN f[N] + x ELSE f[i]]
<1>3. /\ f \in [0 .. N -> Nat] /\ f[0] = 0 /\ f[N] \in Nat
      /\ \A i \in 1 .. N : f[i] = f[i - 1] + s[i]
  <2>1. N \in 0 .. N
    BY <1>1
  <2>2. QED
    BY <1>2, <2>1 DEF SumsBy
<1> HIDE DEF t, N
<1>4. /\ g \in [0 .. N + 1 -> Nat] /\ g[N + 1] = f[N] + x
      /\ \A i \in 0 .. N : g[i] = f[i]
  BY <1>1, <1>3
<1> HIDE DEF g
<1>5. ASSUME NEW i \in 1 .. N + 1 PROVE g[i] = g[i - 1] + t[i]
  <2>1. CASE i \in 1 .. N
    <3>1. i \in 0 .. N /\ i - 1 \in 0 .. N
      BY <1>1, <2>1
    <3>2. QED
      BY <1>1, <1>3, <1>4, <2>1, <3>1
  <2>2. CASE i = N + 1
    <3>1. i - 1 = N /\ N \in 0 .. N
      BY <1>1, <2>2
    <3>2. QED
      BY <1>1, <1>4, <2>2, <3>1
  <2>3. QED
    BY <1>1, <2>1, <2>2
<1>6. SumsBy(g, t)
  <2>1. g[0] = 0
    BY <1>1, <1>3, <1>4
  <2>2. QED
    BY <1>1, <1>4, <1>5, <2>1 DEF SumsBy
<1>7. SumOf(t) = g[N + 1]
  BY <1>1, <1>6, SumIs
<1>8. QED
  BY <1>2, <1>3, <1>4, <1>7 DEF t

LEMMA SumOfNone == SumOf(<<>>) = 0
<1>1. <<>> \in Seq(Nat) /\ Len(<<>>) = 0
  OBVIOUS
<1>2. PICK f : SumsBy(f, <<>>) /\ f[Len(<<>>)] = SumOf(<<>>)
  BY <1>1, SumSteps
<1>3. QED
  BY <1>1, <1>2 DEF SumsBy

LEMMA PartSizes ==
  ASSUME NEW part \in Seq(Written), NEW m \in Written
  PROVE  PartSize(Append(part, m)) = PartSize(part) + LineSize(m) /\ PartSize(part) \in Nat
<1> DEFINE sizes(p) == [i \in DOMAIN p |-> LineSize(p[i])]
           N == Len(part)
           more == Append(part, m)
<1>1. \A k \in Written : LineSize(k) \in Nat
  <2>1. \A k \in Written : Len(k.data) \in Nat
    BY DEF Written
  <2>2. QED
    BY <2>1 DEF LineSize
<1>2. /\ N \in Nat /\ more \in Seq(Written) /\ Len(more) = N + 1 /\ more[N + 1] = m
      /\ \A i \in 1 .. N : more[i] = part[i] /\ part[i] \in Written
  OBVIOUS
<1>3. DOMAIN part = 1 .. N /\ DOMAIN more = 1 .. N + 1
  BY <1>2
<1> HIDE DEF more, N
<1>4. IsList(sizes(part), N, Nat)
  BY <1>1, <1>2, <1>3 DEF IsList
<1>5. sizes(part) \in Seq(Nat) /\ Len(sizes(part)) = N
  <2> HIDE DEF sizes
  <2>1. QED
    BY <1>2, <1>4, ListIsSeq
<1>6. IsList(sizes(more), N + 1, Nat)
  BY <1>1, <1>2, <1>3 DEF IsList
<1>7. sizes(more) \in Seq(Nat) /\ Len(sizes(more)) = N + 1
  <2> HIDE DEF sizes
  <2>1. N + 1 \in Nat
    BY <1>2
  <2>2. QED
    BY <1>6, <2>1, ListIsSeq
<1>8. /\ sizes(more)[N + 1] = LineSize(m)
      /\ \A i \in 1 .. N : sizes(more)[i] = sizes(part)[i]
  BY <1>2, <1>3
<1>9. PartSize(part) = SumOf(sizes(part)) /\ PartSize(more) = SumOf(sizes(more))
  BY DEF PartSize
<1> HIDE DEF sizes
<1>10. sizes(more) = Append(sizes(part), LineSize(m))
  <2> DEFINE a == sizes(part)
             b == sizes(more)
             x == LineSize(m)
  <2>1. /\ a \in Seq(Nat) /\ b \in Seq(Nat) /\ x \in Nat /\ Len(a) = N /\ Len(b) = N + 1
        /\ b[N + 1] = x /\ \A i \in 1 .. N : b[i] = a[i]
    BY <1>1, <1>5, <1>7, <1>8
  <2> HIDE DEF a, b, x
  <2>2. /\ Append(a, x) \in Seq(Nat) /\ Len(Append(a, x)) = N + 1
        /\ \A i \in 1 .. N + 1 : b[i] = Append(a, x)[i]
    BY <1>2, <2>1
  <2>3. b = Append(a, x)
    BY <2>1, <2>2, SeqEqual
  <2>4. QED
    BY <2>3 DEF a, b, x
<1>11. QED
  BY <1>1, <1>5, <1>9, <1>10, SumAppend DEF more

LEMMA PartSizeNone == PartSize(<<>>) = 0
<1>1. [i \in DOMAIN <<>> |-> LineSize(<<>>[i])] = <<>>
  OBVIOUS
<1>2. QED
  BY <1>1, SumOfNone DEF PartSize

(* A line tells a message: the one it was made of, but for its time. *)
LEMMA WrittenIsRight ==
  ASSUME ConverterAssumption, db \in Databases, NEW m \in Messages, NEW base \in Int
  PROVE  /\ FormatLogEntry(m, base) \in Written
         /\ SameButTime(db, FormatLogEntry(m, base), m)
         /\ FormatLogEntry(m, base).time = m.time - base
<1> DEFINE w == FormatLogEntry(m, base)
           channel == IF m.channel.dec = 0 THEN Digit(1) ELSE Digit(2)
           name == MessageName(m.id.hex)
           M == [time : Int, channel : Numbers, id : Numbers, dir : {"Tx", "Rx"},
                 label : Tokens, code : 0 .. 15, data : Seq(ByteNumbers)]
<1>1. m \in M /\ m.time - base \in Int
  BY DEF Messages
<1>2. /\ channel \in Numbers /\ channel.dec \in {1, 2}
      /\ channel.dec = 1 <=> m.channel.dec = 0
  BY DEF Digit, Digits, Numbers, No
<1>3. name \in Tokens \cup {Word("UNKNOW"), Word("NOT_FOUND")}
  BY DEF MessageName, ConverterAssumption
<1>4. db # <<>> /\ m.id.hex \in DOMAIN db[1] => name = db[1][m.id.hex]
  BY DEF MessageName
<1> HIDE DEF channel, name
<1>5. w = [m EXCEPT !.time = m.time - base, !.channel = channel, !.label = name]
  BY DEF FormatLogEntry, channel, name
<1>6. /\ w \in Written /\ w.data = m.data /\ w.code = m.code /\ w.id = m.id /\ w.dir = m.dir
      /\ w.channel = channel /\ w.label = name /\ w.time = m.time - base
  <2> HIDE DEF w
  <2>1. QED
    BY <1>1, <1>2, <1>3, <1>5 DEF Written
<1> HIDE DEF w
<1>7. SameButTime(db, w, m)
  BY <1>2, <1>4, <1>6 DEF SameButTime
<1>8. QED
  BY <1>6, <1>7 DEF w

LEMMA ConverterInitInv ==
  ASSUME ConverterAssumption, ConverterInit
  PROVE  ConverterInv
<1>1. /\ source \in Seq(Messages) /\ db \in Databases /\ converting = "idle" /\ taken = 0
      /\ time_base = 0 /\ parts = <<>> /\ file_size = 0
  BY DEF ConverterInit, ConverterAssumption
<1>2. 0 \in 0 .. Len(source) /\ 0 \in Int /\ <<>> \in Seq(Seq(Written)) /\ Timed(source, 0) = {}
  BY <1>1 DEF Timed
<1>3. QED
  BY <1>1, <1>2 DEF ConverterInv, ConverterTypes, BaseInv, BaseOf, NotBegun

LEMMA ConvertInv ==
  ASSUME ConverterAssumption, ConverterInv, Convert
  PROVE  ConverterInv'
<1>1. /\ converting' = "writing" /\ converting = "idle" /\ parts' = <<<<>>>>
      /\ source' = source /\ db' = db /\ taken' = taken /\ time_base' = time_base
      /\ file_size' = file_size
  BY DEF Convert
<1>2. taken = 0 /\ file_size = 0 /\ ConverterTypes /\ BaseInv
  BY <1>1 DEF ConverterInv, NotBegun
<1>3. <<>> \in Seq(Written) /\ 0 < SizeLimit
  BY DEF ConverterAssumption
<1>4. parts' \in Seq(Seq(Written)) /\ Len(parts') = 1 /\ parts'[1] = <<>> /\ parts' # <<>>
  BY <1>1, <1>3
<1>5. ConverterTypes' /\ BaseInv'
  BY <1>1, <1>2, <1>4 DEF ConverterTypes, BaseInv
<1>6. SizesInv'
  <2>1. Len(parts') - 1 = 0
    BY <1>4
  <2>2. QED
    BY <1>1, <1>2, <1>3, <1>4, <2>1, PartSizeNone DEF SizesInv
<1>7. FlattenSeq(parts') = <<>>
  <2>1. <<>> \in Seq(Seq(Written)) /\ Append(<<>>, <<>>) = <<<<>>>>
    OBVIOUS
  <2>2. FlattenSeq(Append(<<>>, <<>>)) = FlattenSeq(<<>>) \o <<>>
    BY <1>3, <2>1, FlattenAppend
  <2>3. <<>> \o <<>> = <<>>
    OBVIOUS
  <2>4. QED
    BY <1>1, <2>1, <2>2, <2>3, FlattenEmpty
<1>8. LinesInv'
  <2>1. Len(FlattenSeq(parts')) = 0 /\ taken' = 0
    BY <1>1, <1>2, <1>7
  <2>2. QED
    BY <2>1 DEF LinesInv
<1>9. QED
  BY <1>1, <1>5, <1>6, <1>8 DEF ConverterInv

(* The converter ends, or nothing happens to it. *)
LEMMA NothingWritten ==
  ASSUME ConverterInv, UNCHANGED <<source, db, taken, time_base, parts, file_size>>,
         converting' \in {converting, "returned", "raised"}
  PROVE  ConverterInv'
<1>1. /\ source' = source /\ db' = db /\ taken' = taken /\ time_base' = time_base
      /\ parts' = parts /\ file_size' = file_size
  OBVIOUS
<1>2. ConverterTypes' /\ BaseInv'
  BY <1>1 DEF ConverterInv, ConverterTypes, BaseInv
<1>3. (NotBegun => NotBegun') /\ (SizesInv => SizesInv')
  BY <1>1 DEF NotBegun, SizesInv
<1>4. LinesInv => LinesInv'
  BY <1>1 DEF LinesInv
<1>5. converting' = "idle" => converting = "idle"
  OBVIOUS
<1>6. converting' = "writing" => converting = "writing"
  OBVIOUS
<1>7. QED
  BY <1>2, <1>3, <1>4, <1>5, <1>6 DEF ConverterInv

LEMMA ConverterEnds ==
  ASSUME ConverterInv, EndConversion
  PROVE  ConverterInv'
BY NothingWritten DEF EndConversion

LEMMA ConverterStays ==
  ASSUME ConverterInv, UNCHANGED converterVars
  PROVE  ConverterInv'
BY NothingWritten DEF converterVars

(* One message more is taken: the base is the time of the first that has one, *)
(* the lines before keep their time, and the new one has its time from it.   *)
NextBase(log, n) == IF BaseOf(log, n) = 0 THEN log[n + 1].time ELSE BaseOf(log, n)
BaseMoves(log, n) ==
  /\ BaseOf(log, n + 1) = NextBase(log, n) /\ NextBase(log, n) \in Int
  /\ \A i \in 1 .. n : TimeOf(log, n + 1, i) = TimeOf(log, n, i)
  /\ TimeOf(log, n + 1, n + 1) = log[n + 1].time - NextBase(log, n)

LEMMA TimesKept ==
  ASSUME NEW log \in Seq(Messages), NEW n \in Nat, n < Len(log)
  PROVE  BaseMoves(log, n)
<1> DEFINE N == n + 1
           m == log[N]
           T == Timed(log, n)
           U == Timed(log, N)
           base == NextBase(log, n)
<1>1. /\ Len(log) \in Nat /\ N \in 1 .. Len(log) /\ N \in Nat
      /\ \A i \in 1 .. n : i \in 1 .. N /\ i \in 1 .. Len(log) /\ ~(N <= i)
      /\ \A i \in 1 .. N : i \in 1 .. n \/ i = N
  OBVIOUS
<1>2. \A i \in 1 .. Len(log) : log[i] \in Messages /\ log[i].time \in Int
  BY DEF Messages
<1>3. /\ T \in SUBSET (1 .. n) /\ T = {i \in 1 .. n : log[i].time # 0}
      /\ U \in SUBSET (1 .. N) /\ U = {i \in 1 .. N : log[i].time # 0}
  BY DEF Timed
<1>4. U = IF m.time # 0 THEN T \cup {N} ELSE T
  <2>1. \A i \in 1 .. n : i \in T <=> i \in U
    BY <1>1, <1>3
  <2>2. (N \in U <=> m.time # 0) /\ N \notin T
    BY <1>1, <1>3
  <2> HIDE DEF T, U, N, m
  <2>3. QED
    BY <1>1, <1>3, <2>1, <2>2
<1>5. /\ \A i : TimeOf(log, n, i) = IF \E j \in T : j <= i
                                    THEN log[i].time - log[Min(T)].time ELSE 0
      /\ \A i : TimeOf(log, N, i) = IF \E j \in U : j <= i
                                    THEN log[i].time - log[Min(U)].time ELSE 0
  BY DEF TimeOf
<1>6. /\ BaseOf(log, n) = IF T = {} THEN 0 ELSE log[Min(T)].time
      /\ BaseOf(log, N) = IF U = {} THEN 0 ELSE log[Min(U)].time
      /\ base = IF BaseOf(log, n) = 0 THEN m.time ELSE BaseOf(log, n)
  BY DEF BaseOf, NextBase
<1> SUFFICES /\ BaseOf(log, N) = base /\ base \in Int
             /\ \A i \in 1 .. n : TimeOf(log, N, i) = TimeOf(log, n, i)
             /\ TimeOf(log, N, N) = m.time - base
  BY DEF BaseMoves
<1>7. m.time \in Int
  BY <1>1, <1>2
<1> HIDE DEF T, U, N, m, base
<1>8. CASE T = {}
  <2>1. base = m.time
    BY <1>6, <1>8
  <2>2. \A i \in 1 .. n : TimeOf(log, n, i) = 0 /\ TimeOf(log, N, i) = 0
    <3>1. \A j \in U : j = N
      BY <1>4, <1>8
    <3>2. QED
      BY <1>1, <1>5, <1>8, <3>1
  <2>3. CASE m.time = 0
    <3>1. U = {}
      BY <1>4, <1>8, <2>3
    <3>2. BaseOf(log, N) = 0 /\ TimeOf(log, N, N) = 0
      BY <1>5, <1>6, <3>1
    <3>3. QED
      BY <2>1, <2>2, <2>3, <3>2
  <2>4. CASE m.time # 0
    <3>1. U = {N} /\ N \in U /\ N <= N
      BY <1>1, <1>4, <1>8, <2>4
    <3>2. U # {} /\ Min(U) = N
      <4>1. U \in SUBSET Nat /\ N \in U /\ \A i \in U : N <= i
        BY <1>1, <3>1
      <4>2. QED
        BY <4>1, MinIs
    <3>3. BaseOf(log, N) = m.time
      BY <1>6, <3>2 DEF m
    <3>4. TimeOf(log, N, N) = m.time - m.time
      BY <1>5, <3>1, <3>2 DEF m
    <3>5. QED
      BY <1>7, <2>1, <2>2, <3>3, <3>4
  <2>5. QED
    BY <2>3, <2>4
<1>9. CASE T # {}
  <2>1. PICK k \in T : \A i \in T : k <= i
    <3>1. T \in SUBSET Nat
      BY <1>3
    <3>2. QED
      BY <1>9, <3>1, Smallest
  <2>2. T \in SUBSET Nat /\ Min(T) = k /\ k \in 1 .. n
    <3>1. T \in SUBSET Nat /\ k \in T /\ \A i \in T : k <= i
      BY <1>3, <2>1
    <3>2. QED
      BY <1>3, <3>1, MinIs
  <2>3. U # {} /\ Min(U) = k /\ k <= N /\ k \in U
    <3>1. k \in U /\ U \in SUBSET Nat
      BY <1>3, <1>4
    <3>2. k <= N
      BY <1>1, <2>2
    <3>3. \A i \in U : k <= i
      BY <1>4, <2>1, <3>2
    <3>4. QED
      BY <3>1, <3>2, <3>3, MinIs
  <2>4. log[k].time # 0 /\ log[k].time \in Int
    BY <1>1, <1>2, <1>3, <2>2
  <2>5. base = log[k].time /\ BaseOf(log, N) = log[k].time
    BY <1>6, <1>9, <2>2, <2>3, <2>4
  <2>6. TimeOf(log, N, N) = m.time - base
    BY <1>5, <2>3, <2>5 DEF m
  <2>7. ASSUME NEW i \in 1 .. n PROVE TimeOf(log, N, i) = TimeOf(log, n, i)
    <3>1. (\E j \in U : j <= i) <=> (\E j \in T : j <= i)
      BY <1>1, <1>4
    <3>2. QED
      BY <1>5, <2>2, <2>3, <3>1
  <2>8. QED
    BY <2>4, <2>5, <2>6, <2>7
<1>10. QED
  BY <1>8, <1>9

LEMMA ConvertMessageInv ==
  ASSUME ConverterAssumption, ConverterInv, ConvertMessage
  PROVE  ConverterInv'
<1> DEFINE N == taken + 1
           L == Len(parts)
           m == source[taken']
           x == FormatLogEntry(m, time_base')
           written == [parts EXCEPT ![L] = Append(@, x)]
           size == file_size + LineSize(x)
<1>1. /\ converting = "writing" /\ taken < Len(source) /\ taken' = N
      /\ time_base' = IF time_base = 0 THEN m.time ELSE time_base
      /\ source' = source /\ db' = db /\ converting' = converting
      /\ IF size >= SizeLimit THEN parts' = Append(written, <<>>) /\ file_size' = 0
         ELSE parts' = written /\ file_size' = size
  BY DEF ConvertMessage, SizeOfNext
<1>2. /\ source \in Seq(Messages) /\ taken \in 0 .. Len(source) /\ time_base \in Int
      /\ parts \in Seq(Seq(Written)) /\ BaseInv /\ SizesInv /\ LinesInv /\ db \in Databases
  BY <1>1 DEF ConverterInv, ConverterTypes
<1>3. /\ Len(source) \in Nat /\ taken \in Nat /\ N \in 1 .. Len(source) /\ N \in Nat \ {0}
      /\ N \in 0 .. Len(source)
  BY <1>1, <1>2
<1>4. m \in Messages /\ m = source[N] /\ SizeLimit \in Nat \ {0}
  BY <1>1, <1>2, <1>3 DEF ConverterAssumption
<1>5. /\ BaseInv' /\ time_base' \in Int
      /\ \A i \in 1 .. taken : TimeOf(source, N, i) = TimeOf(source, taken, i)
      /\ TimeOf(source, N, N) = m.time - time_base'
  <2>1. BaseMoves(source, taken)
    BY <1>1, <1>2, <1>3, TimesKept
  <2>2. time_base' = NextBase(source, taken)
    BY <1>1, <1>2, <1>4 DEF NextBase, BaseInv
  <2>3. QED
    BY <1>1, <1>4, <2>1, <2>2 DEF BaseMoves, BaseInv
<1> HIDE DEF m
<1>6. x \in Written /\ SameButTime(db, x, m) /\ x.time = m.time - time_base'
  BY <1>2, <1>4, <1>5, WrittenIsRight
<1> HIDE DEF x
<1>7. LineSize(x) \in Nat
  BY <1>6 DEF Written, LineSize
<1> HIDE DEF size
<1>8. /\ parts # <<>> /\ L \in 1 .. L /\ L \in Nat /\ parts[L] \in Seq(Written)
      /\ file_size = PartSize(parts[L]) /\ file_size < SizeLimit
  BY <1>2 DEF SizesInv
<1> DEFINE grown == Append(parts[L], x)
<1>9. /\ grown \in Seq(Written) /\ written \in Seq(Seq(Written)) /\ Len(written) = L
      /\ written[L] = grown /\ \A p \in 1 .. L - 1 : written[p] = parts[p]
  BY <1>2, <1>6, <1>8
<1>10. PartSize(grown) = size /\ size - LineSize(Last(grown)) < SizeLimit /\ size \in Nat
  <2>1. PartSize(grown) = PartSize(parts[L]) + LineSize(x) /\ PartSize(parts[L]) \in Nat
    BY <1>6, <1>8, PartSizes
  <2>2. Last(grown) = x
    BY <1>6, <1>8 DEF Last
  <2> HIDE DEF grown
  <2>3. QED
    BY <1>4, <1>7, <1>8, <2>1, <2>2 DEF size
<1>11. FlattenSeq(written) = Append(FlattenSeq(parts), x)
  BY <1>2, <1>6, <1>8, FlattenWritten
<1> HIDE DEF written, grown, N
<1>12. FlattenSeq(parts) \in Seq(Written) /\ FlattenSeq(written) \in Seq(Written)
  BY <1>2, <1>9, FlattenTyped
<1>13. FlattenSeq(parts') = FlattenSeq(written)
  <2>1. CASE size >= SizeLimit
    <3> DEFINE a == FlattenSeq(written)
    <3>1. <<>> \in Seq(Written)
      OBVIOUS
    <3>2. FlattenSeq(Append(written, <<>>)) = a \o <<>>
      BY <1>9, <3>1, FlattenAppend
    <3> HIDE DEF a
    <3>3. a \o <<>> = a
      <4>1. a \in Seq(Written)
        BY <1>12 DEF a
      <4>2. QED
        BY <4>1
    <3>4. QED
      BY <1>1, <2>1, <3>2, <3>3 DEF a
  <2>2. CASE ~(size >= SizeLimit)
    BY <1>1, <2>2
  <2>3. QED
    BY <2>1, <2>2
<1>14. parts' \in Seq(Seq(Written)) /\ SizesInv'
  <2>1. CASE size >= SizeLimit
    <3>1. parts' = Append(written, <<>>) /\ file_size' = 0 /\ <<>> \in Seq(Written)
      BY <1>1, <2>1
    <3>2. /\ parts' \in Seq(Seq(Written)) /\ Len(parts') = L + 1 /\ parts'[L + 1] = <<>>
          /\ parts' # <<>> /\ \A p \in 1 .. L : parts'[p] = written[p]
      <4> DEFINE none == <<>>
                 W == Seq(Written)
      <4>1. written \in Seq(W) /\ none \in W /\ Len(written) = L
        BY <1>9, <3>1
      <4> HIDE DEF none, W
      <4>2. /\ Append(written, none) \in Seq(W) /\ Append(written, none) # <<>>
            /\ Len(Append(written, none)) = L + 1 /\ Append(written, none)[L + 1] = none
            /\ \A p \in 1 .. L : Append(written, none)[p] = written[p]
        BY <4>1, AppendProperties
      <4>3. QED
        BY <3>1, <4>2 DEF none, W
    <3>3. ASSUME NEW p \in 1 .. (L + 1) - 1 PROVE LeftFull(parts'[p])
      <4>1. CASE p = L
        <5>1. parts'[p] = grown
          BY <1>8, <1>9, <3>2, <4>1
        <5>2. LeftFull(grown)
          BY <1>10, <2>1 DEF LeftFull
        <5>3. QED
          BY <5>1, <5>2
      <4>2. CASE p # L
        <5>1. p \in 1 .. L - 1 /\ p \in 1 .. L
          BY <1>8, <4>2
        <5>2. parts'[p] = parts[p]
          BY <1>9, <3>2, <5>1
        <5>3. QED
          BY <1>2, <5>1, <5>2 DEF SizesInv
      <4>3. QED
        BY <4>1, <4>2
    <3>4. 0 < SizeLimit
      BY <1>4
    <3>5. QED
      BY <3>1, <3>2, <3>3, <3>4, PartSizeNone DEF SizesInv
  <2>2. CASE ~(size >= SizeLimit)
    <3>1. parts' = written /\ file_size' = size
      BY <1>1, <2>2
    <3>2. \A p \in 1 .. L - 1 : LeftFull(parts[p])
      BY <1>2 DEF SizesInv
    <3>3. parts' # <<>> /\ size < SizeLimit
      BY <1>4, <1>8, <1>9, <1>10, <2>2, <3>1
    <3>4. QED
      BY <1>9, <1>10, <3>1, <3>2, <3>3 DEF SizesInv
  <2>3. QED
    BY <2>1, <2>2
<1>15. LinesInv'
  <2> DEFINE old == FlattenSeq(parts)
             new == FlattenSeq(parts')
  <2>1. old \in Seq(Written) /\ Len(old) = taken /\ new = Append(old, x)
        /\ \A i \in 1 .. taken : LineRight(db, source, taken, old[i], i)
    BY <1>2, <1>11, <1>12, <1>13 DEF LinesInv
  <2> HIDE DEF old, new
  <2>2. Len(new) = N /\ new[N] = x /\ \A i \in 1 .. taken : new[i] = old[i]
    BY <1>3, <1>6, <2>1 DEF N
  <2>3. \A i \in 1 .. N : i \in 1 .. taken \/ i = N
    BY <1>3 DEF N
  <2>4. LineRight(db, source, N, new[N], N)
    BY <1>4, <1>5, <1>6, <2>2 DEF LineRight
  <2>5. \A i \in 1 .. taken : LineRight(db, source, N, new[i], i)
    BY <1>5, <2>1, <2>2 DEF LineRight
  <2>6. \A i \in 1 .. N : LineRight(db, source, N, new[i], i)
    BY <2>3, <2>4, <2>5
  <2>7. QED
    BY <1>1, <2>2, <2>6 DEF LinesInv, new
<1>16. ConverterTypes'
  BY <1>1, <1>2, <1>3, <1>5, <1>14 DEF ConverterTypes
<1>17. QED
  BY <1>1, <1>5, <1>14, <1>15, <1>16 DEF ConverterInv

LEMMA ConvertsInv ==
  ASSUME ConverterAssumption, ConverterInv, Converts
  PROVE  ConverterInv'
BY ConvertInv, ConvertMessageInv, ConverterEnds DEF Converts

-----------------------------------------------------------------------------
(* The theorems. *)

TextInv == LoaderInv /\ ConverterInv

(* What the loader keeps and what the converter has written, after any steps  *)
(* of both, whatever the files, the log, the database and the size limit.    *)
THEOREM TextInvariant == Spec => []TextInv
<1> USE LoaderAssumption, ConverterAssumption
<1>1. Init => TextInv
  BY LoaderInitInv, ConverterInitInv DEF Init, TextInv
<1>2. TextInv /\ [Next]_vars => TextInv'
  <2> SUFFICES ASSUME TextInv, [Next]_vars PROVE TextInv'
    OBVIOUS
  <2>1. LoaderInv /\ ConverterInv
    BY DEF TextInv
  <2>2. ASSUME UNCHANGED converterVars PROVE ConverterInv'
    BY <2>1, <2>2, ConverterStays
  <2>3. ASSUME UNCHANGED loaderVars PROVE LoaderInv'
    BY <2>1, <2>3, LoaderStays
  <2>4. CASE LoadFile
    <3>1. PICK f \in Files : LoadLogFile(f)
      BY <2>4 DEF LoadFile
    <3>2. f \in LogFiles
      BY DEF LoaderAssumption
    <3>3. LoaderInv'
      BY <2>1, <3>1, <3>2, LoadLogFileInv
    <3>4. QED
      BY <2>2, <2>4, <3>3 DEF LoadFile, TextInv
  <2>5. CASE Loads /\ UNCHANGED converterVars
    BY <2>1, <2>2, <2>5, LoadsInv DEF TextInv
  <2>6. CASE loading = "no" /\ Converts /\ UNCHANGED loaderVars
    BY <2>1, <2>3, <2>6, ConvertsInv DEF TextInv
  <2>7. CASE UNCHANGED vars
    BY <2>2, <2>3, <2>7 DEF vars, TextInv
  <2>8. QED
    BY <2>4, <2>5, <2>6, <2>7 DEF Next
<1>3. QED
  BY <1>1, <1>2, PTL DEF Spec

(* Whatever file is at hand, each of its lines with data whose fields can be  *)
(* told apart comes out of the parser of its format with the fields its       *)
(* pattern says, whatever the format and however long the data.              *)
THEOREM FieldsRight == Spec => []FieldsAreTheLines
<1>1. TextInv => FieldsAreTheLines
  <2> SUFFICES ASSUME TextInv, NEW n \in DOMAIN file.lines, file.lines[n] # Noise,
                      file.lines[n][1].data # <<>>,
                      Unambiguous(file.format, file.lines[n][1])
               PROVE  Parse(file.format, Line(file.format, file.lines[n][1]))
                        = <<Told(file.lines[n][1])>>
    BY DEF FieldsAreTheLines
  <2> DEFINE told == file.lines[n]
             m == told[1]
  <2>1. file.format \in Formats /\ told \in Seq(Messages) /\ Len(told) <= 1
    BY DEF TextInv, LoaderInv, LoaderTypes, LogFiles
  <2>2. told # <<>> /\ m.data # <<>> /\ Unambiguous(file.format, m)
    BY DEF Noise
  <2> HIDE DEF told
  <2>3. m \in Messages
    BY <2>1, <2>2
  <2>4. RightFields(Parse(file.format, Line(file.format, m)), m)
    BY <2>1, <2>2, <2>3, LinesRead
  <2>5. QED
    BY <2>2, <2>4 DEF RightFields, told
<1>2. QED
  BY <1>1, TextInvariant, PTL

(* Whatever is loaded, and whatever was loaded before with the same parser,   *)
(* an entry is marked as changed exactly when its data differ from those of   *)
(* the last entry of its id in the file, and is given the time of the last    *)
(* one in any.                                                               *)
THEOREM ChangesMarked == Spec => []ChangesAreChanges
<1>1. TextInv => ChangesAreChanges
  <2> SUFFICES ASSUME TextInv, NEW j \in DOMAIN created
               PROVE  ChangeRight(created, j)
    BY DEF ChangesAreChanges, ChangeRight
  <2>1. ChangesInv /\ DOMAIN created = 1 .. Len(created)
    BY DEF TextInv, LoaderInv, LoaderTypes, IsSequence
  <2>2. QED
    BY <2>1 DEF ChangesInv
<1>2. QED
  BY <1>1, TextInvariant, PTL

(* However long the log and whatever the size of a part, the parts hold every *)
(* message taken so far once and in order, its channel and name as the        *)
(* converter writes them and its time from the first that has one, and a part *)
(* is left exactly when it has reached its size.                             *)
THEOREM PartsHoldTheLog == Spec => []PartsAreTheLog
<1>1. TextInv => PartsAreTheLog
  <2> SUFFICES ASSUME TextInv PROVE PartsAreTheLog
    OBVIOUS
  <2>1. CASE NotBegun
    <3>1. Len(parts) = 0 /\ FlattenSeq(parts) = <<>> /\ taken = 0
      BY <2>1, FlattenEmpty DEF NotBegun
    <3>2. QED
      BY <3>1 DEF PartsAreTheLog
  <2>2. CASE SizesInv /\ LinesInv
    BY <2>2 DEF PartsAreTheLog, SizesInv, LinesInv, LeftFull, LineRight
  <2>3. QED
    BY <2>1, <2>2 DEF TextInv, ConverterInv
<1>2. QED
  BY <1>1, TextInvariant, PTL

=============================================================================
