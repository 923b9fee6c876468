------------------------- MODULE SegmentedParserProofs -------------------------
(***************************************************************************)
(* Theorems about SegmentedParser, for any text, number of threads, format   *)
(* and capacity: first what the ranges of LogChunks are and what the threads *)
(* parse from them, then the segment files and the lists of rows.            *)
(***************************************************************************)
EXTENDS SegmentedParser, Induction

Bytes == Kinds \cup {Newline}

(* byte q of the file is a newline. *)
IsNewline(file, q) == ByteAt(file, q) = Newline

-----------------------------------------------------------------------------
(* Where the ranges end. *)

LEMMA NextNewline ==
  ASSUME NEW file, NEW limit \in Nat, NEW from \in 0 .. limit
  PROVE  /\ PastNewline(file, from, limit) \in from .. limit
         /\ PastNewline(file, from, limit) # limit =>
               /\ PastNewline(file, from, limit) # 0
               /\ IsNewline(file, PastNewline(file, from, limit) - 1)
               /\ from < PastNewline(file, from, limit)
         /\ \A q \in from .. limit - 1 : IsNewline(file, q)
                                            => PastNewline(file, from, limit) <= q + 1
<1> DEFINE newlines == {p \in from .. limit - 1 : ByteAt(file, p) = Newline}
           e == PastNewline(file, from, limit)
<1>1. newlines \in SUBSET Nat /\ newlines \subseteq from .. limit - 1
  OBVIOUS
<1>2. CASE newlines = {}
  <2>1. e = limit
    BY <1>2 DEF PastNewline
  <2>2. \A q \in from .. limit - 1 : ~IsNewline(file, q)
    BY <1>2 DEF IsNewline
  <2> HIDE DEF e, newlines
  <2>3. QED
    BY <2>1, <2>2 DEF e
<1>3. CASE newlines # {}
  <2> DEFINE Cut(p) == p - 1 \in newlines /\ \A q \in newlines : p - 1 <= q
  <2>1. PICK m \in newlines : \A q \in newlines : m <= q
    <3> HIDE DEF newlines
    <3>1. QED
      BY <1>1, <1>3, Smallest
  <2>2. m + 1 \in 1 .. limit /\ (m + 1) - 1 = m
    BY <1>1
  <2>3. e = CHOOSE p \in 1 .. limit : Cut(p)
    BY <1>3 DEF PastNewline
  <2>4. Cut(m + 1)
    BY <2>1, <2>2
  <2> HIDE DEF Cut
  <2>5. e \in 1 .. limit /\ Cut(e)
    <3> HIDE DEF e
    <3>1. QED
      BY <2>2, <2>3, <2>4
  <2>6. e - 1 \in newlines /\ \A q \in newlines : e - 1 <= q
    BY <2>5 DEF Cut
  <2>7. IsNewline(file, e - 1) /\ e - 1 \in from .. limit - 1
    BY <2>6 DEF IsNewline
  <2>8. \A q \in from .. limit - 1 : IsNewline(file, q) => e - 1 <= q
    BY <2>6 DEF IsNewline
  <2> HIDE DEF e, newlines
  <2>9. e \in from .. limit /\ e # 0 /\ from < e
    BY <2>5, <2>7
  <2>10. \A q \in from .. limit - 1 : IsNewline(file, q) => e <= q + 1
    BY <2>5, <2>8
  <2>11. QED
    BY <2>7, <2>9, <2>10 DEF e
<1>4. QED
  BY <1>2, <1>3

LEMMA NominalFacts ==
  ASSUME NEW file, Len(file) \in Nat, Len(file) # 0, NEW t \in Nat
  PROVE  /\ Nominal(file, t) \in 0 .. Len(file) - 1
         /\ Nominal(file, t) <= Nominal(file, t + 1)
<1> DEFINE size == Len(file)
           c == size \div NumThreads
<1>1. c \in Nat /\ size \in Nat
  BY ChunksAssumption
<1>2. /\ Nominal(file, t) = IF t * c >= size THEN size - 1 ELSE t * c
      /\ Nominal(file, t + 1) = IF (t + 1) * c >= size THEN size - 1 ELSE (t + 1) * c
  BY DEF Nominal
<1> HIDE DEF c
<1>3. (t + 1) * c = t * c + c /\ t * c \in Nat
  BY <1>1
<1> DEFINE x == t * c
           y == (t + 1) * c
<1>4. x \in Nat /\ y = x + c
  BY <1>3
<1> HIDE DEF size, x, y
<1>5. Nominal(file, t) = (IF x >= size THEN size - 1 ELSE x)
      /\ Nominal(file, t + 1) = (IF y >= size THEN size - 1 ELSE y)
  BY <1>2 DEF x, y
<1>6. size # 0
  BY DEF size
<1>7. QED
  BY <1>1, <1>4, <1>5, <1>6 DEF size

(* The recursion that defines RangeEnd. *)
NextEnd(file, t, end) == IF t = NumThreads \/ end >= Len(file) THEN Len(file)
                         ELSE CutAfter(file, Nominal(file, t))

LEMMA CutIsInside ==
  ASSUME NEW file, Len(file) \in Nat, Len(file) # 0, NEW t \in Nat
  PROVE  /\ CutAfter(file, Nominal(file, t)) \in 0 .. Len(file)
         /\ CutAfter(file, Nominal(file, t)) <= CutAfter(file, Nominal(file, t + 1))
         /\ CutAfter(file, Nominal(file, t)) # Len(file) =>
               IsNewline(file, CutAfter(file, Nominal(file, t)) - 1)
<1> DEFINE size == Len(file)
           m == Nominal(file, t)
           n == Nominal(file, t + 1)
           a == CutAfter(file, m)
           b == CutAfter(file, n)
<1>1. m \in 0 .. size - 1 /\ n \in 0 .. size - 1 /\ m <= n /\ size \in Nat
  <2>1. t + 1 \in Nat
    OBVIOUS
  <2>2. m \in 0 .. size - 1 /\ m <= n
    BY NominalFacts
  <2>3. n \in 0 .. size - 1
    BY <2>1, NominalFacts
  <2>4. QED
    BY <2>2, <2>3
<1> HIDE DEF size, m, n
<1>2. m \in 0 .. size /\ n \in 0 .. size
  BY <1>1
<1>3. a = PastNewline(file, m, size) /\ b = PastNewline(file, n, size)
  BY DEF CutAfter, size
<1> HIDE DEF a, b
<1>4. /\ a \in m .. size /\ (a # size => IsNewline(file, a - 1))
      /\ \A q \in m .. size - 1 : IsNewline(file, q) => a <= q + 1
  BY <1>1, <1>2, <1>3, NextNewline
<1>5. /\ b \in n .. size
      /\ b # size => b # 0 /\ IsNewline(file, b - 1) /\ n < b
  BY <1>1, <1>2, <1>3, NextNewline
<1>6. a <= b
  <2>1. CASE b = size
    BY <1>1, <1>4, <2>1
  <2>2. CASE b # size
    <3>1. b - 1 \in m .. size - 1 /\ IsNewline(file, b - 1)
      BY <1>1, <1>5, <2>2
    <3>2. a <= (b - 1) + 1
      BY <1>4, <3>1
    <3>3. QED
      BY <1>1, <1>4, <1>5, <3>2
  <2>3. QED
    BY <2>1, <2>2
<1>7. a \in 0 .. size
  BY <1>1, <1>4
<1>8. QED
  BY <1>4, <1>6, <1>7 DEF a, b, m, n, size

LEMMA RangeEnds ==
  ASSUME NEW file \in Seq(Bytes)
  PROVE  /\ RangeEnd(file)[0] = 0
         /\ \A t \in 1 .. NumThreads :
               RangeEnd(file)[t] = NextEnd(file, t, RangeEnd(file)[t - 1])
<1> DEFINE size == Len(file)
           N == NumThreads
           step == [t \in 1 .. N |-> [v \in Nat |-> NextEnd(file, t, v)]]
           Concrete(F) == F = [t \in 0 .. N |->
              IF t = 0 THEN 0
              ELSE IF t = NumThreads \/ F[t - 1] >= size THEN size
              ELSE CutAfter(file, Nominal(file, t))]
           I == CHOOSE F : Concrete(F)
<1>1. N \in Nat \ {0} /\ size \in Nat
  BY ChunksAssumption
<1>2. RangeEnd(file) = I
  BY DEF RangeEnd
<1>3. ASSUME NEW t \in 1 .. N, NEW v \in Nat PROVE NextEnd(file, t, v) \in Nat
  <2>1. CASE t = NumThreads \/ v >= size
    BY <1>1, <2>1 DEF NextEnd
  <2>2. CASE ~(t = NumThreads \/ v >= size)
    <3>1. size # 0 /\ t \in Nat
      BY <1>1, <2>2
    <3>2. CutAfter(file, Nominal(file, t)) \in 0 .. size
      BY <1>1, <3>1, CutIsInside
    <3>3. QED
      BY <1>1, <2>2, <3>2 DEF NextEnd
  <2>3. QED
    BY <2>1, <2>2
<1>4. 0 \in Nat /\ 0 + 1 = 1 /\ 0 <= N /\ N \in Nat
  BY <1>1
<1>5. StepsOn(step, 0, N, Nat)
  BY <1>3, <1>4 DEF StepsOn
<1>6. PICK g : RunsOn(g, step, 0, 0, N, Nat)
  <2> HIDE DEF step, N
  <2>1. QED
    BY <1>4, <1>5, IntervalRecursion
<1>7. Concrete(g)
  <2>1. g \in [0 .. N -> Nat] /\ g[0] = 0 /\ \A t \in 1 .. N : g[t] = step[t][g[t - 1]]
    BY <1>4, <1>6 DEF RunsOn
  <2>2. ASSUME NEW t \in 1 .. N PROVE g[t] = NextEnd(file, t, g[t - 1])
    <3>1. g[t - 1] \in Nat
      BY <1>1, <2>1
    <3>2. QED
      BY <2>1, <3>1
  <2>3. \A t \in 0 .. N : t # 0 => t \in 1 .. N
    BY <1>1
  <2> HIDE DEF step
  <2>4. QED
    BY <2>1, <2>2, <2>3 DEF NextEnd
<1>8. Concrete(I)
  <2> HIDE DEF Concrete
  <2>1. QED
    BY <1>7
<1> HIDE DEF I
<1>9. I[0] = 0 /\ \A t \in 1 .. N : I[t] = NextEnd(file, t, I[t - 1])
  <2>1. 0 \in 0 .. N /\ \A t \in 1 .. N : t \in 0 .. N /\ t # 0
    BY <1>1
  <2>2. QED
    BY <1>8, <2>1 DEF NextEnd
<1>10. QED
  BY <1>2, <1>9

(* The ranges follow each other, and begin and end behind line ends.         *)
WholeRanges(file) ==
  /\ RangeEnd(file)[0] = 0 /\ RangeEnd(file)[NumThreads] = Len(file)
  /\ \A t \in 0 .. NumThreads :
        /\ RangeEnd(file)[t] \in 0 .. Len(file)
        /\ RangeEnd(file)[t] \notin {0, Len(file)} => IsNewline(file, RangeEnd(file)[t] - 1)
  /\ \A t \in 1 .. NumThreads : RangeEnd(file)[t - 1] <= RangeEnd(file)[t]

LEMMA RangesAreWhole ==
  ASSUME NEW file \in Seq(Bytes)
  PROVE  WholeRanges(file)
<1> DEFINE size == Len(file)
           N == NumThreads
           e == RangeEnd(file)
           Good(t) == /\ e[t] \in 0 .. size
                      /\ e[t] \notin {0, size} => IsNewline(file, e[t] - 1)
<1>1. N \in Nat \ {0} /\ size \in Nat
  BY ChunksAssumption
<1>2. e[0] = 0 /\ \A t \in 1 .. N : e[t] = NextEnd(file, t, e[t - 1])
  BY RangeEnds
<1>3. ASSUME NEW t \in 1 .. N PROVE Good(t)
  <2>1. CASE t = NumThreads \/ e[t - 1] >= size
    BY <1>1, <1>2, <2>1 DEF NextEnd
  <2>2. CASE ~(t = NumThreads \/ e[t - 1] >= size)
    <3>1. e[t] = CutAfter(file, Nominal(file, t))
      BY <1>2, <2>2 DEF NextEnd
    <3>2. CASE size # 0
      <4>1. t \in Nat
        BY <1>1
      <4>2. QED
        BY <1>1, <3>1, <3>2, <4>1, CutIsInside
    <3>3. CASE size = 0
      <4> DEFINE T == {n \in Nat : n \in 0 .. N => e[n] = 0}
      <4>1. 0 \in T
        BY <1>2
      <4>2. ASSUME NEW n \in 0 .. N - 1, n \in T PROVE n + 1 \in T
        <5>1. n \in 0 .. N /\ n + 1 \in 1 .. N /\ (n + 1) - 1 = n
          BY <1>1
        <5>2. e[n + 1] = NextEnd(file, n + 1, e[n]) /\ e[n] = 0
          BY <1>2, <4>2, <5>1
        <5>3. e[n + 1] = 0
          BY <3>3, <5>2 DEF NextEnd
        <5>4. QED
          BY <5>1, <5>3
      <4> HIDE DEF T
      <4>3. \A n \in 0 .. N : n \in T
        BY <1>1, <4>1, <4>2, IntervalInduction
      <4>4. t - 1 \in 0 .. N
        BY <1>1
      <4>5. e[t - 1] = 0
        BY <4>3, <4>4 DEF T
      <4>6. QED
        BY <2>2, <3>3, <4>5
    <3>4. QED
      BY <3>2, <3>3
  <2>3. QED
    BY <2>1, <2>2
<1>4. Good(0)
  BY <1>1, <1>2
<1>5. \A t \in 0 .. N : Good(t)
  <2> HIDE DEF Good
  <2>1. \A t \in 0 .. N : t = 0 \/ t \in 1 .. N
    BY <1>1
  <2>2. QED
    BY <1>3, <1>4, <2>1
<1>6. e[N] = size
  <2>1. N \in 1 .. N
    BY <1>1
  <2>2. QED
    BY <1>2, <2>1 DEF NextEnd
<1>7. ASSUME NEW t \in 1 .. N PROVE e[t - 1] <= e[t]
  <2>1. e[t - 1] \in 0 .. size /\ e[t] \in 0 .. size /\ t - 1 \in 0 .. N
    BY <1>1, <1>5
  <2>2. CASE t = N \/ e[t - 1] >= size
    <3>1. e[t] = size
      BY <1>2, <2>2 DEF NextEnd
    <3>2. QED
      BY <1>1, <2>1, <3>1
  <2>3. CASE ~(t = N \/ e[t - 1] >= size)
    <3>1. e[t] = CutAfter(file, Nominal(file, t)) /\ size # 0
      BY <1>1, <1>2, <2>1, <2>3 DEF NextEnd
    <3>2. CASE t - 1 = 0
      BY <1>1, <1>2, <2>1, <3>2
    <3>3. CASE t - 1 # 0
      <4> DEFINE s == t - 1
      <4>1. s \in 1 .. N /\ s \in Nat /\ s + 1 = t /\ s # NumThreads
        BY <1>1, <3>3
      <4>2. e[s] = NextEnd(file, s, e[s - 1]) /\ e[s] # size
        BY <1>1, <1>2, <2>1, <2>3, <4>1
      <4> HIDE DEF s
      <4>3. e[s] = CutAfter(file, Nominal(file, s))
        BY <4>1, <4>2 DEF NextEnd
      <4>4. CutAfter(file, Nominal(file, s)) <= CutAfter(file, Nominal(file, s + 1))
        BY <1>1, <3>1, <4>1, CutIsInside
      <4>5. QED
        BY <3>1, <4>1, <4>3, <4>4 DEF s
    <3>4. QED
      BY <3>2, <3>3
  <2>4. QED
    BY <2>2, <2>3
<1>8. QED
  BY <1>2, <1>5, <1>6, <1>7 DEF WholeRanges


-----------------------------------------------------------------------------
(* Newlines and line numbers. *)

Newlines(file, x) == Cardinality({q \in 0 .. x - 1 : IsNewline(file, q)})

LEMMA NewlinesCounted ==
  ASSUME NEW file, NEW x \in Nat
  PROVE  /\ Newlines(file, x) \in Nat
         /\ Newlines(file, x + 1) = Newlines(file, x) + (IF IsNewline(file, x) THEN 1 ELSE 0)
<1> DEFINE before(y) == {q \in 0 .. y - 1 : IsNewline(file, q)}
<1>1. IsFiniteSet(0 .. x - 1) /\ before(x) \in SUBSET (0 .. x - 1)
  <2>1. 0 \in Int /\ x - 1 \in Int
    OBVIOUS
  <2>2. QED
    BY <2>1, FS_Interval
<1>2. IsFiniteSet(before(x))
  BY <1>1, FS_Subset
<1>3. Cardinality(before(x)) \in Nat
  BY <1>2, FS_CardinalityType
<1>4. x \notin before(x)
  OBVIOUS
<1>5. before(x + 1) = IF IsNewline(file, x) THEN before(x) \cup {x} ELSE before(x)
  <2>1. (x + 1) - 1 = x /\ \A q : q \in 0 .. x <=> q \in 0 .. x - 1 \/ q = x
    OBVIOUS
  <2>2. QED
    BY <2>1
<1>6. Newlines(file, x) = Cardinality(before(x)) /\ Newlines(file, x + 1) = Cardinality(before(x + 1))
  BY DEF Newlines
<1> HIDE DEF before
<1>7. Cardinality(before(x) \cup {x}) = Cardinality(before(x)) + 1
  BY <1>2, <1>4, FS_AddElement
<1>8. QED
  BY <1>3, <1>5, <1>6, <1>7

LEMMA LineNumbers ==
  ASSUME NEW file, NEW p \in Nat
  PROVE  LineOf(file, p) = 1 + Newlines(file, p) /\ LineOf(file, p) \in Nat
<1>1. LineOf(file, p) = 1 + Newlines(file, p)
  BY DEF LineOf, Newlines, IsNewline
<1>2. QED
  BY <1>1, NewlinesCounted

-----------------------------------------------------------------------------
(* What a line is parsed to. *)

LineEntries == [line : Nat, timestamp : Nat, kind : Kinds]

ParserStates == [fmt : Nat, line : Nat, entries : Seq(LineEntries)]

LEMMA DetectFacts ==
  ASSUME NEW byte
  PROVE  \/ Detect(byte) = Unknown /\ \A f : ~Accepts(byte, f)
         \/ Detect(byte) \in Nat \ {Unknown} /\ Accepts(byte, Detect(byte))
<1>1. CASE byte \notin Kinds \/ byte.formats = {}
  BY <1>1 DEF Detect, Accepts
<1>2. CASE ~(byte \notin Kinds \/ byte.formats = {})
  <2> DEFINE S == byte.formats
             Least(f) == \A other \in S : f <= other
  <2>1. S \subseteq Nat \ {0} /\ S \in SUBSET Nat /\ S # {}
    BY <1>2, ChunksAssumption
  <2>2. Detect(byte) = CHOOSE f \in S : Least(f)
    BY <1>2 DEF Detect
  <2> HIDE DEF S
  <2>3. PICK m \in S : Least(m)
    BY <2>1, Smallest
  <2> HIDE DEF Least
  <2>4. Detect(byte) \in S
    BY <2>2, <2>3
  <2>5. QED
    BY <1>2, <2>1, <2>4 DEF Accepts, S, Unknown
<1>3. QED
  BY <1>1, <1>2

LEMMA NoUnknownAccepted ==
  ASSUME NEW byte
  PROVE  ~Accepts(byte, Unknown)
BY ChunksAssumption DEF Accepts, Unknown

LEMMA FormatFacts ==
  ASSUME NEW file, NEW arg \in Nat, OneFormat(file, arg)
  PROVE  /\ FileFormat(file, arg) \in Nat
         /\ arg # Unknown => FileFormat(file, arg) = arg
         /\ arg = Unknown => \A p \in AllStarts(file) :
               Detect(ByteAt(file, p)) \in {Unknown, FileFormat(file, arg)}
<1> DEFINE F == FileFormat(file, arg)
           D == Detected(file)
<1>1. CASE arg # Unknown
  BY <1>1 DEF FileFormat
<1>2. CASE arg = Unknown
  <2>1. \A p \in AllStarts(file) : Detect(ByteAt(file, p)) \in D \cup {Unknown}
    BY DEF Detected
  <2>2. \A f \in D : f \in Nat
    <3>1. \A f \in D : \E p \in AllStarts(file) : f = Detect(ByteAt(file, p))
      BY DEF Detected
    <3>2. QED
      BY <3>1, DetectFacts DEF Unknown
  <2>3. \A f, g \in D : f = g
    BY <1>2 DEF OneFormat
  <2>4. CASE D = {}
    BY <1>2, <2>1, <2>4 DEF FileFormat
  <2>5. CASE D # {}
    <3>1. F = CHOOSE f \in D : TRUE
      BY <1>2, <2>5 DEF FileFormat
    <3> HIDE DEF D, F
    <3>2. F \in D
      BY <2>5, <3>1
    <3>3. QED
      BY <1>2, <2>1, <2>2, <2>3, <3>2 DEF F
  <2>6. QED
    BY <2>4, <2>5
<1>3. QED
  BY <1>1, <1>2

(* The format a thread knows: none, or that of the file. *)
KnowsFormat(file, arg, known) == /\ known \in {Unknown, FileFormat(file, arg)}
                                 /\ arg # Unknown => known = arg

LEMMA LineTyped ==
  ASSUME NEW file, NEW p \in Nat, NEW acc \in ParserStates
  PROVE  ParseLine(file, p, acc) \in ParserStates
<1> DEFINE byte == ByteAt(file, p)
           as == IF acc.fmt = Unknown THEN Detect(byte) ELSE acc.fmt
           parses == as # Unknown /\ Accepts(byte, as)
           entry == Entry(file, p, acc.line + 1)
<1>1. acc.fmt \in Nat /\ acc.line \in Nat /\ acc.entries \in Seq(LineEntries)
  BY DEF ParserStates
<1>2. as \in Nat
  <2>1. Detect(byte) \in Nat
    BY DetectFacts DEF Unknown
  <2>2. QED
    BY <1>1, <2>1
<1>3. parses => Append(acc.entries, entry) \in Seq(LineEntries)
  <2>1. parses => entry \in LineEntries
    BY <1>1 DEF Entry, LineEntries, Accepts
  <2> HIDE DEF parses, entry
  <2>2. QED
    BY <1>1, <2>1, AppendProperties
<1> DEFINE f == IF parses THEN as ELSE acc.fmt
           es == IF parses THEN Append(acc.entries, entry) ELSE acc.entries
<1>4. ParseLine(file, p, acc) = [fmt |-> f, line |-> acc.line + 1, entries |-> es]
  BY DEF ParseLine
<1> HIDE DEF parses, as, entry
<1>5. f \in Nat
  <2>1. CASE parses
    BY <1>2, <2>1
  <2>2. CASE ~parses
    BY <1>1, <2>2
  <2>3. QED
    BY <2>1, <2>2
<1>6. es \in Seq(LineEntries)
  <2>1. CASE parses
    BY <1>3, <2>1
  <2>2. CASE ~parses
    BY <1>1, <2>2
  <2>3. QED
    BY <2>1, <2>2
<1>7. acc.line + 1 \in Nat
  BY <1>1
<1> HIDE DEF f, es
<1>8. QED
  BY <1>4, <1>5, <1>6, <1>7 DEF ParserStates

(* In a file of one format a line is an entry if that format accepts it.     *)
LEMMA LineParsed ==
  ASSUME NEW file, NEW arg \in Nat, OneFormat(file, arg), NEW p \in AllStarts(file),
         NEW acc \in ParserStates, KnowsFormat(file, arg, acc.fmt)
  PROVE  /\ KnowsFormat(file, arg, ParseLine(file, p, acc).fmt)
         /\ ParseLine(file, p, acc).line = acc.line + 1
         /\ ParseLine(file, p, acc).entries =
               IF Accepts(ByteAt(file, p), FileFormat(file, arg))
                 THEN Append(acc.entries, Entry(file, p, acc.line + 1))
                 ELSE acc.entries
<1> DEFINE byte == ByteAt(file, p)
           F == FileFormat(file, arg)
           as == IF acc.fmt = Unknown THEN Detect(byte) ELSE acc.fmt
           parses == as # Unknown /\ Accepts(byte, as)
           entry == Entry(file, p, acc.line + 1)
           r == ParseLine(file, p, acc)
<1>1. /\ r.fmt = (IF parses THEN as ELSE acc.fmt) /\ r.line = acc.line + 1
      /\ r.entries = (IF parses THEN Append(acc.entries, entry) ELSE acc.entries)
  BY DEF ParseLine
<1>2. /\ F \in Nat /\ (arg # Unknown => F = arg)
      /\ arg = Unknown => Detect(byte) \in {Unknown, F}
  BY FormatFacts
<1>3. ~Accepts(byte, Unknown)
  BY NoUnknownAccepted
<1>4. \/ Detect(byte) = Unknown /\ \A f : ~Accepts(byte, f)
      \/ Detect(byte) \in Nat \ {Unknown} /\ Accepts(byte, Detect(byte))
  BY DetectFacts
<1>5. acc.fmt \in {Unknown, F} /\ (arg # Unknown => acc.fmt = arg)
  BY DEF KnowsFormat
<1> HIDE DEF F, byte, entry, r
<1>6. (parses <=> Accepts(byte, F)) /\ (parses => as = F)
  <2>1. CASE acc.fmt # Unknown
    BY <1>3, <1>5, <2>1
  <2>2. CASE acc.fmt = Unknown /\ Detect(byte) = Unknown
    BY <1>4, <2>2
  <2>3. CASE acc.fmt = Unknown /\ Detect(byte) # Unknown
    BY <1>2, <1>4, <1>5, <2>3
  <2>4. QED
    BY <2>1, <2>2, <2>3
<1>7. KnowsFormat(file, arg, r.fmt)
  BY <1>1, <1>2, <1>5, <1>6 DEF KnowsFormat, F
<1>8. QED
  BY <1>1, <1>6, <1>7 DEF byte, F, entry, r


-----------------------------------------------------------------------------
(* The threads together parse what one would from the first line on.         *)

Numbers(file) == [n \in DOMAIN file |-> n - 1]

EntryStarts(file, arg) ==
  {p \in AllStarts(file) : Accepts(ByteAt(file, p), FileFormat(file, arg))}

EntriesOf(file, s) == [n \in DOMAIN s |-> Entry(file, s[n], LineOf(file, s[n]))]

(* What a parse of the bytes before x yields. *)
ParsedUpTo(file, arg, x) ==
  EntriesOf(file, Select(UpTo(Numbers(file), x), EntryStarts(file, arg)))

LEMMA EntryTyped ==
  ASSUME NEW file, NEW arg, NEW p \in EntryStarts(file, arg), p \in Nat
  PROVE  Entry(file, p, LineOf(file, p)) \in LineEntries
<1>1. ByteAt(file, p) \in Kinds
  BY DEF EntryStarts, Accepts
<1>2. LineOf(file, p) \in Nat
  BY LineNumbers
<1>3. QED
  BY <1>1, <1>2 DEF Entry, LineEntries

LEMMA EntriesAppend ==
  ASSUME NEW file, NEW arg, NEW s \in Seq(Nat \cap EntryStarts(file, arg)),
         NEW x \in Nat \cap EntryStarts(file, arg)
  PROVE  /\ EntriesOf(file, s) \in Seq(LineEntries)
         /\ EntriesOf(file, Append(s, x)) =
              Append(EntriesOf(file, s), Entry(file, x, LineOf(file, x)))
<1> DEFINE X == Nat \cap EntryStarts(file, arg)
           e(p) == Entry(file, p, LineOf(file, p))
           a == EntriesOf(file, s)
           b == EntriesOf(file, Append(s, x))
           N == Len(s)
<1>1. \A p \in X : e(p) \in LineEntries
  BY EntryTyped
<1>2. a = [n \in DOMAIN s |-> e(s[n])] /\ b = [n \in DOMAIN Append(s, x) |-> e(Append(s, x)[n])]
  BY DEF EntriesOf
<1>3. s \in Seq(X) /\ x \in X
  OBVIOUS
<1> HIDE DEF X, e, a, b
<1>4. /\ N \in Nat /\ DOMAIN s = 1 .. N /\ DOMAIN Append(s, x) = 1 .. N + 1
      /\ Append(s, x)[N + 1] = x /\ \A n \in 1 .. N : Append(s, x)[n] = s[n] /\ s[n] \in X
  BY <1>3, AppendProperties
<1> HIDE DEF N
<1>5. a = [n \in 1 .. N |-> a[n]] /\ \A n \in 1 .. N : a[n] = e(s[n]) /\ a[n] \in LineEntries
  BY <1>1, <1>2, <1>4
<1>6. a \in Seq(LineEntries) /\ Len(a) = N
  <2>1. IsList(a, N, LineEntries)
    BY <1>5 DEF IsList
  <2>2. QED
    BY <1>4, <2>1, ListIsSeq
<1>7. \A n \in 1 .. N + 1 : n = N + 1 \/ n \in 1 .. N
  BY <1>4
<1>8. b[N + 1] = e(x) /\ \A n \in 1 .. N : b[n] = a[n]
  <2>1. N + 1 \in 1 .. N + 1 /\ \A n \in 1 .. N : n \in 1 .. N + 1
    BY <1>4
  <2>2. QED
    BY <1>2, <1>4, <1>5, <2>1
<1>9. b \in Seq(LineEntries) /\ Len(b) = N + 1
  <2>1. b = [n \in 1 .. N + 1 |-> b[n]]
    BY <1>2, <1>4
  <2>2. \A n \in 1 .. N + 1 : b[n] \in LineEntries
    BY <1>1, <1>3, <1>5, <1>7, <1>8
  <2>3. IsList(b, N + 1, LineEntries) /\ N + 1 \in Nat
    BY <1>4, <2>1, <2>2 DEF IsList
  <2>4. QED
    BY <2>3, ListIsSeq
<1>10. /\ Append(a, e(x)) \in Seq(LineEntries) /\ Len(Append(a, e(x))) = N + 1
       /\ Append(a, e(x))[N + 1] = e(x) /\ \A n \in 1 .. N : Append(a, e(x))[n] = a[n]
  BY <1>1, <1>3, <1>4, <1>6, AppendProperties
<1>11. \A n \in 1 .. N + 1 : b[n] = Append(a, e(x))[n]
  BY <1>7, <1>8, <1>10
<1>12. b = Append(a, e(x))
  BY <1>9, <1>10, <1>11, SeqEqual
<1>13. QED
  BY <1>6, <1>12 DEF a, b, e

LEMMA NumbersTyped ==
  ASSUME NEW file \in Seq(Bytes)
  PROVE  /\ Numbers(file) \in Seq(Nat) /\ Len(Numbers(file)) = Len(file)
         /\ \A x \in 0 .. Len(file) - 1 : Numbers(file)[x + 1] = x
<1> DEFINE f == Numbers(file)
           N == Len(file)
<1>1. N \in Nat /\ f = [n \in 1 .. N |-> n - 1]
  BY DEF Numbers
<1> HIDE DEF f, N
<1>2. \A n \in 1 .. N : f[n] = n - 1 /\ f[n] \in Nat
  BY <1>1
<1>3. f = [n \in 1 .. N |-> f[n]]
  BY <1>1
<1>4. IsList(f, N, Nat)
  BY <1>2, <1>3 DEF IsList
<1>5. f \in Seq(Nat) /\ Len(f) = N
  BY <1>1, <1>4, ListIsSeq
<1>6. \A x \in 0 .. N - 1 : f[x + 1] = x
  <2>1. \A x \in 0 .. N - 1 : x + 1 \in 1 .. N /\ (x + 1) - 1 = x
    BY <1>1
  <2>2. QED
    BY <1>2, <2>1
<1>7. QED
  BY <1>5, <1>6 DEF f, N

LEMMA UpToGrows ==
  ASSUME NEW file \in Seq(Bytes), NEW arg
  PROVE  /\ ParsedUpTo(file, arg, 0) = <<>>
         /\ ParsedUpTo(file, arg, Len(file)) = EntriesOf(file, Select(Numbers(file), EntryStarts(file, arg)))
         /\ \A x \in 0 .. Len(file) : ParsedUpTo(file, arg, x) \in Seq(LineEntries)
         /\ \A x \in 0 .. Len(file) - 1 :
               ParsedUpTo(file, arg, x + 1) =
                 IF x \in EntryStarts(file, arg)
                   THEN Append(ParsedUpTo(file, arg, x), Entry(file, x, LineOf(file, x)))
                   ELSE ParsedUpTo(file, arg, x)
<1> DEFINE s == Numbers(file)
           G == EntryStarts(file, arg)
           N == Len(file)
<1>1. /\ s \in Seq(Nat) /\ Len(s) = N /\ N \in Nat /\ \A x \in 0 .. N - 1 : s[x + 1] = x
  BY NumbersTyped
<1>2. /\ UpTo(s, 0) = <<>> /\ UpTo(s, N) = s
      /\ \A x \in 0 .. N : UpTo(s, x) \in Seq(Nat)
      /\ \A x \in 0 .. N - 1 : UpTo(s, x + 1) = Append(UpTo(s, x), s[x + 1])
  <2> HIDE DEF s
  <2>1. QED
    BY <1>1, StartFacts
<1>3. \A x : ParsedUpTo(file, arg, x) = EntriesOf(file, Select(UpTo(s, x), G))
  BY DEF ParsedUpTo
<1> HIDE DEF s, G, N
<1>4. ParsedUpTo(file, arg, 0) = <<>>
  <2>1. Select(<<>>, G) = <<>>
    BY SelectEmpty
  <2>2. EntriesOf(file, <<>>) = <<>>
    BY DEF EntriesOf
  <2>3. QED
    BY <1>2, <1>3, <2>1, <2>2
<1>5. ASSUME NEW x \in 0 .. N
      PROVE  Select(UpTo(s, x), G) \in Seq(Nat \cap G)
  BY <1>2, SelectTyped
<1>6. ASSUME NEW x \in 0 .. N PROVE ParsedUpTo(file, arg, x) \in Seq(LineEntries)
  <2> DEFINE r == Select(UpTo(s, x), G)
  <2>1. r \in Seq(Nat \cap G) /\ ParsedUpTo(file, arg, x) = EntriesOf(file, r)
    BY <1>3, <1>5
  <2> HIDE DEF r
  <2>2. CASE Nat \cap G = {}
    <3>1. r = <<>>
      BY <2>1, <2>2
    <3>2. EntriesOf(file, <<>>) = <<>> /\ <<>> \in Seq(LineEntries)
      BY DEF EntriesOf
    <3>3. QED
      BY <2>1, <3>1, <3>2
  <2>3. CASE Nat \cap G # {}
    BY <2>1, <2>3, EntriesAppend DEF G
  <2>4. QED
    BY <2>2, <2>3
<1>7. ASSUME NEW x \in 0 .. N - 1
      PROVE  ParsedUpTo(file, arg, x + 1) =
               IF x \in G THEN Append(ParsedUpTo(file, arg, x), Entry(file, x, LineOf(file, x)))
                          ELSE ParsedUpTo(file, arg, x)
  <2>1. x \in 0 .. N /\ x \in Nat
    BY <1>1
  <2> DEFINE r == Select(UpTo(s, x), G)
             u == UpTo(s, x)
  <2>2. u \in Seq(Nat) /\ r \in Seq(Nat \cap G)
    BY <1>2, <1>5, <2>1
  <2>3. UpTo(s, x + 1) = Append(u, x)
    BY <1>1, <1>2
  <2> HIDE DEF u
  <2>4. Select(Append(u, x), G) = IF x \in G THEN Append(Select(u, G), x) ELSE Select(u, G)
    <3> DEFINE X == Nat
    <3>1. u \in Seq(X) /\ x \in X
      BY <2>1, <2>2
    <3> HIDE DEF X
    <3>2. QED
      BY <3>1, SelectAppend
  <2>5. r = Select(u, G) /\ ParsedUpTo(file, arg, x) = EntriesOf(file, r)
    BY <1>3 DEF u
  <2> HIDE DEF r
  <2>6. CASE x \in G
    <3>1. x \in Nat \cap G
      BY <2>1, <2>6
    <3>2. EntriesOf(file, Append(r, x)) = Append(EntriesOf(file, r), Entry(file, x, LineOf(file, x)))
      BY <2>2, <3>1, EntriesAppend DEF G
    <3>3. ParsedUpTo(file, arg, x + 1) = EntriesOf(file, Append(r, x))
      BY <1>3, <2>3, <2>4, <2>5, <2>6
    <3>4. QED
      BY <2>5, <2>6, <3>2, <3>3
  <2>7. CASE x \notin G
    <3>1. ParsedUpTo(file, arg, x + 1) = EntriesOf(file, r)
      BY <1>3, <2>3, <2>4, <2>5, <2>7
    <3>2. QED
      BY <2>5, <2>7, <3>1
  <2>8. QED
    BY <2>6, <2>7
<1>8. ParsedUpTo(file, arg, N) = EntriesOf(file, Select(s, G))
  BY <1>2, <1>3
<1>9. QED
  BY <1>4, <1>6, <1>7, <1>8 DEF N, G, s


(* A run of a thread over its range. *)
StepAt(file, starts, p, acc) == IF p - 1 \in starts THEN ParseLine(file, p - 1, acc) ELSE acc

ThreadBegins(file, t, arg) == [fmt |-> arg, line |-> StartLine(file, t), entries |-> <<>>]

ThreadRuns(g, file, t, arg) ==
  LET b == Begin(file, t)
      e == End(file, t)
  IN  /\ g \in [b .. e -> ParserStates] /\ g[b] = ThreadBegins(file, t, arg)
      /\ \A p \in b + 1 .. e : g[p] = StepAt(file, LineStarts(file, b, e), p, g[p - 1])
      /\ ParseRange(file, t, arg) = g[e].entries

LEMMA ThreadRanges ==
  ASSUME NEW file \in Seq(Bytes), NEW t \in 1 .. NumThreads
  PROVE  /\ Begin(file, t) \in 0 .. Len(file) /\ End(file, t) \in 0 .. Len(file)
         /\ Begin(file, t) <= End(file, t) /\ Len(file) \in Nat
         /\ StartLine(file, t) = Newlines(file, Begin(file, t))
<1>1. NumThreads \in Nat /\ Len(file) \in Nat
  BY ChunksAssumption
<1>2. WholeRanges(file)
  BY RangesAreWhole
<1>3. t - 1 \in 0 .. NumThreads /\ t \in 0 .. NumThreads
  BY <1>1
<1>4. StartLine(file, t) = Newlines(file, Begin(file, t))
  BY DEF StartLine, Newlines, IsNewline
<1>5. QED
  BY <1>1, <1>2, <1>3, <1>4 DEF WholeRanges, Begin, End

LEMMA ThreadBeginsTyped ==
  ASSUME NEW file \in Seq(Bytes), NEW t \in 1 .. NumThreads, NEW arg \in Nat
  PROVE  ThreadBegins(file, t, arg) \in ParserStates
<1>1. Begin(file, t) \in Nat /\ StartLine(file, t) = Newlines(file, Begin(file, t))
  BY ThreadRanges
<1>2. StartLine(file, t) \in Nat
  BY <1>1, NewlinesCounted
<1>3. <<>> \in Seq(LineEntries)
  OBVIOUS
<1>4. QED
  BY <1>2, <1>3 DEF ThreadBegins, ParserStates

LEMMA ThreadRunExists ==
  ASSUME NEW file \in Seq(Bytes), NEW t \in 1 .. NumThreads, NEW arg \in Nat
  PROVE  \E g : ThreadRuns(g, file, t, arg)
<1> DEFINE b == Begin(file, t)
           e == End(file, t)
           V == ParserStates
           S == LineStarts(file, b, e)
           v0 == ThreadBegins(file, t, arg)
           step == [p \in b + 1 .. e |-> [v \in V |-> StepAt(file, S, p, v)]]
           Concrete(F) == F = [p \in b .. e |->
              IF p = b THEN [fmt |-> arg, line |-> StartLine(file, t), entries |-> <<>>]
              ELSE IF p - 1 \in S THEN ParseLine(file, p - 1, F[p - 1])
              ELSE F[p - 1]]
           I == CHOOSE F : Concrete(F)
<1>1. b \in Nat /\ e \in Nat /\ b <= e /\ v0 \in V
  BY ThreadRanges, ThreadBeginsTyped
<1>2. ParseRange(file, t, arg) = I[e].entries
  BY DEF ParseRange
<1>3. ASSUME NEW p \in b + 1 .. e, NEW v \in V PROVE StepAt(file, S, p, v) \in V
  <2>1. p - 1 \in Nat
    BY <1>1
  <2>2. ParseLine(file, p - 1, v) \in V
    BY <2>1, LineTyped
  <2>3. QED
    BY <2>2 DEF StepAt
<1>4. StepsOn(step, b, e, V)
  BY <1>3 DEF StepsOn
<1>5. PICK g : RunsOn(g, step, v0, b, e, V)
  <2> HIDE DEF step, b, e, v0, V
  <2>1. QED
    BY <1>1, <1>4, IntervalRecursion
<1>6. g \in [b .. e -> V] /\ g[b] = v0
  BY <1>5 DEF RunsOn
<1>7. \A p \in b + 1 .. e : p \in b .. e /\ p - 1 \in b .. e /\ p # b
  BY <1>1
<1>8. \A p \in b + 1 .. e : g[p] = StepAt(file, S, p, g[p - 1])
  <2>1. TAKE p \in b + 1 .. e
  <2>2. g[p] = step[p][g[p - 1]] /\ g[p - 1] \in V
    BY <1>5, <1>6, <1>7 DEF RunsOn
  <2>3. QED
    BY <2>2
<1>9. \A p \in b .. e : p # b => p \in b + 1 .. e
  BY <1>1
<1>10. Concrete(g)
  <2>1. g = [p \in b .. e |-> g[p]]
    BY <1>6
  <2>2. \A p \in b .. e : g[p] =
          IF p = b THEN [fmt |-> arg, line |-> StartLine(file, t), entries |-> <<>>]
          ELSE IF p - 1 \in S THEN ParseLine(file, p - 1, g[p - 1])
          ELSE g[p - 1]
    <3> HIDE DEF S, b, e, V, step
    <3>1. QED
      BY <1>6, <1>8, <1>9 DEF StepAt, ThreadBegins
  <2> HIDE DEF S, b, e, V, step
  <2>3. QED
    BY <2>1, <2>2
<1>11. Concrete(I)
  <2> HIDE DEF Concrete
  <2>1. QED
    BY <1>10
<1> HIDE DEF I
<1>12. /\ I = [p \in b .. e |-> I[p]] /\ I[b] = v0
       /\ \A p \in b + 1 .. e : I[p] = StepAt(file, S, p, I[p - 1])
  <2>1. b \in b .. e
    BY <1>1
  <2> HIDE DEF S, b, e, V, step
  <2>2. QED
    BY <1>7, <1>11, <2>1 DEF StepAt, ThreadBegins
<1>13. \A p \in b .. e : I[p] \in V
  <2> DEFINE T == {p \in Nat : p \in b .. e => I[p] \in V}
  <2>1. b \in T
    BY <1>1, <1>12
  <2>2. ASSUME NEW p \in b .. e - 1, p \in T PROVE p + 1 \in T
    <3>1. p + 1 \in b + 1 .. e /\ p \in b .. e /\ (p + 1) - 1 = p /\ p + 1 \in Nat
      BY <1>1
    <3>2. I[p + 1] = StepAt(file, S, p + 1, I[p]) /\ I[p] \in V
      BY <1>12, <2>2, <3>1
    <3>3. I[p + 1] \in V
      BY <1>3, <3>1, <3>2
    <3>4. QED
      BY <3>1, <3>3
  <2>3. 0 \in T
    BY <1>1, <2>1
  <2>4. ASSUME NEW p \in 0 .. e - 1, p \in T PROVE p + 1 \in T
    <3>1. p + 1 \notin b .. e \/ p + 1 = b \/ p \in b .. e - 1
      BY <1>1
    <3>2. p + 1 \in Nat
      BY <1>1
    <3>3. QED
      BY <2>1, <2>2, <2>4, <3>1, <3>2
  <2> HIDE DEF T
  <2>5. \A p \in 0 .. e : p \in T
    BY <1>1, <2>3, <2>4, IntervalInduction
  <2>6. QED
    BY <1>1, <2>5 DEF T
<1>14. I \in [b .. e -> V]
  BY <1>12, <1>13
<1>15. ThreadRuns(I, file, t, arg)
  BY <1>2, <1>12, <1>14 DEF ThreadRuns
<1>16. QED
  BY <1>15


(* Where a line of a range starts, a line of the file does. *)
LEMMA StartsAgree ==
  ASSUME NEW file \in Seq(Bytes), NEW t \in 1 .. NumThreads,
         NEW x \in Begin(file, t) .. End(file, t) - 1
  PROVE  /\ x \in LineStarts(file, Begin(file, t), End(file, t)) <=> x \in AllStarts(file)
         /\ x \in AllStarts(file) <=> x = Begin(file, t) \/ IsNewline(file, x - 1)
<1> DEFINE b == Begin(file, t)
           e == End(file, t)
           N == Len(file)
<1>1. /\ b \in 0 .. N /\ e \in 0 .. N /\ b <= e /\ N \in Nat
      /\ b \notin {0, N} => IsNewline(file, b - 1)
  <2>1. NumThreads \in Nat
    BY ChunksAssumption
  <2>2. WholeRanges(file)
    BY RangesAreWhole
  <2>3. t - 1 \in 0 .. NumThreads
    BY <2>1
  <2>4. b \notin {0, N} => IsNewline(file, b - 1)
    BY <2>2, <2>3 DEF WholeRanges, Begin
  <2>5. QED
    BY <2>4, ThreadRanges
<1>2. x \in b .. e - 1
  OBVIOUS
<1>3. /\ x \in LineStarts(file, b, e) <=> x \in b .. e - 1 /\ (x = b \/ IsNewline(file, x - 1))
      /\ x \in AllStarts(file) <=> x \in 0 .. N - 1 /\ (x = 0 \/ IsNewline(file, x - 1))
  BY DEF LineStarts, AllStarts, IsNewline
<1> HIDE DEF b, e, N
<1>4. x \in 0 .. N - 1 /\ (x = 0 => x = b) /\ (x = b => b # N)
  BY <1>1, <1>2
<1>5. QED
  BY <1>1, <1>2, <1>3, <1>4 DEF b, e

(* One byte of a thread's run: its line is an entry or not. *)
StandsAt(file, arg, before, x, acc) ==
  /\ KnowsFormat(file, arg, acc.fmt)
  /\ before \o acc.entries = ParsedUpTo(file, arg, x)
  /\ x \in AllStarts(file) => acc.line + 1 = LineOf(file, x)

TakesByte(file, x, acc, r) == r = IF x \in AllStarts(file) THEN ParseLine(file, x, acc) ELSE acc

StandsBehind(file, arg, before, x, acc, r) ==
  /\ KnowsFormat(file, arg, r.fmt)
  /\ before \o r.entries = ParsedUpTo(file, arg, x + 1)
  /\ r.line = IF x \in AllStarts(file) THEN LineOf(file, x) ELSE acc.line

LEMMA ByteParsed ==
  ASSUME NEW file \in Seq(Bytes), NEW arg \in Nat, OneFormat(file, arg),
         NEW x \in 0 .. Len(file) - 1, NEW acc \in ParserStates,
         NEW before \in Seq(LineEntries), StandsAt(file, arg, before, x, acc),
         NEW r, TakesByte(file, x, acc, r)
  PROVE  StandsBehind(file, arg, before, x, acc, r)
<1> DEFINE entry == Entry(file, x, LineOf(file, x))
           u == ParsedUpTo(file, arg, x)
           v == ParsedUpTo(file, arg, x + 1)
           isEntry == x \in EntryStarts(file, arg)
<1>1. v = IF isEntry THEN Append(u, entry) ELSE u
  BY UpToGrows
<1>2. /\ x \in Nat /\ acc.entries \in Seq(LineEntries)
      /\ isEntry <=> x \in AllStarts(file) /\ Accepts(ByteAt(file, x), FileFormat(file, arg))
  BY DEF ParserStates, EntryStarts
<1>3. isEntry => entry \in LineEntries
  BY <1>2, EntryTyped
<1>4. /\ KnowsFormat(file, arg, acc.fmt) /\ before \o acc.entries = u
      /\ x \in AllStarts(file) => acc.line + 1 = LineOf(file, x)
      /\ r = IF x \in AllStarts(file) THEN ParseLine(file, x, acc) ELSE acc
  BY DEF StandsAt, TakesByte
<1> HIDE DEF entry, u, v
<1>5. CASE x \notin AllStarts(file)
  <2>1. r = acc
    BY <1>5, <1>4
  <2>2. v = u
    BY <1>1, <1>2, <1>5
  <2>3. QED
    BY <1>5, <1>4, <2>1, <2>2 DEF StandsBehind, v
<1>6. CASE x \in AllStarts(file)
  <2>1. r = ParseLine(file, x, acc) /\ acc.line + 1 = LineOf(file, x)
    BY <1>6, <1>4
  <2>2. /\ KnowsFormat(file, arg, r.fmt) /\ r.line = LineOf(file, x)
        /\ r.entries = IF Accepts(ByteAt(file, x), FileFormat(file, arg))
                         THEN Append(acc.entries, Entry(file, x, LineOf(file, x)))
                         ELSE acc.entries
    BY <1>6, <1>4, <2>1, LineParsed
  <2>3. r.entries = IF isEntry THEN Append(acc.entries, entry) ELSE acc.entries
    BY <1>2, <1>6, <2>2 DEF entry
  <2>4. before \o r.entries = v
    <3> HIDE DEF isEntry
    <3>1. CASE isEntry
      <4> DEFINE w == acc.entries
      <4>1. w \in Seq(LineEntries) /\ entry \in LineEntries /\ u = before \o w
        BY <1>2, <1>3, <1>4, <3>1
      <4>2. r.entries = Append(w, entry) /\ v = Append(u, entry)
        BY <1>1, <2>3, <3>1
      <4> HIDE DEF w
      <4>3. before \o Append(w, entry) = Append(before \o w, entry)
        BY <4>1
      <4>4. QED
        BY <4>1, <4>2, <4>3
    <3>2. CASE ~isEntry
      BY <1>1, <1>4, <2>3, <3>2
    <3>3. QED
      BY <3>1, <3>2
  <2>5. QED
    BY <1>6, <2>2, <2>4 DEF StandsBehind, v
<1>7. QED
  BY <1>5, <1>6

(* What a thread holds at byte p of its range. *)
AsFarAs(file, arg, b, p, acc) ==
  /\ KnowsFormat(file, arg, acc.fmt)
  /\ ParsedUpTo(file, arg, b) \o acc.entries = ParsedUpTo(file, arg, p)
  /\ acc.line = IF p = b THEN Newlines(file, b) ELSE LineOf(file, p - 1)

LEMMA ThreadParses ==
  ASSUME NEW file \in Seq(Bytes), NEW t \in 1 .. NumThreads, NEW arg \in Nat,
         OneFormat(file, arg), NEW g, ThreadRuns(g, file, t, arg)
  PROVE  \A p \in Begin(file, t) .. End(file, t) : AsFarAs(file, arg, Begin(file, t), p, g[p])
<1> DEFINE b == Begin(file, t)
           e == End(file, t)
           N == Len(file)
           Good(p) == AsFarAs(file, arg, b, p, g[p])
           T == {p \in Nat : p \in b .. e => Good(p)}
<1>1. /\ b \in 0 .. N /\ e \in 0 .. N /\ b <= e /\ N \in Nat
      /\ StartLine(file, t) = Newlines(file, b)
  BY ThreadRanges
<1>2. /\ g \in [b .. e -> ParserStates] /\ g[b] = ThreadBegins(file, t, arg)
      /\ \A p \in b + 1 .. e : g[p] = StepAt(file, LineStarts(file, b, e), p, g[p - 1])
  BY DEF ThreadRuns
<1>3. \A x \in b .. e - 1 :
         /\ x \in LineStarts(file, b, e) <=> x \in AllStarts(file)
         /\ x \in AllStarts(file) <=> x = b \/ IsNewline(file, x - 1)
  BY StartsAgree
<1>4. Good(b)
  <2>1. g[b].fmt = arg /\ g[b].entries = <<>> /\ g[b].line = Newlines(file, b)
    BY <1>1, <1>2 DEF ThreadBegins
  <2>2. KnowsFormat(file, arg, arg)
    BY FormatFacts DEF KnowsFormat
  <2>3. ParsedUpTo(file, arg, b) \in Seq(LineEntries)
    BY <1>1, UpToGrows
  <2>4. ParsedUpTo(file, arg, b) \o <<>> = ParsedUpTo(file, arg, b)
    BY <2>3
  <2> HIDE DEF b
  <2>5. QED
    BY <2>1, <2>2, <2>4 DEF AsFarAs
<1>5. ASSUME NEW x \in b .. e - 1, Good(x) PROVE Good(x + 1)
  <2> DEFINE acc == g[x]
             r == g[x + 1]
             before == ParsedUpTo(file, arg, b)
  <2>1. /\ x \in Nat /\ x \in 0 .. N - 1 /\ x \in b .. e /\ x + 1 \in b + 1 .. e
        /\ (x + 1) - 1 = x /\ x + 1 # b /\ (x # b => x - 1 \in Nat /\ (x - 1) + 1 = x)
    BY <1>1
  <2>2. acc \in ParserStates
    BY <1>2, <2>1
  <2>3. before \in Seq(LineEntries)
    BY <1>1, UpToGrows
  <2>4. r = IF x \in AllStarts(file) THEN ParseLine(file, x, acc) ELSE acc
    <3>1. r = StepAt(file, LineStarts(file, b, e), x + 1, acc)
      BY <1>2, <2>1
    <3> HIDE DEF r, acc, b, e
    <3>2. QED
      BY <1>3, <2>1, <3>1 DEF StepAt
  <2>5. /\ KnowsFormat(file, arg, acc.fmt) /\ before \o acc.entries = ParsedUpTo(file, arg, x)
        /\ acc.line = IF x = b THEN Newlines(file, b) ELSE LineOf(file, x - 1)
    BY <1>5 DEF AsFarAs
  <2> HIDE DEF acc, r, before, b, e
  <2>6. LineOf(file, x) = 1 + Newlines(file, x) /\ Newlines(file, x) \in Nat
    BY <2>1, LineNumbers, NewlinesCounted
  <2>7. x # b => /\ LineOf(file, x - 1) = 1 + Newlines(file, x - 1)
                 /\ Newlines(file, x - 1) \in Nat
                 /\ Newlines(file, x) =
                      Newlines(file, x - 1) + (IF IsNewline(file, x - 1) THEN 1 ELSE 0)
    <3>1. SUFFICES ASSUME x # b
                   PROVE  /\ LineOf(file, x - 1) = 1 + Newlines(file, x - 1)
                          /\ Newlines(file, x - 1) \in Nat
                          /\ Newlines(file, x) =
                               Newlines(file, x - 1) + (IF IsNewline(file, x - 1) THEN 1 ELSE 0)
      OBVIOUS
    <3> DEFINE y == x - 1
    <3>2. y \in Nat /\ y + 1 = x
      BY <2>1, <3>1
    <3> HIDE DEF y
    <3>3. /\ LineOf(file, y) = 1 + Newlines(file, y) /\ Newlines(file, y) \in Nat
          /\ Newlines(file, y + 1) = Newlines(file, y) + (IF IsNewline(file, y) THEN 1 ELSE 0)
      BY <3>2, LineNumbers, NewlinesCounted
    <3>4. QED
      BY <3>2, <3>3 DEF y
  <2>8. x \in AllStarts(file) => acc.line + 1 = LineOf(file, x)
    <3>1. SUFFICES ASSUME x \in AllStarts(file) PROVE acc.line + 1 = LineOf(file, x)
      OBVIOUS
    <3>2. CASE x = b
      BY <2>5, <2>6, <3>2
    <3>3. CASE x # b
      <4>1. IsNewline(file, x - 1)
        BY <1>3, <3>1, <3>3
      <4>2. QED
        BY <2>5, <2>6, <2>7, <3>3, <4>1
    <3>4. QED
      BY <3>2, <3>3
  <2>9. /\ KnowsFormat(file, arg, r.fmt)
        /\ before \o r.entries = ParsedUpTo(file, arg, x + 1)
        /\ r.line = IF x \in AllStarts(file) THEN LineOf(file, x) ELSE acc.line
    <3>1. x \in 0 .. Len(file) - 1
      BY <2>1
    <3>2. StandsAt(file, arg, before, x, acc)
      BY <2>5, <2>8 DEF StandsAt
    <3>3. TakesByte(file, x, acc, r)
      BY <2>4 DEF TakesByte
    <3>4. StandsBehind(file, arg, before, x, acc, r)
      BY <2>2, <2>3, <3>1, <3>2, <3>3, ByteParsed
    <3>5. QED
      BY <3>4 DEF StandsBehind
  <2>10. r.line = LineOf(file, x)
    <3>1. CASE x \in AllStarts(file)
      BY <2>9, <3>1
    <3>2. CASE x \notin AllStarts(file)
      <4>1. x # b /\ ~IsNewline(file, x - 1)
        BY <1>3, <3>2
      <4>2. QED
        BY <2>5, <2>6, <2>7, <2>9, <3>2, <4>1
    <3>3. QED
      BY <3>1, <3>2
  <2>11. QED
    BY <2>1, <2>9, <2>10 DEF AsFarAs, r, before
<1> HIDE DEF Good
<1>6. 0 \in T
  <2>1. 0 \in b .. e => 0 = b
    BY <1>1
  <2>2. QED
    BY <1>4, <2>1
<1>7. ASSUME NEW p \in 0 .. e - 1, p \in T PROVE p + 1 \in T
  <2>1. p + 1 \notin b .. e \/ p + 1 = b \/ p \in b .. e - 1
    BY <1>1
  <2>2. p + 1 \in Nat /\ (p \in b .. e - 1 => p \in b .. e)
    BY <1>1
  <2>3. CASE p + 1 = b
    BY <1>4, <2>2, <2>3
  <2>4. CASE p \in b .. e - 1
    <3>1. p \in b .. e /\ Good(p)
      BY <1>7, <2>2, <2>4
    <3>2. Good(p + 1)
      BY <1>5, <2>4, <3>1
    <3>3. QED
      BY <2>2, <3>2
  <2>5. QED
    BY <2>1, <2>2, <2>3, <2>4
<1> HIDE DEF T
<1>8. \A p \in 0 .. e : p \in T
  <2>1. e \in Nat
    BY <1>1
  <2> HIDE DEF e
  <2>2. QED
    BY <1>6, <1>7, <2>1, IntervalInduction
<1>9. \A p \in b .. e : Good(p)
  BY <1>1, <1>8 DEF T
<1>10. QED
  BY <1>9 DEF Good


LEMMA RangeTyped ==
  ASSUME NEW file \in Seq(Bytes), NEW t \in 1 .. NumThreads, NEW arg \in Nat
  PROVE  ParseRange(file, t, arg) \in Seq(LineEntries)
<1> DEFINE e == End(file, t)
<1>1. PICK g : ThreadRuns(g, file, t, arg)
  BY ThreadRunExists
<1>2. e \in Begin(file, t) .. e
  BY ThreadRanges
<1>3. g[e] \in ParserStates /\ ParseRange(file, t, arg) = g[e].entries
  BY <1>1, <1>2 DEF ThreadRuns
<1>4. QED
  BY <1>3 DEF ParserStates

LEMMA RangeParsed ==
  ASSUME NEW file \in Seq(Bytes), NEW t \in 1 .. NumThreads, NEW arg \in Nat,
         OneFormat(file, arg)
  PROVE  ParsedUpTo(file, arg, Begin(file, t)) \o ParseRange(file, t, arg)
           = ParsedUpTo(file, arg, End(file, t))
<1> DEFINE e == End(file, t)
<1>1. PICK g : ThreadRuns(g, file, t, arg)
  BY ThreadRunExists
<1>2. e \in Begin(file, t) .. e
  BY ThreadRanges
<1>3. ParseRange(file, t, arg) = g[e].entries
  BY <1>1 DEF ThreadRuns
<1>4. AsFarAs(file, arg, Begin(file, t), e, g[e])
  BY <1>1, <1>2, ThreadParses
<1>5. QED
  BY <1>3, <1>4 DEF AsFarAs

LEMMA RangesTyped ==
  ASSUME NEW file \in Seq(Bytes), NEW arg \in Nat
  PROVE  /\ [t \in 1 .. NumThreads |-> ParseRange(file, t, arg)] \in Seq(Seq(LineEntries))
         /\ Len([t \in 1 .. NumThreads |-> ParseRange(file, t, arg)]) = NumThreads
         /\ ParseRanges(file, arg) \in Seq(LineEntries)
<1> DEFINE ss == [t \in 1 .. NumThreads |-> ParseRange(file, t, arg)]
           N == NumThreads
<1>1. N \in Nat
  BY ChunksAssumption
<1>2. \A t \in 1 .. N : ss[t] \in Seq(LineEntries)
  BY RangeTyped
<1>3. ss = [t \in 1 .. N |-> ss[t]]
  OBVIOUS
<1>4. ParseRanges(file, arg) = FlattenSeq(ss)
  BY DEF ParseRanges
<1> HIDE DEF ss, N
<1>5. IsList(ss, N, Seq(LineEntries))
  BY <1>2, <1>3 DEF IsList
<1>6. ss \in Seq(Seq(LineEntries)) /\ Len(ss) = N
  BY <1>1, <1>5, ListIsSeq
<1>7. FlattenSeq(ss) \in Seq(LineEntries)
  BY <1>6, FlattenTyped
<1>8. QED
  BY <1>4, <1>6, <1>7 DEF ss, N

(* What the threads parse, one range after the other, is what a parse of the *)
(* file from its first line yields: the same lines with their line numbers.  *)
LEMMA RangesTogether ==
  ASSUME NEW file \in Seq(Bytes), NEW arg \in Nat, OneFormat(file, arg)
  PROVE  ParseRanges(file, arg) = ReferenceEntries(file, arg)
<1> DEFINE ss == [t \in 1 .. NumThreads |-> ParseRange(file, t, arg)]
           N == NumThreads
           upTo(t) == ParsedUpTo(file, arg, RangeEnd(file)[t])
<1>1. N \in Nat
  BY ChunksAssumption
<1>2. ss \in Seq(Seq(LineEntries)) /\ Len(ss) = N
  BY RangesTyped
<1>3. \A t \in 1 .. N : upTo(t - 1) \o ss[t] = upTo(t)
  BY RangeParsed DEF Begin, End
<1>4. upTo(0) = <<>> /\ upTo(N) = ReferenceEntries(file, arg)
  <2>1. RangeEnd(file)[0] = 0 /\ RangeEnd(file)[N] = Len(file)
    BY RangesAreWhole DEF WholeRanges
  <2>2. ReferenceEntries(file, arg) = EntriesOf(file, Select(Numbers(file), EntryStarts(file, arg)))
    BY DEF ReferenceEntries, ReferenceStarts, EntriesOf, Numbers, EntryStarts
  <2>3. QED
    BY <2>1, <2>2, UpToGrows
<1>5. ParseRanges(file, arg) = FlattenSeq(ss)
  BY DEF ParseRanges
<1> HIDE DEF ss, upTo, N
<1>6. PICK f : JoinsBy(f, ss, LineEntries)
  BY <1>2, FlattenSteps
<1>7. /\ f[0] = <<>> /\ f[N] = FlattenSeq(ss)
      /\ \A t \in 1 .. N : f[t] = f[t - 1] \o ss[t]
  BY <1>2, <1>6 DEF JoinsBy
<1> DEFINE T == {n \in Nat : n \in 0 .. N => f[n] = upTo(n)}
<1>8. 0 \in T
  BY <1>4, <1>7
<1>9. ASSUME NEW n \in 0 .. N - 1, n \in T PROVE n + 1 \in T
  <2>1. n \in 0 .. N /\ n + 1 \in 1 .. N /\ (n + 1) - 1 = n /\ n + 1 \in Nat
    BY <1>1
  <2>2. f[n] = upTo(n)
    BY <1>9, <2>1
  <2>3. f[n + 1] = upTo(n + 1)
    BY <1>3, <1>7, <2>1, <2>2
  <2>4. QED
    BY <2>1, <2>3
<1> HIDE DEF T
<1>10. \A n \in 0 .. N : n \in T
  BY <1>1, <1>8, <1>9, IntervalInduction
<1>11. N \in 0 .. N
  BY <1>1
<1>12. f[N] = upTo(N)
  BY <1>1, <1>10, <1>11 DEF T
<1>13. QED
  BY <1>4, <1>5, <1>7, <1>12

-----------------------------------------------------------------------------
(* The segments. *)

(* What an entry holds does not matter here: each is in some set.            *)
SegmentsOf(S) == [status : {"RUNNING", "DONE"}, write_count : Nat, entries : Seq(S)]

ClosedAndFull(segment) == /\ segment.status = "DONE"
                          /\ segment.write_count = SegmentCapacity
                          /\ Len(segment.entries) = SegmentCapacity

(* All segments before the last are closed and full, the last too when the   *)
(* next is to be opened; an entry counts unless it is being listed.          *)
SegmentsInv ==
  /\ \E S : segments \in Seq(SegmentsOf(S))
  /\ \A s \in DOMAIN segments : s # Len(segments) \/ pc = "open" => ClosedAndFull(segments[s])
  /\ pc \in {"merge", "list"} => segments # <<>>
  /\ pc = "parse" => segments = <<>>
  /\ \A s \in DOMAIN segments : Len(segments[s].entries) <= SegmentCapacity
  /\ pc = "merge" => segments[Len(segments)].write_count = Len(segments[Len(segments)].entries)

(* A larger set of entries types the segments as well. *)
LEMMA MoreEntries ==
  ASSUME NEW S, NEW T, S \subseteq T
  PROVE  Seq(SegmentsOf(S)) \subseteq Seq(SegmentsOf(T))
<1>1. Seq(S) \subseteq Seq(T)
  OBVIOUS
<1>2. SegmentsOf(S) \subseteq SegmentsOf(T)
  BY <1>1 DEF SegmentsOf
<1>3. QED
  BY <1>2

(* The last segment is changed, the others stay. *)
LEMMA LastChanges ==
  ASSUME NEW S, segments \in Seq(SegmentsOf(S)), segments # <<>>,
         NEW segment \in SegmentsOf(S),
         segments' = [segments EXCEPT ![Len(segments)] = segment],
         Len(segment.entries) <= SegmentCapacity,
         \A s \in DOMAIN segments : s # Len(segments) => ClosedAndFull(segments[s]),
         \A s \in DOMAIN segments : Len(segments[s].entries) <= SegmentCapacity,
         pc' \in {"merge", "list", "open", "index"},
         pc' = "open" => ClosedAndFull(segment),
         pc' = "merge" => segment.write_count = Len(segment.entries)
  PROVE  SegmentsInv'
<1>1. /\ Len(segments) \in DOMAIN segments /\ Len(segments') = Len(segments)
      /\ DOMAIN segments' = DOMAIN segments
      /\ segments'[Len(segments)] = segment
      /\ \A s \in DOMAIN segments : s # Len(segments) => segments'[s] = segments[s]
      /\ segments' \in Seq(SegmentsOf(S)) /\ segments' # <<>>
  OBVIOUS
<1>2. \A s \in DOMAIN segments' :
        (s # Len(segments') \/ pc' = "open") => ClosedAndFull(segments'[s])
  BY <1>1
<1>3. \A s \in DOMAIN segments' : Len(segments'[s].entries) <= SegmentCapacity
  BY <1>1
<1>4. QED
  BY <1>1, <1>2, <1>3 DEF SegmentsInv, ClosedAndFull

LEMMA OpenKeeps ==
  ASSUME SegmentsInv, OpenSegment
  PROVE  SegmentsInv'
<1>1. PICK S : segments \in Seq(SegmentsOf(S))
  BY DEF SegmentsInv
<1>2. /\ NewSegment \in SegmentsOf(S) /\ Len(NewSegment.entries) = 0
      /\ NewSegment.write_count = 0
  BY DEF NewSegment, SegmentsOf
<1>3. segments' = Append(segments, NewSegment) /\ pc = "open" /\ pc' = "merge"
  BY DEF OpenSegment
<1>4. /\ segments' \in Seq(SegmentsOf(S)) /\ Len(segments') = Len(segments) + 1
      /\ DOMAIN segments' = 1 .. Len(segments) + 1 /\ DOMAIN segments = 1 .. Len(segments)
      /\ segments'[Len(segments')] = NewSegment
      /\ \A s \in DOMAIN segments : segments'[s] = segments[s]
      /\ segments' # <<>> /\ Len(segments) \in Nat
  BY <1>1, <1>2, <1>3, AppendProperties, LenProperties
<1>5. \A s \in DOMAIN segments' : s # Len(segments') => ClosedAndFull(segments'[s])
  BY <1>3, <1>4 DEF SegmentsInv
<1>6. \A s \in DOMAIN segments' : Len(segments'[s].entries) <= SegmentCapacity
  BY <1>2, <1>4, SegmentsAssumption DEF SegmentsInv
<1>7. QED
  BY <1>2, <1>3, <1>4, <1>5, <1>6 DEF SegmentsInv, ClosedAndFull

(* The last segment, when there is one. *)
LEMMA LastSegment ==
  ASSUME NEW S, segments \in Seq(SegmentsOf(S)), segments # <<>>
  PROVE  /\ Last(segments) = segments[Len(segments)]
         /\ Len(segments) \in DOMAIN segments
         /\ segments[Len(segments)] \in SegmentsOf(S)
<1>1. Len(segments) \in DOMAIN segments
  OBVIOUS
<1>2. QED
  BY <1>1 DEF Last

LEMMA CloseKeeps ==
  ASSUME SegmentsInv, CloseFullSegment \/ CloseLastSegment
  PROVE  SegmentsInv'
<1>1. PICK S : segments \in Seq(SegmentsOf(S))
  BY DEF SegmentsInv
<1>2. /\ pc = "merge" /\ segments # <<>> /\ pc' \in {"open", "index"}
      /\ pc' = "open" => Full
      /\ segments' = [segments EXCEPT ![Len(segments)].status = "DONE"]
  BY DEF CloseFullSegment, CloseLastSegment, Closed, SegmentsInv
<1> DEFINE last_segment == segments[Len(segments)]
<1> DEFINE segment == [last_segment EXCEPT !.status = "DONE"]
<1>3. last_segment \in SegmentsOf(S) /\ Last(segments) = last_segment
      /\ Len(segments) \in DOMAIN segments
  BY <1>1, <1>2, LastSegment
<1>4. /\ segment \in SegmentsOf(S) /\ segment.status = "DONE"
      /\ segment.entries = last_segment.entries
      /\ segment.write_count = last_segment.write_count
      /\ Len(last_segment.entries) \in Nat
  BY <1>3 DEF SegmentsOf
<1>5. /\ Len(last_segment.entries) <= SegmentCapacity
      /\ last_segment.write_count = Len(last_segment.entries)
  BY <1>2, <1>3 DEF SegmentsInv
<1>6. pc' = "open" => ClosedAndFull(segment)
  BY <1>2, <1>3, <1>4, <1>5, SegmentsAssumption DEF Full, ClosedAndFull
<1>7. segments' = [segments EXCEPT ![Len(segments)] = segment]
  BY <1>2
<1> HIDE DEF segment, last_segment
<1>8. QED
  BY <1>1, <1>2, <1>4, <1>5, <1>6, <1>7, LastChanges DEF SegmentsInv

(* Only a segment with room gets another entry. *)
LEMMA WriteKeeps ==
  ASSUME SegmentsInv, WriteEntry
  PROVE  SegmentsInv'
<1>1. PICK R : segments \in Seq(SegmentsOf(R))
  BY DEF SegmentsInv
<1>2. PICK merged : segments' =
         [segments EXCEPT ![Len(segments)].entries = Append(@, merged)]
  BY DEF WriteEntry
<1>3. /\ pc = "merge" /\ segments # <<>> /\ pc' = "list" /\ ~Full
  BY DEF WriteEntry, SegmentsInv
<1> DEFINE S == R \cup {merged}
<1>4. segments \in Seq(SegmentsOf(S))
  BY <1>1, MoreEntries
<1> DEFINE last_segment == segments[Len(segments)]
<1> DEFINE segment == [last_segment EXCEPT !.entries = Append(@, merged)]
<1>5. last_segment \in SegmentsOf(S) /\ Last(segments) = last_segment
  BY <1>3, <1>4, LastSegment
<1>6. /\ last_segment.entries \in Seq(S) /\ merged \in S
      /\ segment = [last_segment EXCEPT !.entries = Append(last_segment.entries, merged)]
  BY <1>5 DEF SegmentsOf
<1>7. /\ Append(last_segment.entries, merged) \in Seq(S)
      /\ Len(Append(last_segment.entries, merged)) = Len(last_segment.entries) + 1
      /\ Len(last_segment.entries) \in Nat
  BY <1>6, AppendProperties, LenProperties
<1>8. segment \in SegmentsOf(S) /\ Len(segment.entries) = Len(last_segment.entries) + 1
  BY <1>5, <1>6, <1>7 DEF SegmentsOf
<1>9. Len(segment.entries) <= SegmentCapacity
  BY <1>3, <1>5, <1>7, <1>8, SegmentsAssumption DEF Full
<1>10. segments' = [segments EXCEPT ![Len(segments)] = segment]
  BY <1>2, <1>3, <1>4, LastSegment
<1> HIDE DEF segment, last_segment, S
<1>11. QED
  BY <1>3, <1>4, <1>8, <1>9, <1>10, LastChanges DEF SegmentsInv

LEMMA ListKeeps ==
  ASSUME SegmentsInv, ListEntry
  PROVE  SegmentsInv'
<1>1. PICK S : segments \in Seq(SegmentsOf(S))
  BY DEF SegmentsInv
<1>2. /\ pc = "list" /\ segments # <<>> /\ pc' = "merge"
      /\ segments' = [segments EXCEPT ![Len(segments)].write_count = WriteCount]
  BY DEF ListEntry, SegmentsInv
<1> DEFINE last_segment == segments[Len(segments)]
<1> DEFINE segment == [last_segment EXCEPT !.write_count = WriteCount]
<1>3. /\ last_segment \in SegmentsOf(S) /\ Last(segments) = last_segment
      /\ Len(segments) \in DOMAIN segments
  BY <1>1, <1>2, LastSegment
<1>4. WriteCount = Len(last_segment.entries) /\ WriteCount \in Nat
  BY <1>3 DEF WriteCount, SegmentsOf
<1>5. /\ segment \in SegmentsOf(S) /\ segment.entries = last_segment.entries
      /\ segment.write_count = Len(last_segment.entries)
  BY <1>3, <1>4 DEF SegmentsOf
<1>6. Len(segment.entries) <= SegmentCapacity
  BY <1>3, <1>5 DEF SegmentsInv
<1>7. segments' = [segments EXCEPT ![Len(segments)] = segment]
  BY <1>2
<1> HIDE DEF segment, last_segment
<1>8. QED
  BY <1>1, <1>2, <1>5, <1>6, <1>7, LastChanges DEF SegmentsInv

LEMMA SegmentsHold == Spec => []SegmentsInv
<1>1. Init => SegmentsInv
  <2> SUFFICES ASSUME Init PROVE SegmentsInv
    OBVIOUS
  <2>1. segments = <<>> /\ pc = "parse" /\ segments \in Seq(SegmentsOf({}))
    BY DEF Init
  <2>2. QED
    BY <2>1 DEF SegmentsInv
<1>2. SegmentsInv /\ [Next]_vars => SegmentsInv'
  <2> SUFFICES ASSUME SegmentsInv, [Next]_vars PROVE SegmentsInv'
    OBVIOUS
  <2>1. CASE Parse
    BY <2>1 DEF Parse, SegmentsInv, ClosedAndFull
  <2>2. CASE FailToOpen \/ Kill
    BY <2>2 DEF FailToOpen, Kill, SegmentsInv, ClosedAndFull
  <2>3. CASE UNCHANGED vars
    BY <2>3 DEF vars, SegmentsInv, ClosedAndFull
  <2>4. QED
    BY <2>1, <2>2, <2>3, OpenKeeps, CloseKeeps, WriteKeeps, ListKeeps DEF Next, Worker
<1>3. QED
  BY <1>1, <1>2, PTL DEF Spec

(* The row r of the log is in segment r \div SegmentCapacity: only the last  *)
(* segment opened is not full, and none is filled past its capacity.         *)
THEOREM SegmentsFilled == Spec => []SegmentsAreFull
<1>1. SegmentsInv => SegmentsAreFull
  BY DEF SegmentsInv, SegmentsAreFull, ClosedAndFull
<1>2. QED
  BY <1>1, SegmentsHold, PTL

-----------------------------------------------------------------------------
(* What was parsed. *)

ParsedInv ==
  /\ text \in Seq(Bytes) /\ fmt \in Nat /\ parsed \in Seq(LineEntries)
  /\ pc \notin {"parse", "failed", "dead"} => parsed = ParseRanges(text, fmt)

LEMMA ParsedHolds == Spec => []ParsedInv
<1>1. Init => ParsedInv
  <2> SUFFICES ASSUME Init PROVE ParsedInv
    OBVIOUS
  <2>1. text \in Seq(Bytes)
    <3>1. PICK m \in Nat : text \in [1 .. m -> Bytes]
      BY SegmentsAssumption DEF Init, BoundedSeq, SeqOf, Bytes
    <3>2. QED
      BY <3>1
  <2>2. fmt \in Nat /\ parsed = <<>> /\ pc = "parse"
    BY SegmentsAssumption DEF Init
  <2>3. QED
    BY <2>1, <2>2 DEF ParsedInv
<1>2. ParsedInv /\ [Next]_vars => ParsedInv'
  <2> SUFFICES ASSUME ParsedInv, [Next]_vars PROVE ParsedInv'
    OBVIOUS
  <2>1. CASE Parse
    <3>1. /\ parsed' = ParseRanges(text, fmt) /\ text' = text /\ fmt' = fmt
          /\ text \in Seq(Bytes) /\ fmt \in Nat
      BY <2>1 DEF Parse, inputVars, ParsedInv
    <3>2. ParseRanges(text, fmt) \in Seq(LineEntries)
      BY <3>1, RangesTyped
    <3>3. QED
      BY <3>1, <3>2 DEF ParsedInv
  <2>2. CASE OpenSegment \/ CloseFullSegment \/ WriteEntry \/ ListEntry \/ CloseLastSegment
    <3>1. /\ parsed' = parsed /\ text' = text /\ fmt' = fmt
          /\ pc \in {"open", "merge", "list"}
      BY <2>2 DEF OpenSegment, CloseFullSegment, WriteEntry, ListEntry, CloseLastSegment, inputVars
    <3>2. QED
      BY <3>1 DEF ParsedInv
  <2>3. CASE FailToOpen \/ Kill
    BY <2>3 DEF FailToOpen, Kill, inputVars, ParsedInv
  <2>4. CASE UNCHANGED vars
    BY <2>4 DEF vars, inputVars, ParsedInv
  <2>5. QED
    BY <2>1, <2>2, <2>3, <2>4 DEF Next, Worker
<1>3. QED
  BY <1>1, <1>2, PTL DEF Spec

(* The ranges of the threads are the file, cut behind line ends only: no     *)
(* thread of can_parser_run_worker_segmented sees half a line, whatever the  *)
(* number of threads, the length of the file and of its lines.               *)
THEOREM NoLineIsCut == Spec => []RangesHoldWholeLines
<1>1. ParsedInv => RangesHoldWholeLines
  <2> SUFFICES ASSUME ParsedInv PROVE RangesHoldWholeLines
    OBVIOUS
  <2>1. WholeRanges(text) /\ NumThreads \in Nat
    BY RangesAreWhole, ChunksAssumption DEF ParsedInv
  <2>2. \A t \in 1 .. NumThreads : t - 1 \in 0 .. NumThreads
    BY <2>1
  <2>3. QED
    BY <2>1, <2>2 DEF RangesHoldWholeLines, WholeRanges, Begin, End, IsNewline
<1>2. QED
  BY <1>1, ParsedHolds, PTL

(* A file of one format is parsed in parallel as it is from its first line   *)
(* on: the same lines, in their order, with their line numbers.              *)
THEOREM ParallelParseIsSequential == Spec => []ParallelIsSequential
<1>1. ParsedInv => ParallelIsSequential
  <2> SUFFICES ASSUME ParsedInv, pc \notin {"parse", "failed", "dead"}, OneFormat(text, fmt)
               PROVE  parsed = ReferenceEntries(text, fmt)
    BY DEF ParallelIsSequential
  <2>1. QED
    BY RangesTogether DEF ParsedInv
<1>2. QED
  BY <1>1, ParsedHolds, PTL


-----------------------------------------------------------------------------
(* The tables of last timestamps and of last data.                           *)

(* The entries of an id among the first n of parsed, and the latest.         *)
Before(id, n) == {m \in 1 .. n : parsed[m].kind.id = id}
LatestOf(id, n) == CHOOSE m \in Before(id, n) : \A o \in Before(id, n) : o <= m

(* The tables hold what the latest of the first n entries of an id says.     *)
Knows(id, n) ==
  /\ Before(id, n) = {} => last[id] = None /\ raw[id] = None
  /\ Before(id, n) # {} =>
        /\ raw[id] = parsed[LatestOf(id, n)].kind.data
        /\ id < TableSize => last[id] = parsed[LatestOf(id, n)].timestamp

TablesInv ==
  /\ DOMAIN last = Ids /\ DOMAIN raw = Ids
  /\ next \in 0 .. Len(parsed)
  /\ pc = "parse" => next = 0
  /\ pc = "list" => next < Len(parsed)
  /\ pc = "index" => next = Len(parsed)
  /\ pc \in {"parse", "open", "merge"} => \A id \in Ids : Knows(id, next)
  /\ pc = "list" => \A id \in Ids : Knows(id, next + 1)

LEMMA LatestFacts ==
  ASSUME ParsedInv, NEW n \in 0 .. Len(parsed), NEW id, Before(id, n) # {}
  PROVE  /\ LatestOf(id, n) \in Before(id, n) /\ LatestOf(id, n) \in 1 .. n
         /\ parsed[LatestOf(id, n)] \in LineEntries
         /\ parsed[LatestOf(id, n)].kind \in Kinds
<1> DEFINE B == Before(id, n)
           Greatest(m) == \A o \in B : o <= m
<1>1. n \in Nat /\ B \in SUBSET (1 .. n) /\ parsed \in Seq(LineEntries) /\ Len(parsed) \in Nat
  BY DEF Before, ParsedInv
<1>2. LatestOf(id, n) = (CHOOSE m \in B : Greatest(m)) /\ B # {}
  BY DEF LatestOf
<1> HIDE DEF B
<1>3. Max(B) \in B /\ Greatest(Max(B))
  BY <1>1, <1>2, MaxIsGreatest
<1> HIDE DEF Greatest
<1>4. LatestOf(id, n) \in B
  BY <1>2, <1>3
<1>5. LatestOf(id, n) \in 1 .. n /\ LatestOf(id, n) \in 1 .. Len(parsed)
  <2>1. LatestOf(id, n) \in 1 .. n
    BY <1>1, <1>4
  <2>2. 1 .. n \subseteq 1 .. Len(parsed)
    BY <1>1
  <2>3. QED
    BY <2>1, <2>2
<1>6. parsed[LatestOf(id, n)] \in LineEntries
  BY <1>1, <1>5
<1>7. QED
  BY <1>4, <1>5, <1>6 DEF B, LineEntries

(* One more entry is the latest of its id; of other ids nothing changes.     *)
LEMMA OneMoreEntry ==
  ASSUME ParsedInv, NEW n \in 0 .. Len(parsed) - 1, NEW id
  PROVE  /\ parsed[n + 1].kind.id = id =>
               Before(id, n + 1) # {} /\ LatestOf(id, n + 1) = n + 1
         /\ parsed[n + 1].kind.id # id =>
               Before(id, n + 1) = Before(id, n) /\ LatestOf(id, n + 1) = LatestOf(id, n)
<1>1. n \in Nat /\ \A m : m \in 1 .. n + 1 <=> m \in 1 .. n \/ m = n + 1
  OBVIOUS
<1>2. CASE parsed[n + 1].kind.id = id
  <2> DEFINE B == Before(id, n + 1)
  <2>1. n + 1 \in B /\ \A o \in B : o \in Nat /\ o <= n + 1
    BY <1>1, <1>2 DEF Before
  <2>2. LatestOf(id, n + 1) = CHOOSE m \in B : \A o \in B : o <= m
    BY DEF LatestOf
  <2> HIDE DEF B
  <2>3. \A m \in B : (\A o \in B : o <= m) => m = n + 1
    BY <1>1, <2>1
  <2>4. LatestOf(id, n + 1) = n + 1
    BY <2>1, <2>2, <2>3
  <2>5. QED
    BY <1>2, <2>1, <2>4 DEF B
<1>3. CASE parsed[n + 1].kind.id # id
  <2>1. Before(id, n + 1) = Before(id, n)
    BY <1>1, <1>3 DEF Before
  <2>2. QED
    BY <1>3, <2>1 DEF LatestOf
<1>4. QED
  BY <1>2, <1>3

(* As long as nothing is parsed anew. *)
LEMMA SameLog ==
  ASSUME parsed' = parsed
  PROVE  /\ \A id, n : Before(id, n)' = Before(id, n) /\ LatestOf(id, n)' = LatestOf(id, n)
         /\ \A n : Earlier(n)' = Earlier(n) /\ Latest(n)' = Latest(n)
         /\ \A entry, n : Rightly(entry, n)' <=> Rightly(entry, n)
<1>1. \A id, n : Before(id, n)' = Before(id, n)
  BY DEF Before
<1>2. \A id, n : LatestOf(id, n)' = LatestOf(id, n)
  BY <1>1 DEF LatestOf
<1>3. \A n : Earlier(n)' = Earlier(n)
  BY DEF Earlier
<1>4. \A n : Latest(n)' = Latest(n)
  BY <1>3 DEF Latest
<1>5. \A entry, n : Rightly(entry, n)' <=> Rightly(entry, n)
  BY <1>3, <1>4 DEF Rightly
<1>6. QED
  BY <1>1, <1>2, <1>3, <1>4, <1>5


(* What is true of the next entry, when there is one. *)
LEMMA NextEntry ==
  ASSUME ParsedInv, NEW n \in 0 .. Len(parsed) - 1
  PROVE  /\ parsed[n + 1] \in LineEntries /\ parsed[n + 1].kind \in Kinds
         /\ parsed[n + 1].kind.id \in Ids \cap Nat /\ parsed[n + 1].kind.data \in Nat
         /\ parsed[n + 1].kind.direction \in {0, 1} /\ parsed[n + 1].kind.channel \in Channels
         /\ parsed[n + 1].line \in Nat /\ parsed[n + 1].timestamp \in Nat
<1>1. parsed \in Seq(LineEntries)
  BY DEF ParsedInv
<1>2. n + 1 \in 1 .. Len(parsed)
  BY <1>1
<1>3. parsed[n + 1] \in LineEntries
  BY <1>1, <1>2
<1>4. /\ parsed[n + 1].kind \in Kinds
      /\ parsed[n + 1].line \in Nat /\ parsed[n + 1].timestamp \in Nat
  BY <1>3 DEF LineEntries
<1>5. QED
  BY <1>3, <1>4, SegmentsAssumption DEF Ids, Channels

LEMMA WriteTables ==
  ASSUME ParsedInv, TablesInv, WriteEntry
  PROVE  TablesInv'
<1> DEFINE entry == parsed[next + 1]
           e_id == entry.kind.id
<1>1. /\ pc = "merge" /\ next < Len(parsed) /\ pc' = "list" /\ parsed' = parsed /\ next' = next
      /\ last' = IF e_id < TableSize THEN [last EXCEPT ![e_id] = entry.timestamp] ELSE last
      /\ raw' = [raw EXCEPT ![e_id] = entry.kind.data]
  BY DEF WriteEntry
<1>2. /\ DOMAIN last = Ids /\ DOMAIN raw = Ids /\ next \in 0 .. Len(parsed)
      /\ \A id \in Ids : Knows(id, next)
  BY <1>1 DEF TablesInv
<1>3. Len(parsed) \in Nat
  BY DEF ParsedInv
<1>4. next \in 0 .. Len(parsed) - 1
  BY <1>1, <1>2, <1>3
<1>5. e_id \in Ids
  BY <1>4, NextEntry
<1>6. /\ DOMAIN last' = Ids /\ DOMAIN raw' = Ids
      /\ raw'[e_id] = entry.kind.data /\ (e_id < TableSize => last'[e_id] = entry.timestamp)
      /\ \A id \in Ids : id # e_id => raw'[id] = raw[id] /\ last'[id] = last[id]
  BY <1>1, <1>2, <1>5
<1>7. \A id, n : Before(id, n)' = Before(id, n) /\ LatestOf(id, n)' = LatestOf(id, n)
  BY <1>1, SameLog
<1>8. ASSUME NEW id \in Ids PROVE Knows(id, next + 1)'
  <2>1. /\ e_id = id => Before(id, next + 1) # {} /\ LatestOf(id, next + 1) = next + 1
        /\ e_id # id => Before(id, next + 1) = Before(id, next)
                        /\ LatestOf(id, next + 1) = LatestOf(id, next)
    BY <1>4, OneMoreEntry
  <2>2. next' + 1 = next + 1 /\ Before(id, next + 1)' = Before(id, next + 1)
        /\ LatestOf(id, next + 1)' = LatestOf(id, next + 1)
    BY <1>1, <1>7
  <2>3. Knows(id, next)
    BY <1>2
  <2>4. CASE e_id = id
    <3>1. Before(id, next + 1) # {} /\ LatestOf(id, next + 1) = next + 1
      BY <2>1, <2>4
    <3>2. raw'[id] = parsed[next + 1].kind.data /\ (id < TableSize => last'[id] = parsed[next + 1].timestamp)
      BY <1>6, <2>4
    <3>3. QED
      BY <1>1, <2>2, <3>1, <3>2 DEF Knows
  <2>5. CASE e_id # id
    <3>1. /\ Before(id, next + 1) = Before(id, next)
          /\ LatestOf(id, next + 1) = LatestOf(id, next)
          /\ raw'[id] = raw[id] /\ last'[id] = last[id]
      BY <1>6, <2>1, <2>5
    <3>2. QED
      BY <1>1, <2>2, <2>3, <3>1 DEF Knows
  <2>6. QED
    BY <2>4, <2>5
<1>9. QED
  BY <1>1, <1>2, <1>6, <1>8 DEF TablesInv

LEMMA TablesHold == Spec => []TablesInv
<1>1. Init => TablesInv
  <2> SUFFICES ASSUME Init PROVE TablesInv
    OBVIOUS
  <2>1. parsed = <<>> /\ next = 0 /\ pc = "parse" /\ Len(parsed) = 0
    BY DEF Init
  <2>2. last = [id \in Ids |-> None] /\ raw = [id \in Ids |-> None]
    BY DEF Init
  <2>3. \A id \in Ids : Knows(id, next)
    BY <2>1, <2>2 DEF Knows, Before
  <2>4. QED
    BY <2>1, <2>2, <2>3 DEF TablesInv
<1>2. ParsedInv /\ ParsedInv' /\ TablesInv /\ [Next]_vars => TablesInv'
  <2> SUFFICES ASSUME ParsedInv, ParsedInv', TablesInv, [Next]_vars PROVE TablesInv'
    OBVIOUS
  <2> DEFINE Same == /\ last' = last /\ raw' = raw /\ parsed' = parsed
  <2>1. Same => /\ \A id, n : Knows(id, n)' <=> Knows(id, n)
    <3>1. SUFFICES ASSUME Same PROVE \A id, n : Knows(id, n)' <=> Knows(id, n)
      OBVIOUS
    <3>2. \A id, n : Before(id, n)' = Before(id, n) /\ LatestOf(id, n)' = LatestOf(id, n)
      BY <3>1, SameLog
    <3>3. QED
      BY <3>1, <3>2 DEF Knows
  <2>2. CASE Parse
    <3>1. /\ pc = "parse" /\ pc' = "open" /\ next = 0 /\ next' = 0
          /\ last' = last /\ raw' = raw
      BY <2>2 DEF Parse, tableVars, TablesInv
    <3>2. \A id : Before(id, 0) = {} /\ Before(id, 0)' = {}
      BY DEF Before
    <3>3. \A id \in Ids : Knows(id, next) /\ DOMAIN last = Ids /\ DOMAIN raw = Ids
      BY <3>1 DEF TablesInv
    <3>4. \A id \in Ids : Knows(id, next)'
      BY <3>1, <3>2, <3>3 DEF Knows
    <3>5. next' \in 0 .. Len(parsed)'
      BY <3>1 DEF ParsedInv
    <3>6. QED
      BY <3>1, <3>3, <3>4, <3>5 DEF TablesInv
  <2>3. CASE OpenSegment \/ CloseFullSegment \/ CloseLastSegment
    <3>1. /\ Same /\ next' = next
          /\ pc \in {"open", "merge"} /\ pc' \in {"open", "merge", "index"}
          /\ pc' = "index" => next = Len(parsed)
      BY <2>3 DEF OpenSegment, CloseFullSegment, CloseLastSegment, tableVars
    <3>2. QED
      BY <2>1, <3>1 DEF TablesInv
  <2>4. CASE ListEntry
    <3>1. Same /\ next' = next + 1 /\ pc = "list" /\ pc' = "merge"
      BY <2>4 DEF ListEntry, tableVars
    <3>2. next + 1 \in 0 .. Len(parsed)
      BY <3>1 DEF TablesInv, ParsedInv
    <3>3. QED
      BY <2>1, <3>1, <3>2 DEF TablesInv
  <2>5. CASE FailToOpen \/ Kill
    BY <2>5 DEF FailToOpen, Kill, tableVars, TablesInv
  <2>6. CASE UNCHANGED vars
    <3>1. Same /\ next' = next /\ pc' = pc
      BY <2>6 DEF vars, tableVars
    <3>2. QED
      BY <2>1, <3>1 DEF TablesInv
  <2>7. QED
    BY <2>2, <2>3, <2>4, <2>5, <2>6, WriteTables DEF Next, Worker
<1>3. QED
  BY <1>1, <1>2, ParsedHolds, PTL DEF Spec


-----------------------------------------------------------------------------
(* What readers can count of the segments.                                   *)

MergedEntries == [line : Nat, timestamp : Nat, kind : Kinds, last_timestamp : Nat,
                  changed : BOOLEAN]

Countable(ss) ==
  /\ ss \in Seq(SegmentsOf(MergedEntries))
  /\ \A s \in DOMAIN ss : ss[s].write_count <= Len(ss[s].entries)

CountedOf(segment) == SubSeq(segment.entries, 1, segment.write_count)

CountedIn(ss) == [s \in DOMAIN ss |-> CountedOf(ss[s])]

LEMMA SegmentCounted ==
  ASSUME NEW segment \in SegmentsOf(MergedEntries), segment.write_count <= Len(segment.entries)
  PROVE  CountedOf(segment) \in Seq(MergedEntries)
<1> DEFINE es == segment.entries
           c == segment.write_count
<1>1. es \in Seq(MergedEntries) /\ c \in Nat /\ c <= Len(es) /\ Len(es) \in Nat
  BY DEF SegmentsOf
<1>2. CountedOf(segment) = SubSeq(es, 1, c)
  BY DEF CountedOf
<1> HIDE DEF es, c
<1>3. c \in 0 .. Len(es)
  BY <1>1
<1>4. SubSeq(es, 1, c) \in Seq(MergedEntries)
  BY <1>1, <1>3, Beginnings
<1>5. QED
  BY <1>2, <1>4

LEMMA CountedTyped ==
  ASSUME NEW ss, Countable(ss)
  PROVE  /\ CountedIn(ss) \in Seq(Seq(MergedEntries)) /\ Len(CountedIn(ss)) = Len(ss)
         /\ Len(ss) \in Nat
         /\ \A s \in 1 .. Len(ss) : CountedIn(ss)[s] = CountedOf(ss[s])
         /\ FlattenSeq(CountedIn(ss)) \in Seq(MergedEntries)
<1> DEFINE cc == CountedIn(ss)
           N == Len(ss)
           X == Seq(MergedEntries)
<1>1. /\ N \in Nat /\ DOMAIN ss = 1 .. N
      /\ \A s \in 1 .. N : ss[s] \in SegmentsOf(MergedEntries)
                           /\ ss[s].write_count <= Len(ss[s].entries)
  BY DEF Countable
<1>2. cc = [s \in 1 .. N |-> CountedOf(ss[s])]
  BY <1>1 DEF CountedIn
<1>3. \A s \in 1 .. N : CountedOf(ss[s]) \in X
  BY <1>1, SegmentCounted
<1> HIDE DEF cc, N, X
<1>4. IsList(cc, N, X)
  BY <1>2, <1>3 DEF IsList
<1>5. cc \in Seq(X) /\ Len(cc) = N
  BY <1>1, <1>4, ListIsSeq
<1>6. FlattenSeq(cc) \in X
  BY <1>5, FlattenTyped DEF X
<1>7. QED
  BY <1>1, <1>2, <1>5, <1>6 DEF cc, N, X

(* More of the last segment is counted, or the same. *)
LEMMA LastCounted ==
  ASSUME NEW ss, Countable(ss), ss # <<>>,
         NEW segment \in SegmentsOf(MergedEntries), segment.write_count <= Len(segment.entries),
         NEW t \in Seq(MergedEntries), CountedOf(segment) = CountedOf(ss[Len(ss)]) \o t,
         NEW tt, tt = [ss EXCEPT ![Len(ss)] = segment]
  PROVE  /\ Countable(tt) /\ tt # <<>> /\ Len(tt) = Len(ss) /\ tt[Len(tt)] = segment
         /\ FlattenSeq(CountedIn(tt)) = FlattenSeq(CountedIn(ss)) \o t
<1> DEFINE cc == CountedIn(ss)
           dd == CountedIn(tt)
           N == Len(ss)
           X == MergedEntries
<1>1. /\ ss \in Seq(SegmentsOf(X)) /\ N \in Nat /\ DOMAIN ss = 1 .. N /\ N # 0
  BY DEF Countable
<1>2. N \in 1 .. N
  BY <1>1
<1>3. /\ tt \in Seq(SegmentsOf(X)) /\ Len(tt) = N /\ DOMAIN tt = 1 .. N /\ tt[N] = segment
      /\ \A s \in 1 .. N : s # N => tt[s] = ss[s]
  <2> DEFINE S == SegmentsOf(X)
  <2>1. ss \in Seq(S) /\ segment \in S /\ tt = [ss EXCEPT ![N] = segment]
    BY <1>1
  <2> HIDE DEF S, N
  <2>2. \A s \in 1 .. N : s # N => tt[s] = ss[s]
    BY <1>1, <2>1
  <2>3. DOMAIN tt = 1 .. N /\ tt[N] = segment
    BY <1>1, <1>2, <2>1
  <2>4. \A s \in 1 .. N : ss[s] \in S
    BY <1>1, <2>1
  <2>5. IsList(tt, N, S)
    BY <2>1, <2>2, <2>3, <2>4, <1>1 DEF IsList
  <2>6. QED
    BY <1>1, <2>2, <2>3, <2>5, ListIsSeq DEF S
<1>4. Countable(tt)
  BY <1>1, <1>3 DEF Countable
<1>5. /\ cc \in Seq(Seq(X)) /\ Len(cc) = N /\ \A s \in 1 .. N : cc[s] = CountedOf(ss[s])
  BY CountedTyped
<1>6. /\ dd \in Seq(Seq(X)) /\ Len(dd) = N /\ \A s \in 1 .. N : dd[s] = CountedOf(tt[s])
  BY <1>3, <1>4, CountedTyped
<1>7. CountedOf(segment) = CountedOf(ss[N]) \o t
  OBVIOUS
<1> HIDE DEF cc, dd, N, X
<1>8. dd = [cc EXCEPT ![Len(cc)] = @ \o t]
  <2>1. DOMAIN cc = 1 .. N /\ DOMAIN dd = 1 .. N /\ cc = [s \in 1 .. N |-> cc[s]]
        /\ dd = [s \in 1 .. N |-> dd[s]]
    BY <1>1, <1>5, <1>6
  <2>2. dd[N] = cc[N] \o t
    BY <1>2, <1>3, <1>5, <1>6, <1>7
  <2>3. \A s \in 1 .. N : s # N => dd[s] = cc[s]
    BY <1>3, <1>5, <1>6
  <2>4. QED
    BY <1>5, <2>1, <2>2, <2>3
<1>9. cc # <<>>
  BY <1>1, <1>5
<1>10. FlattenSeq(dd) = FlattenSeq(cc) \o t
  BY <1>5, <1>8, <1>9, FlattenGrows DEF X
<1>11. tt # <<>>
  BY <1>1, <1>3
<1>12. QED
  BY <1>3, <1>4, <1>10, <1>11 DEF cc, dd, N

LEMMA OpenedCounted ==
  ASSUME NEW ss, Countable(ss), NEW tt, tt = Append(ss, NewSegment)
  PROVE  Countable(tt) /\ FlattenSeq(CountedIn(tt)) = FlattenSeq(CountedIn(ss))
<1> DEFINE cc == CountedIn(ss)
           dd == CountedIn(tt)
           N == Len(ss)
           X == MergedEntries
<1>1. /\ NewSegment \in SegmentsOf(X) /\ NewSegment.entries = <<>> /\ NewSegment.write_count = 0
      /\ Len(NewSegment.entries) = 0 /\ CountedOf(NewSegment) = <<>>
  BY DEF NewSegment, SegmentsOf, CountedOf
<1>2. ss \in Seq(SegmentsOf(X)) /\ N \in Nat /\ DOMAIN ss = 1 .. N
      /\ \A s \in 1 .. N : ss[s].write_count <= Len(ss[s].entries)
  BY DEF Countable
<1> HIDE DEF X
<1>3. /\ tt \in Seq(SegmentsOf(X)) /\ Len(tt) = N + 1 /\ DOMAIN tt = 1 .. N + 1
      /\ tt[N + 1] = NewSegment /\ \A s \in 1 .. N : tt[s] = ss[s]
  BY <1>1, <1>2, AppendProperties
<1>4. \A s \in 1 .. N + 1 : s = N + 1 \/ s \in 1 .. N
  BY <1>2
<1>5. Countable(tt)
  BY <1>1, <1>2, <1>3, <1>4 DEF Countable, X
<1>6. cc \in Seq(Seq(X)) /\ Len(cc) = N /\ \A s \in 1 .. N : cc[s] = CountedOf(ss[s])
  BY CountedTyped DEF X
<1>7. dd \in Seq(Seq(X)) /\ Len(dd) = N + 1 /\ \A s \in 1 .. N + 1 : dd[s] = CountedOf(tt[s])
  BY <1>3, <1>5, CountedTyped DEF X
<1> HIDE DEF cc, dd, N
<1>8. dd[N + 1] = <<>> /\ \A s \in 1 .. N : dd[s] = cc[s]
  <2>1. N + 1 \in 1 .. N + 1 /\ \A s \in 1 .. N : s \in 1 .. N + 1
    BY <1>2
  <2>2. QED
    BY <1>1, <1>3, <1>6, <1>7, <2>1
<1>9. dd = Append(cc, <<>>)
  <2> DEFINE ee == Append(cc, <<>>)
  <2>1. <<>> \in Seq(X)
    OBVIOUS
  <2>2. /\ ee \in Seq(Seq(X)) /\ Len(ee) = N + 1 /\ ee[N + 1] = <<>>
        /\ \A s \in 1 .. N : ee[s] = cc[s]
    BY <1>6, <2>1, AppendProperties
  <2> HIDE DEF ee
  <2>3. \A s \in 1 .. N + 1 : dd[s] = ee[s]
    BY <1>4, <1>8, <2>2
  <2>4. dd = ee
    BY <1>7, <2>2, <2>3, SeqEqual
  <2>5. QED
    BY <2>4 DEF ee
<1>10. FlattenSeq(dd) = FlattenSeq(cc) \o <<>>
  <2>1. <<>> \in Seq(X)
    OBVIOUS
  <2>2. QED
    BY <1>6, <1>9, <2>1, FlattenAppend
<1>11. FlattenSeq(cc) \in Seq(X)
  BY <1>6, FlattenTyped
<1>12. QED
  BY <1>5, <1>10, <1>11 DEF cc, dd


(* Merging an entry tells what came before it of its id.                     *)
LEMMA MergedRightly ==
  ASSUME ParsedInv, TablesInv, pc = "merge", next < Len(parsed)
  PROVE  /\ Merged(parsed[next + 1]) \in MergedEntries
         /\ Rightly(Merged(parsed[next + 1]), next + 1)
<1> DEFINE entry == parsed[next + 1]
           id == entry.kind.id
           m == Merged(entry)
           B == Before(id, next)
           l == LatestOf(id, next)
<1>1. next \in 0 .. Len(parsed) /\ next \in 0 .. Len(parsed) - 1 /\ next \in Nat
  BY DEF TablesInv, ParsedInv
<1>2. /\ id \in Ids \cap Nat /\ entry.line \in Nat /\ entry.timestamp \in Nat
      /\ entry.kind \in Kinds /\ entry.kind.data \in Nat
  BY <1>1, NextEntry
<1>3. Knows(id, next)
  BY <1>2 DEF TablesInv
<1>4. Earlier(next + 1) = B /\ Latest(next + 1) = l
  <2>1. (next + 1) - 1 = next
    BY <1>1
  <2>2. Earlier(next + 1) = B
    BY <2>1 DEF Earlier, Before
  <2>3. QED
    BY <2>2 DEF Latest, LatestOf
<1>5. B # {} => parsed[l].timestamp \in Nat /\ parsed[l].kind.data \in Nat
  <2>1. B # {} => parsed[l] \in LineEntries /\ parsed[l].kind \in Kinds
    BY <1>1, LatestFacts
  <2>2. QED
    BY <2>1, SegmentsAssumption DEF LineEntries
<1>6. /\ B = {} => last[id] = None /\ raw[id] = None
      /\ B # {} => /\ raw[id] = parsed[l].kind.data
                   /\ id < TableSize => last[id] = parsed[l].timestamp
  BY <1>3 DEF Knows
<1>7. Previous(entry) = IF B = {} \/ id >= TableSize THEN entry.timestamp
                                                     ELSE parsed[l].timestamp
  <2>1. Previous(entry) = IF id >= TableSize \/ last[id] = None THEN entry.timestamp ELSE last[id]
    BY DEF Previous
  <2> HIDE DEF id, entry, B, l
  <2>2. CASE B = {}
    BY <1>6, <2>1, <2>2
  <2>3. CASE B # {} /\ id >= TableSize
    BY <2>1, <2>3
  <2>4. CASE B # {} /\ ~(id >= TableSize)
    <3>1. last[id] = parsed[l].timestamp /\ last[id] # None
      BY <1>2, <1>5, <1>6, <2>4, SegmentsAssumption DEF None, id
    <3>2. QED
      BY <2>1, <2>4, <3>1
  <2>5. QED
    BY <2>2, <2>3, <2>4
<1>8. Changed(entry) <=> B # {} /\ parsed[l].kind.data # entry.kind.data
  <2>1. Changed(entry) <=> raw[id] # None /\ raw[id] # entry.kind.data
    BY DEF Changed
  <2> HIDE DEF id, B, l
  <2>2. QED
    BY <1>2, <1>5, <1>6, <2>1 DEF None
<1>9. Previous(entry) \in Nat
  BY <1>2, <1>5, <1>7
<1>10. m = [line |-> entry.line, timestamp |-> entry.timestamp, kind |-> entry.kind,
            last_timestamp |-> Previous(entry), changed |-> Changed(entry)]
  BY DEF Merged
<1>11. Changed(entry) \in BOOLEAN
  BY DEF Changed
<1> HIDE DEF B, l, entry, m
<1>12. m \in MergedEntries
  BY <1>2, <1>9, <1>10, <1>11 DEF MergedEntries, entry
<1>13. /\ m.line = entry.line /\ m.timestamp = entry.timestamp /\ m.kind = entry.kind
       /\ m.last_timestamp = Previous(entry) /\ m.changed = Changed(entry)
  BY <1>10
<1>14. Rightly(m, next + 1)
  BY <1>4, <1>7, <1>8, <1>13 DEF Rightly, entry
<1>15. QED
  BY <1>12, <1>14 DEF m, entry

DiskInv ==
  /\ Countable(segments)
  /\ Len(OnDisk) = next
  /\ \A n \in DOMAIN OnDisk : Rightly(OnDisk[n], n)
  /\ pc = "list" =>
        /\ segments[Len(segments)].write_count + 1 = Len(segments[Len(segments)].entries)
        /\ Rightly(Last(segments[Len(segments)].entries), next + 1)

LEMMA OnDiskCounted ==
  /\ OnDisk = FlattenSeq(CountedIn(segments))
  /\ OnDisk' = FlattenSeq(CountedIn(segments'))
  BY DEF OnDisk, CountedIn, CountedOf

(* The segment that is written, and what is counted of it. *)
LEMMA WrittenSegment ==
  ASSUME NEW ss, Countable(ss), ss # <<>>
  PROVE  /\ ss[Len(ss)] \in SegmentsOf(MergedEntries) /\ Len(ss) \in DOMAIN ss
         /\ ss[Len(ss)].entries \in Seq(MergedEntries) /\ ss[Len(ss)].write_count \in Nat
         /\ Len(ss[Len(ss)].entries) \in Nat
         /\ ss[Len(ss)].write_count <= Len(ss[Len(ss)].entries)
         /\ CountedOf(ss[Len(ss)]) \in Seq(MergedEntries)
         /\ Last(ss) = ss[Len(ss)]
<1>1. ss \in Seq(SegmentsOf(MergedEntries)) /\ Len(ss) \in DOMAIN ss
  BY DEF Countable
<1>2. ss[Len(ss)] \in SegmentsOf(MergedEntries)
      /\ ss[Len(ss)].write_count <= Len(ss[Len(ss)].entries)
  BY <1>1 DEF Countable
<1>3. CountedOf(ss[Len(ss)]) \in Seq(MergedEntries)
  BY <1>2, SegmentCounted
<1>4. QED
  BY <1>1, <1>2, <1>3 DEF SegmentsOf, Last

(* The log on disk is as before. *)
LEMMA DiskStays ==
  ASSUME DiskInv, parsed' = parsed, next' = next, OnDisk' = OnDisk, Countable(segments)',
         pc' # "list"
  PROVE  DiskInv'
<1>1. \A entry, n : Rightly(entry, n)' <=> Rightly(entry, n)
  BY SameLog
<1>2. /\ Len(OnDisk) = next /\ \A n \in DOMAIN OnDisk : Rightly(OnDisk[n], n)
  BY DEF DiskInv
<1>3. Len(OnDisk') = next' /\ \A n \in DOMAIN OnDisk' : Rightly(OnDisk[n], n)'
  BY <1>1, <1>2
<1>4. QED
  BY <1>3 DEF DiskInv

LEMMA DiskOpens ==
  ASSUME DiskInv, OpenSegment
  PROVE  DiskInv' /\ OnDisk' = OnDisk
<1>1. /\ segments' = Append(segments, NewSegment) /\ parsed' = parsed /\ next' = next
      /\ pc' = "merge" /\ Countable(segments)
  BY DEF OpenSegment, DiskInv
<1>2. Countable(segments') /\ FlattenSeq(CountedIn(segments')) = FlattenSeq(CountedIn(segments))
  BY <1>1, OpenedCounted
<1>3. OnDisk' = OnDisk
  BY <1>2, OnDiskCounted
<1>4. Countable(segments)'
  BY <1>2 DEF Countable
<1>5. QED
  BY <1>1, <1>3, <1>4, DiskStays

LEMMA DiskCloses ==
  ASSUME DiskInv, SegmentsInv, CloseFullSegment \/ CloseLastSegment
  PROVE  DiskInv' /\ OnDisk' = OnDisk
<1> DEFINE N == Len(segments)
           segment == [segments[N] EXCEPT !.status = "DONE"]
<1>1. /\ segments' = [segments EXCEPT ![N].status = "DONE"] /\ parsed' = parsed
      /\ next' = next /\ pc' # "list" /\ Countable(segments) /\ segments # <<>>
  BY DEF CloseFullSegment, CloseLastSegment, Closed, DiskInv, SegmentsInv
<1>2. segments[N] \in SegmentsOf(MergedEntries)
      /\ segments[N].write_count <= Len(segments[N].entries)
      /\ CountedOf(segments[N]) \in Seq(MergedEntries)
  BY <1>1, WrittenSegment
<1>3. /\ segment \in SegmentsOf(MergedEntries) /\ segment.entries = segments[N].entries
      /\ segment.write_count = segments[N].write_count
  BY <1>2 DEF SegmentsOf
<1>4. segments' = [segments EXCEPT ![N] = segment]
  BY <1>1
<1> HIDE DEF segment
<1>5. <<>> \in Seq(MergedEntries) /\ CountedOf(segment) = CountedOf(segments[N]) \o <<>>
  <2>1. CountedOf(segment) = CountedOf(segments[N])
    BY <1>3 DEF CountedOf
  <2>2. QED
    BY <1>2, <2>1
<1>6. /\ Countable(segments')
      /\ FlattenSeq(CountedIn(segments')) = FlattenSeq(CountedIn(segments)) \o <<>>
  BY <1>1, <1>2, <1>3, <1>4, <1>5, LastCounted
<1>7. FlattenSeq(CountedIn(segments)) \in Seq(MergedEntries)
  BY <1>1, CountedTyped
<1>8. OnDisk' = OnDisk
  BY <1>6, <1>7, OnDiskCounted
<1>9. Countable(segments)'
  BY <1>6 DEF Countable
<1>10. QED
  BY <1>1, <1>8, <1>9, DiskStays


LEMMA DiskWrites ==
  ASSUME DiskInv, SegmentsInv, ParsedInv, TablesInv, WriteEntry
  PROVE  DiskInv' /\ OnDisk' = OnDisk
<1>0. PICK m : m = Merged(parsed[next + 1])
  OBVIOUS
<1> DEFINE N == Len(segments)
           es == segments[N].entries
           segment == [segments[N] EXCEPT !.entries = Append(es, m)]
<1>1. /\ segments' = [segments EXCEPT ![N].entries = Append(@, m)] /\ parsed' = parsed
      /\ next' = next /\ pc = "merge" /\ next < Len(parsed) /\ Countable(segments)
      /\ segments # <<>> /\ segments[N].write_count = Len(es)
  BY <1>0 DEF WriteEntry, DiskInv, SegmentsInv
<1>2. m \in MergedEntries /\ Rightly(m, next + 1)
  BY <1>0, <1>1, MergedRightly
<1>3. /\ segments[N] \in SegmentsOf(MergedEntries) /\ N \in DOMAIN segments
      /\ es \in Seq(MergedEntries) /\ Len(es) \in Nat
  BY <1>1, WrittenSegment
<1>4. segments' = [segments EXCEPT ![N] = segment]
  BY <1>1, <1>3
<1>5. /\ Append(es, m) \in Seq(MergedEntries) /\ Len(Append(es, m)) = Len(es) + 1
      /\ Append(es, m)[Len(es) + 1] = m
  BY <1>2, <1>3, AppendProperties
<1>6. /\ segment \in SegmentsOf(MergedEntries) /\ segment.entries = Append(es, m)
      /\ segment.write_count = Len(es)
  BY <1>1, <1>3, <1>5 DEF SegmentsOf
<1>7. segment.write_count <= Len(segment.entries)
  BY <1>3, <1>5, <1>6
<1>8. CountedOf(segment) = CountedOf(segments[N]) \o <<>> /\ <<>> \in Seq(MergedEntries)
  <2>1. CountedOf(segment) = SubSeq(Append(es, m), 1, Len(es)) /\ CountedOf(segments[N]) = SubSeq(es, 1, Len(es))
    BY <1>1, <1>6 DEF CountedOf
  <2> HIDE DEF es, segment
  <2>2. SubSeq(es, 1, Len(es)) = es
    BY <1>3, Beginnings
  <2>3. SubSeq(Append(es, m), 1, Len(es)) = es
    BY <1>2, <1>3
  <2>4. es \o <<>> = es
    BY <1>3
  <2>5. QED
    BY <2>1, <2>2, <2>3, <2>4
<1> HIDE DEF segment
<1>9. /\ Countable(segments') /\ Len(segments') = N /\ segments'[Len(segments')] = segment
      /\ FlattenSeq(CountedIn(segments')) = FlattenSeq(CountedIn(segments)) \o <<>>
  <2>1. Countable(segments) /\ segments # <<>>
    BY <1>1
  <2>2. segment \in SegmentsOf(MergedEntries)
    BY <1>6
  <2>3. PICK t \in Seq(MergedEntries) : t = <<>> /\ CountedOf(segment) = CountedOf(segments[N]) \o t
    BY <1>8
  <2>4. PICK ss : ss = segments'
    OBVIOUS
  <2>5. /\ Countable(ss) /\ Len(ss) = N /\ ss[Len(ss)] = segment
        /\ FlattenSeq(CountedIn(ss)) = FlattenSeq(CountedIn(segments)) \o t
    BY <1>4, <1>7, <2>1, <2>2, <2>3, <2>4, LastCounted
  <2>6. QED
    BY <2>3, <2>4, <2>5
<1>10. FlattenSeq(CountedIn(segments)) \in Seq(MergedEntries)
  BY <1>1, CountedTyped
<1>11. OnDisk' = OnDisk
  BY <1>9, <1>10, OnDiskCounted
<1>12. Countable(segments)'
  BY <1>9 DEF Countable
<1>13. Last(Append(es, m)) = m
  BY <1>5 DEF Last
<1>14. \A entry, n : Rightly(entry, n)' <=> Rightly(entry, n)
  BY <1>1, SameLog
<1>15. /\ Len(OnDisk') = next' /\ \A n \in DOMAIN OnDisk' : Rightly(OnDisk[n], n)'
  BY <1>1, <1>11, <1>14 DEF DiskInv
<1>16. /\ segments'[Len(segments')].write_count + 1 = Len(segments'[Len(segments')].entries)
       /\ Last(segments'[Len(segments')].entries) = m
  BY <1>5, <1>6, <1>9, <1>13
<1>17. Rightly(m, next + 1)'
  <2>1. PICK n : n = next + 1
    OBVIOUS
  <2>2. Rightly(m, n)'
    BY <1>2, <1>14, <2>1
  <2>3. (next + 1)' = n
    BY <1>1, <2>1
  <2>4. QED
    BY <2>2, <2>3 DEF Rightly, Earlier, Latest
<1>18. DiskInv'
  BY <1>12, <1>15, <1>16, <1>17 DEF DiskInv
<1>19. QED
  BY <1>11, <1>18


(* Listing an entry makes it count. *)
LEMMA EntryCounted ==
  ASSUME DiskInv, SegmentsInv, ListEntry
  PROVE  LET entry == Last(Last(segments).entries)
         IN  /\ Countable(segments') /\ OnDisk' = Append(OnDisk, entry)
             /\ OnDisk \in Seq(MergedEntries) /\ entry \in MergedEntries
             /\ Len(OnDisk) = next /\ Rightly(entry, next + 1)
<1> DEFINE N == Len(segments)
           es == segments[N].entries
           k == segments[N].write_count
           segment == [segments[N] EXCEPT !.write_count = Len(es)]
<1>0. PICK entry : entry = Last(Last(segments).entries)
  OBVIOUS
<1>1. /\ segments' = [segments EXCEPT ![N].write_count = WriteCount] /\ pc = "list"
      /\ Countable(segments) /\ segments # <<>>
      /\ k + 1 = Len(es) /\ Rightly(Last(es), next + 1) /\ Len(OnDisk) = next
  BY DEF ListEntry, DiskInv, SegmentsInv
<1>2. /\ segments[N] \in SegmentsOf(MergedEntries) /\ N \in DOMAIN segments
      /\ es \in Seq(MergedEntries) /\ Len(es) \in Nat /\ k \in Nat
      /\ Last(segments) = segments[N] /\ CountedOf(segments[N]) \in Seq(MergedEntries)
  BY <1>1, WrittenSegment
<1>3. WriteCount = Len(es) /\ entry = Last(es)
  BY <1>0, <1>2 DEF WriteCount
<1>4. segments' = [segments EXCEPT ![N] = segment]
  BY <1>1, <1>2, <1>3
<1>5. /\ segment \in SegmentsOf(MergedEntries) /\ segment.entries = es
      /\ segment.write_count = Len(es)
  BY <1>2 DEF SegmentsOf
<1>6. segment.write_count <= Len(segment.entries)
  BY <1>2, <1>5
<1>7. entry = es[k + 1] /\ entry \in MergedEntries
  BY <1>1, <1>2, <1>3 DEF Last
<1>8. CountedOf(segment) = Append(CountedOf(segments[N]), entry)
  <2>1. CountedOf(segment) = UpTo(es, k + 1) /\ CountedOf(segments[N]) = UpTo(es, k)
    BY <1>1, <1>5 DEF CountedOf, UpTo
  <2> HIDE DEF es, k, segment
  <2>2. k \in 0 .. Len(es) - 1
    BY <1>1, <1>2
  <2>3. UpTo(es, k + 1) = Append(UpTo(es, k), es[k + 1])
    BY <1>2, <2>2, StartFacts
  <2>4. QED
    BY <1>7, <2>1, <2>3
<1>9. PICK t \in Seq(MergedEntries) : t = <<entry>>
  <2>1. <<entry>> \in Seq(MergedEntries)
    BY <1>7
  <2>2. QED
    BY <2>1
<1> HIDE DEF segment, es, k
<1>10. CountedOf(segment) = CountedOf(segments[N]) \o t
  BY <1>2, <1>7, <1>8, <1>9, AppendIsConcat
<1>11. PICK ss : ss = segments'
  OBVIOUS
<1>12. Countable(ss) /\ FlattenSeq(CountedIn(ss)) = FlattenSeq(CountedIn(segments)) \o t
  <2>1. Countable(segments) /\ segments # <<>>
    BY <1>1
  <2>2. segment \in SegmentsOf(MergedEntries)
    BY <1>5
  <2>3. QED
    BY <1>4, <1>6, <1>9, <1>10, <1>11, <2>1, <2>2, LastCounted
<1>13. OnDisk \in Seq(MergedEntries)
  BY <1>1, CountedTyped, OnDiskCounted
<1>14. OnDisk' = OnDisk \o t
  BY <1>11, <1>12, OnDiskCounted
<1>15. OnDisk' = Append(OnDisk, entry)
  BY <1>7, <1>9, <1>13, <1>14, AppendIsConcat
<1>16. Rightly(entry, next + 1)
  BY <1>1, <1>3 DEF Rightly, es
<1>17. QED
  BY <1>0, <1>1, <1>7, <1>11, <1>12, <1>13, <1>15, <1>16

LEMMA DiskLists ==
  ASSUME DiskInv, SegmentsInv, TablesInv, ListEntry
  PROVE  DiskInv'
<1>1. PICK entry : entry = Last(Last(segments).entries)
  OBVIOUS
<1>2. /\ Countable(segments') /\ OnDisk' = Append(OnDisk, entry)
      /\ OnDisk \in Seq(MergedEntries) /\ entry \in MergedEntries
      /\ Len(OnDisk) = next /\ Rightly(entry, next + 1)
  BY <1>1, EntryCounted
<1>3. parsed' = parsed /\ next' = next + 1 /\ pc' = "merge" /\ next \in Nat
  BY <1>2 DEF ListEntry
<1>4. \A e, n : Rightly(e, n)' <=> Rightly(e, n)
  BY <1>3, SameLog
<1>5. /\ Len(OnDisk') = next' /\ DOMAIN OnDisk' = 1 .. next + 1
      /\ OnDisk'[next + 1] = entry
      /\ \A n \in 1 .. next : OnDisk'[n] = OnDisk[n] /\ n \in DOMAIN OnDisk
  BY <1>2, <1>3, AppendProperties
<1>6. ASSUME NEW n \in DOMAIN OnDisk' PROVE Rightly(OnDisk[n], n)'
  <2>1. PICK e : e = OnDisk'[n]
    OBVIOUS
  <2>2. n = next + 1 \/ n \in 1 .. next
    BY <1>3, <1>5
  <2>3. Rightly(e, n)
    <3>1. CASE n = next + 1
      BY <1>2, <1>5, <2>1, <3>1
    <3>2. CASE n \in 1 .. next
      BY <1>5, <2>1, <3>2 DEF DiskInv
    <3>3. QED
      BY <2>2, <3>1, <3>2
  <2>4. Rightly(e, n)'
    BY <1>4, <2>3
  <2>5. QED
    BY <2>1, <2>4
<1>7. Countable(segments)'
  BY <1>2 DEF Countable
<1>8. QED
  BY <1>3, <1>5, <1>6, <1>7 DEF DiskInv

LEMMA DiskHolds == Spec => []DiskInv
<1>1. Init => DiskInv
  <2> SUFFICES ASSUME Init PROVE DiskInv
    OBVIOUS
  <2>1. segments = <<>> /\ next = 0 /\ pc = "parse"
    BY DEF Init
  <2>2. Countable(segments)
    BY <2>1 DEF Countable
  <2>3. CountedIn(segments) = <<>>
    BY <2>1 DEF CountedIn
  <2>4. OnDisk = <<>>
    BY <2>3, FlattenEmpty, OnDiskCounted
  <2>5. QED
    BY <2>1, <2>2, <2>4 DEF DiskInv
<1>2. DiskInv /\ SegmentsInv /\ ParsedInv /\ TablesInv /\ [Next]_vars => DiskInv'
  <2> SUFFICES ASSUME DiskInv, SegmentsInv, ParsedInv, TablesInv, [Next]_vars PROVE DiskInv'
    OBVIOUS
  <2>1. CASE Parse
    <3>1. /\ pc' = "open" /\ segments' = segments /\ next' = next /\ next = 0
      BY <2>1 DEF Parse, TablesInv
    <3>2. OnDisk' = OnDisk
      BY <3>1, OnDiskCounted
    <3>3. Countable(segments) /\ Len(OnDisk) = 0 /\ OnDisk \in Seq(MergedEntries)
      BY <3>1, CountedTyped, OnDiskCounted DEF DiskInv
    <3>4. DOMAIN OnDisk = {}
      BY <3>3
    <3>5. Countable(segments)'
      BY <3>1, <3>3 DEF Countable
    <3>6. QED
      BY <3>1, <3>2, <3>3, <3>4, <3>5 DEF DiskInv
  <2>2. CASE FailToOpen \/ Kill
    <3>1. /\ pc' # "list" /\ segments' = segments /\ next' = next /\ parsed' = parsed
      BY <2>2 DEF FailToOpen, Kill
    <3>2. OnDisk' = OnDisk
      BY <3>1, OnDiskCounted
    <3>3. Countable(segments)'
      BY <3>1 DEF DiskInv, Countable
    <3>4. QED
      BY <3>1, <3>2, <3>3, DiskStays
  <2>3. CASE UNCHANGED vars
    <3>1. pc' = pc /\ segments' = segments /\ next' = next /\ parsed' = parsed
      BY <2>3 DEF vars
    <3>2. OnDisk' = OnDisk
      BY <3>1, OnDiskCounted
    <3>3. \A e, n : Rightly(e, n)' <=> Rightly(e, n)
      BY <3>1, SameLog
    <3>4. Countable(segments)'
      BY <3>1 DEF DiskInv, Countable
    <3>5. (\A n \in DOMAIN OnDisk : Rightly(OnDisk[n], n))'
      BY <3>2, <3>3 DEF DiskInv
    <3>6. pc' = "list" => Rightly(Last(segments[Len(segments)].entries), next + 1)'
      <4>1. PICK e, n : e = Last(segments[Len(segments)].entries) /\ n = next + 1
        OBVIOUS
      <4>2. pc = "list" => Rightly(e, n)
        BY <4>1 DEF DiskInv
      <4>3. pc' = "list" => Rightly(e, n)'
        BY <3>1, <3>3, <4>2
      <4>4. Last(segments[Len(segments)].entries)' = e /\ (next + 1)' = n
        BY <3>1, <4>1 DEF Last
      <4>5. QED
        BY <4>3, <4>4 DEF Rightly, Earlier, Latest
    <3>7. QED
      BY <3>1, <3>2, <3>4, <3>5, <3>6 DEF DiskInv
  <2>4. QED
    BY <2>1, <2>2, <2>3, DiskOpens, DiskCloses, DiskWrites, DiskLists DEF Next, Worker
<1>3. QED
  BY <1>1, <1>2, SegmentsHold, ParsedHolds, TablesHold, PTL DEF Spec

(* At every moment, and when the worker is killed or fails, what readers of  *)
(* the segment files of can_parser_run_worker_segmented can count is the     *)
(* first entries of the log, each with the timestamp of the entry of its id  *)
(* before it and told whether its data differ; at the end it is all of them. *)
THEOREM DiskIsTheLog == Spec => []OnDiskIsTheLog
<1>1. DiskInv /\ TablesInv => OnDiskIsTheLog
  BY DEF DiskInv, TablesInv, OnDiskIsTheLog
<1>2. QED
  BY <1>1, DiskHolds, TablesHold, PTL


-----------------------------------------------------------------------------
(* The lists of rows.                                                        *)

RowNumbers(n) == [k \in 1 .. n |-> k - 1]

LEMMA RowNumbersFacts ==
  ASSUME NEW n \in Nat
  PROVE  /\ RowNumbers(n) \in Seq(Nat) /\ Len(RowNumbers(n)) = n
         /\ RowNumbers(0) = <<>> /\ RowNumbers(n + 1) = Append(RowNumbers(n), n)
<1>1. ASSUME NEW m \in Nat
      PROVE  RowNumbers(m) \in Seq(Nat) /\ Len(RowNumbers(m)) = m
             /\ \A k \in 1 .. m : RowNumbers(m)[k] = k - 1
  <2> DEFINE f == RowNumbers(m)
  <2>1. f = [k \in 1 .. m |-> k - 1]
    BY DEF RowNumbers
  <2> HIDE DEF f
  <2>2. f = [k \in 1 .. m |-> f[k]] /\ \A k \in 1 .. m : f[k] = k - 1 /\ f[k] \in Nat
    BY <2>1
  <2>3. IsList(f, m, Nat)
    BY <2>2 DEF IsList
  <2>4. f \in Seq(Nat) /\ Len(f) = m
    BY <2>3, ListIsSeq
  <2>5. QED
    BY <2>2, <2>4 DEF f
<1>2. RowNumbers(0) = <<>>
  <2>1. RowNumbers(0) \in Seq(Nat) /\ Len(RowNumbers(0)) = 0
    BY <1>1
  <2>2. QED
    BY <2>1
<1> DEFINE f == RowNumbers(n)
           g == RowNumbers(n + 1)
           h == Append(f, n)
<1>3. /\ f \in Seq(Nat) /\ Len(f) = n /\ \A k \in 1 .. n : f[k] = k - 1
      /\ g \in Seq(Nat) /\ Len(g) = n + 1 /\ \A k \in 1 .. n + 1 : g[k] = k - 1
  <2>1. n + 1 \in Nat
    OBVIOUS
  <2>2. QED
    BY <1>1, <2>1
<1> HIDE DEF f, g
<1>4. h \in Seq(Nat) /\ Len(h) = n + 1 /\ h[n + 1] = n /\ \A k \in 1 .. n : h[k] = f[k]
  BY <1>3, AppendProperties
<1> HIDE DEF h
<1>5. \A k \in 1 .. n + 1 : k = n + 1 \/ k \in 1 .. n
  OBVIOUS
<1>6. \A k \in 1 .. n + 1 : g[k] = h[k]
  BY <1>3, <1>4, <1>5
<1>7. g = h
  BY <1>3, <1>4, <1>6, SeqEqual
<1>8. QED
  BY <1>2, <1>3, <1>7 DEF f, g, h

SameRows(n, S, T) == \A r \in 0 .. n - 1 : r \in S <=> r \in T

LEMMA RowAdded ==
  ASSUME NEW n \in Nat, NEW S
  PROVE  Select(RowNumbers(n + 1), S) = IF n \in S THEN Append(Select(RowNumbers(n), S), n)
                                                   ELSE Select(RowNumbers(n), S)
<1> DEFINE X == Nat
           u == RowNumbers(n)
<1>1. u \in Seq(X) /\ n \in X /\ RowNumbers(n + 1) = Append(u, n)
  BY RowNumbersFacts
<1> HIDE DEF X, u
<1>2. Select(Append(u, n), S) = IF n \in S THEN Append(Select(u, S), n) ELSE Select(u, S)
  BY <1>1, SelectAppend
<1>3. QED
  BY <1>1, <1>2 DEF u

LEMMA RowsAgree ==
  ASSUME NEW n \in Nat, NEW S, NEW T, SameRows(n, S, T)
  PROVE  Select(RowNumbers(n), S) = Select(RowNumbers(n), T)
<1> DEFINE Good(m) == Select(RowNumbers(m), S) = Select(RowNumbers(m), T)
           G == {m \in Nat : m \in 0 .. n => Good(m)}
<1>1. Good(0)
  BY SelectEmpty, RowNumbersFacts
<1>2. ASSUME NEW m \in 0 .. n - 1, Good(m) PROVE Good(m + 1)
  <2>1. m \in Nat /\ (m \in S <=> m \in T)
    BY DEF SameRows
  <2> DEFINE a == Select(RowNumbers(m), S)
             b == Select(RowNumbers(m), T)
  <2>2. /\ Select(RowNumbers(m + 1), S) = IF m \in S THEN Append(a, m) ELSE a
        /\ Select(RowNumbers(m + 1), T) = IF m \in T THEN Append(b, m) ELSE b
    BY <2>1, RowAdded
  <2>3. a = b
    BY <1>2
  <2> HIDE DEF a, b
  <2>4. QED
    BY <2>1, <2>2, <2>3
<1> HIDE DEF Good
<1>3. 0 \in G
  BY <1>1
<1>4. ASSUME NEW m \in 0 .. n - 1, m \in G PROVE m + 1 \in G
  <2>1. m \in 0 .. n /\ m + 1 \in Nat
    OBVIOUS
  <2>2. Good(m)
    BY <1>4, <2>1
  <2>3. QED
    BY <1>2, <2>1, <2>2
<1> HIDE DEF G
<1>5. \A m \in 0 .. n : m \in G
  BY <1>3, <1>4, IntervalInduction
<1>6. n \in 0 .. n
  OBVIOUS
<1>7. QED
  BY <1>5, <1>6 DEF G, Good

(* One more row is listed if it belongs to the list. *)
LEMMA RowsGrow ==
  ASSUME NEW n \in Nat, NEW S, NEW T, SameRows(n, S, T)
  PROVE  /\ n \in T => Select(RowNumbers(n + 1), T) = Append(Select(RowNumbers(n), S), n)
         /\ n \notin T => Select(RowNumbers(n + 1), T) = Select(RowNumbers(n), S)
<1> DEFINE a == Select(RowNumbers(n), T)
           b == Select(RowNumbers(n), S)
           c == Select(RowNumbers(n + 1), T)
<1>1. b = a
  BY RowsAgree
<1>2. c = IF n \in T THEN Append(a, n) ELSE a
  BY RowAdded
<1> HIDE DEF a, b, c
<1>3. (n \in T => c = Append(b, n)) /\ (n \notin T => c = b)
  BY <1>1, <1>2
<1>4. QED
  BY <1>3 DEF a, b, c

LEMMA NoRows ==
  ASSUME NEW n \in Nat
  PROVE  Select(RowNumbers(n), {}) = <<>>
<1>1. RowNumbers(n) \in Seq(Nat)
  BY RowNumbersFacts
<1> DEFINE r == Select(RowNumbers(n), {})
<1>2. r \in Seq(Nat \cap {})
  BY <1>1, SelectTyped
<1> HIDE DEF r
<1>3. Len(r) = 0
  <2>1. SUFFICES ASSUME Len(r) # 0 PROVE FALSE
    OBVIOUS
  <2>2. 1 \in 1 .. Len(r) /\ Len(r) \in Nat
    BY <1>2, <2>1
  <2>3. r[1] \in Nat \cap {}
    BY <1>2, <2>2
  <2>4. QED
    BY <2>3
<1>4. r = <<>>
  BY <1>2, <1>3
<1>5. QED
  BY <1>4 DEF r


(* The row that is listed, and the sets of rows with it. *)
LEMMA RowListed ==
  ASSUME DiskInv, SegmentsInv, ListEntry, NEW e, e = Last(Last(segments).entries)
  PROVE  /\ next \in Nat /\ next' = next + 1 /\ e \in MergedEntries /\ e.kind \in Kinds
         /\ \A id : /\ SameRows(next, RowsOf(id), RowsOf(id)')
                    /\ next \in RowsOf(id)' <=> e.kind.id = id
         /\ /\ SameRows(next, ChangedRows, ChangedRows')
            /\ next \in ChangedRows' <=> e.changed
         /\ \A d : /\ SameRows(next, RowsTowards(d), RowsTowards(d)')
                   /\ next \in RowsTowards(d)' <=> e.kind.direction = d
         /\ \A c : /\ SameRows(next, RowsOn(c), RowsOn(c)')
                   /\ next \in RowsOn(c)' <=> e.kind.channel = c
<1>1. /\ OnDisk' = Append(OnDisk, e) /\ OnDisk \in Seq(MergedEntries) /\ e \in MergedEntries
      /\ Len(OnDisk) = next
  BY EntryCounted
<1>2. next \in Nat /\ next' = next + 1 /\ e.kind \in Kinds
  BY <1>1 DEF ListEntry, MergedEntries
<1>3. OnDisk'[next + 1] = e /\ \A r \in 0 .. next - 1 : OnDisk'[r + 1] = OnDisk[r + 1]
  <2>1. \A r \in 0 .. next - 1 : r + 1 \in 1 .. next
    BY <1>2
  <2>2. QED
    BY <1>1, <2>1, AppendProperties
<1>4. /\ \A r : r \in 0 .. next' - 1 <=> r \in 0 .. next - 1 \/ r = next
      /\ next \notin 0 .. next - 1
  BY <1>2
<1>5. ASSUME NEW id
      PROVE  SameRows(next, RowsOf(id), RowsOf(id)') /\ (next \in RowsOf(id)' <=> e.kind.id = id)
  BY <1>3, <1>4 DEF SameRows, RowsOf
<1>6. SameRows(next, ChangedRows, ChangedRows') /\ (next \in ChangedRows' <=> e.changed)
  BY <1>3, <1>4 DEF SameRows, ChangedRows
<1>7. ASSUME NEW d
      PROVE  /\ SameRows(next, RowsTowards(d), RowsTowards(d)')
             /\ next \in RowsTowards(d)' <=> e.kind.direction = d
  BY <1>3, <1>4 DEF SameRows, RowsTowards
<1>8. ASSUME NEW c
      PROVE  SameRows(next, RowsOn(c), RowsOn(c)') /\ (next \in RowsOn(c)' <=> e.kind.channel = c)
  BY <1>3, <1>4 DEF SameRows, RowsOn
<1>9. QED
  BY <1>1, <1>2, <1>5, <1>6, <1>7, <1>8

LEMMA RowsAre == \A S : RowsIn(S) = Select(RowNumbers(next), S)
  BY DEF RowsIn, RowNumbers

LEMMA RowsAreNext ==
  /\ \A id : /\ RowsIn(RowsOf(id))' = Select(RowNumbers(next'), RowsOf(id)')
             /\ RowsIn(RowsOf(id) \cap ChangedRows)'
                  = Select(RowNumbers(next'), RowsOf(id)' \cap ChangedRows')
  /\ \A d : RowsIn(RowsTowards(d))' = Select(RowNumbers(next'), RowsTowards(d)')
  /\ \A c : RowsIn(RowsOn(c))' = Select(RowNumbers(next'), RowsOn(c)')
  BY DEF RowsIn, RowNumbers

IdListsInv ==
  /\ DOMAIN by_id = Ids /\ DOMAIN changed_by_id = Ids /\ DOMAIN by_direction = {0, 1}
  /\ \A id \in Ids : /\ by_id[id] = RowsIn(RowsOf(id))
                     /\ changed_by_id[id] = RowsIn(RowsOf(id) \cap ChangedRows)
  /\ \A d \in {0, 1} : by_direction[d] = RowsIn(RowsTowards(d))

LEMMA IdsListed ==
  ASSUME IdListsInv, DiskInv, SegmentsInv, ListEntry
  PROVE  IdListsInv'
<1>1. PICK e : e = Last(Last(segments).entries)
  OBVIOUS
<1> DEFINE e_id == e.kind.id
           n == next
<1>2. /\ n \in Nat /\ next' = n + 1 /\ e \in MergedEntries /\ e.kind \in Kinds
      /\ \A id : /\ SameRows(n, RowsOf(id), RowsOf(id)')
                 /\ n \in RowsOf(id)' <=> e.kind.id = id
      /\ /\ SameRows(n, ChangedRows, ChangedRows')
         /\ n \in ChangedRows' <=> e.changed
      /\ \A d : /\ SameRows(n, RowsTowards(d), RowsTowards(d)')
                /\ n \in RowsTowards(d)' <=> e.kind.direction = d
  BY <1>1, RowListed
<1>3. /\ by_id' = [by_id EXCEPT ![e_id] = Append(@, n)]
      /\ changed_by_id' = IF e.changed THEN [changed_by_id EXCEPT ![e_id] = Append(@, n)]
                                       ELSE changed_by_id
      /\ by_direction' = [by_direction EXCEPT ![e.kind.direction] = Append(@, n)]
  BY <1>1 DEF ListEntry, RowIndex
<1>4. e_id \in Ids /\ e.kind.direction \in {0, 1} /\ e.changed \in BOOLEAN
  BY <1>2, SegmentsAssumption DEF Ids, MergedEntries
<1>5. /\ DOMAIN by_id = Ids /\ DOMAIN changed_by_id = Ids /\ DOMAIN by_direction = {0, 1}
      /\ \A id \in Ids : /\ by_id[id] = Select(RowNumbers(n), RowsOf(id))
                         /\ changed_by_id[id] = Select(RowNumbers(n), RowsOf(id) \cap ChangedRows)
      /\ \A d \in {0, 1} : by_direction[d] = Select(RowNumbers(n), RowsTowards(d))
  BY RowsAre DEF IdListsInv
<1> HIDE DEF n, e_id
<1>6. ASSUME NEW id \in Ids PROVE by_id'[id] = Select(RowNumbers(next'), RowsOf(id)')
  <2>1. n \in RowsOf(id)' <=> e_id = id
    BY <1>2 DEF e_id
  <2>2. /\ n \in RowsOf(id)' => Select(RowNumbers(n + 1), RowsOf(id)')
                                  = Append(Select(RowNumbers(n), RowsOf(id)), n)
        /\ n \notin RowsOf(id)' => Select(RowNumbers(n + 1), RowsOf(id)')
                                     = Select(RowNumbers(n), RowsOf(id))
    BY <1>2, RowsGrow
  <2>3. /\ e_id = id => by_id'[id] = Append(by_id[id], n)
        /\ e_id # id => by_id'[id] = by_id[id]
    BY <1>3, <1>4, <1>5
  <2>4. QED
    BY <1>2, <1>5, <2>1, <2>2, <2>3
<1>7. ASSUME NEW id \in Ids
      PROVE  changed_by_id'[id] = Select(RowNumbers(next'), RowsOf(id)' \cap ChangedRows')
  <2> DEFINE S == RowsOf(id) \cap ChangedRows
             T == RowsOf(id)' \cap ChangedRows'
  <2>1. n \in T <=> e_id = id /\ e.changed
    BY <1>2 DEF e_id
  <2>2. SameRows(n, S, T)
    BY <1>2 DEF SameRows
  <2>3. changed_by_id[id] = Select(RowNumbers(n), S)
    BY <1>5
  <2>4. /\ e_id = id /\ e.changed => changed_by_id'[id] = Append(changed_by_id[id], n)
        /\ ~(e_id = id /\ e.changed) => changed_by_id'[id] = changed_by_id[id]
    BY <1>3, <1>4, <1>5
  <2> HIDE DEF S, T
  <2>5. /\ n \in T => Select(RowNumbers(n + 1), T) = Append(Select(RowNumbers(n), S), n)
        /\ n \notin T => Select(RowNumbers(n + 1), T) = Select(RowNumbers(n), S)
    BY <1>2, <2>2, RowsGrow
  <2>6. changed_by_id'[id] = Select(RowNumbers(next'), T)
    BY <1>2, <2>1, <2>3, <2>4, <2>5
  <2>7. QED
    BY <2>6 DEF T
<1>8. ASSUME NEW d \in {0, 1} PROVE by_direction'[d] = Select(RowNumbers(next'), RowsTowards(d)')
  <2>1. n \in RowsTowards(d)' <=> e.kind.direction = d
    BY <1>2
  <2>2. /\ n \in RowsTowards(d)' => Select(RowNumbers(n + 1), RowsTowards(d)')
                                      = Append(Select(RowNumbers(n), RowsTowards(d)), n)
        /\ n \notin RowsTowards(d)' => Select(RowNumbers(n + 1), RowsTowards(d)')
                                         = Select(RowNumbers(n), RowsTowards(d))
    BY <1>2, RowsGrow
  <2>3. /\ e.kind.direction = d => by_direction'[d] = Append(by_direction[d], n)
        /\ e.kind.direction # d => by_direction'[d] = by_direction[d]
    BY <1>3, <1>4, <1>5
  <2>4. QED
    BY <1>2, <1>5, <2>1, <2>2, <2>3
<1>9. /\ DOMAIN by_id' = Ids /\ DOMAIN changed_by_id' = Ids /\ DOMAIN by_direction' = {0, 1}
  BY <1>3, <1>5
<1>10. QED
  BY <1>6, <1>7, <1>8, <1>9, RowsAreNext DEF IdListsInv


Distinct == Len(channel_table) <= ChannelNumbers

(* A channel without a number has no rows; as long as there are numbers for  *)
(* all of them, a channel's number is its place in the table.                *)
ChannelsInv ==
  /\ DOMAIN channel_of = Channels
  /\ channel_table \in Seq(Channels) /\ by_channel \in Seq(Seq(Nat))
  /\ Len(by_channel) = Len(channel_table)
  /\ \A channel \in Channels :
        /\ channel_of[channel] = None => RowsOn(channel) = {}
        /\ channel_of[channel] # None => channel_of[channel] \in 0 .. Len(channel_table) - 1
  /\ Distinct => \A channel \in Channels : channel_of[channel] # None =>
                    channel_table[channel_of[channel] + 1] = channel
  /\ Distinct => \A c \in 1 .. Len(channel_table) : channel_of[channel_table[c]] = c - 1
  /\ Distinct => \A c \in 1 .. Len(channel_table) :
                    by_channel[c] = Select(RowNumbers(next), RowsOn(channel_table[c]))

(* What ListChannel does to a list of rows. *)
LEMMA RowOfChannel ==
  ASSUME NEW n \in Nat, NEW c, NEW channel,
         SameRows(n, RowsOn(c), RowsOn(c)'), n \in RowsOn(c)' <=> channel = c
  PROVE  /\ channel = c => Select(RowNumbers(n + 1), RowsOn(c)')
                             = Append(Select(RowNumbers(n), RowsOn(c)), n)
         /\ channel # c => Select(RowNumbers(n + 1), RowsOn(c)')
                             = Select(RowNumbers(n), RowsOn(c))
<1> DEFINE S == RowsOn(c)
           T == RowsOn(c)'
<1>1. SameRows(n, S, T) /\ (n \in T <=> channel = c)
  OBVIOUS
<1> HIDE DEF S, T
<1>2. /\ n \in T => Select(RowNumbers(n + 1), T) = Append(Select(RowNumbers(n), S), n)
      /\ n \notin T => Select(RowNumbers(n + 1), T) = Select(RowNumbers(n), S)
  BY <1>1, RowsGrow
<1>3. QED
  BY <1>1, <1>2 DEF S, T

(* A channel that is seen for the first time. *)
LEMMA NewChannel ==
  ASSUME ChannelsInv, NEW n \in Nat, n = next, next' = n + 1,
         NEW ch \in Channels, ListChannel(ch, n), channel_of[ch] = None,
         \A c : SameRows(n, RowsOn(c), RowsOn(c)') /\ (n \in RowsOn(c)' <=> ch = c)
  PROVE  ChannelsInv'
<1> DEFINE L == Len(channel_table)
           number == L % ChannelNumbers
           lists == Append(by_channel, <<>>)
<1>1. /\ channel_table' = Append(channel_table, ch)
      /\ channel_of' = [channel_of EXCEPT ![ch] = number]
      /\ by_channel' = [lists EXCEPT ![number + 1] = Append(@, n)]
  BY DEF ListChannel
<1>2. /\ DOMAIN channel_of = Channels
      /\ channel_table \in Seq(Channels) /\ by_channel \in Seq(Seq(Nat))
      /\ Len(by_channel) = L /\ L \in Nat
  BY DEF ChannelsInv
<1>3. ChannelNumbers \in Nat \ {0}
  BY SegmentsAssumption
<1>4. number \in 0 .. L /\ (L < ChannelNumbers => number = L)
  <2> DEFINE C == ChannelNumbers
             q == L \div C
  <2>1. C \in Nat \ {0} /\ L \in Nat
    BY <1>2, <1>3
  <2> HIDE DEF L, C
  <2>2. (L % C) \in 0 .. C - 1 /\ q \in Nat /\ L = C * q + (L % C)
    BY <2>1
  <2> HIDE DEF q
  <2>3. number = L % C
    BY DEF C
  <2> HIDE DEF number
  <2>4. CASE q = 0
    BY <2>1, <2>2, <2>3, <2>4 DEF C
  <2>5. CASE q # 0
    <3>1. C * q >= C
      BY <2>1, <2>2, <2>5
    <3>2. L >= C
      BY <2>1, <2>2, <3>1
    <3>3. QED
      BY <2>1, <2>2, <2>3, <3>2 DEF C
  <2>6. QED
    BY <2>4, <2>5
<1> HIDE DEF number
<1>5. /\ lists \in Seq(Seq(Nat)) /\ Len(lists) = L + 1 /\ lists[L + 1] = <<>>
      /\ DOMAIN lists = 1 .. L + 1 /\ \A c \in 1 .. L : lists[c] = by_channel[c]
  <2>1. <<>> \in Seq(Nat)
    OBVIOUS
  <2>2. QED
    BY <1>2, <2>1, AppendProperties
<1>6. /\ channel_table' \in Seq(Channels) /\ Len(channel_table') = L + 1
      /\ channel_table'[L + 1] = ch /\ \A c \in 1 .. L : channel_table'[c] = channel_table[c]
  BY <1>1, <1>2, AppendProperties
<1> HIDE DEF lists, L
<1>7. number + 1 \in 1 .. L + 1 /\ \A c \in 1 .. L + 1 : c \in 1 .. L \/ c = L + 1
  BY <1>2, <1>4
<1>8. /\ by_channel'[number + 1] = Append(lists[number + 1], n)
      /\ \A c \in 1 .. L + 1 : c # number + 1 => by_channel'[c] = lists[c]
  BY <1>1, <1>5, <1>7
<1>9. by_channel' \in Seq(Seq(Nat)) /\ Len(by_channel') = L + 1
  <2> DEFINE X == Seq(Nat)
  <2>1. Append(lists[number + 1], n) \in X /\ lists \in Seq(X)
    BY <1>5, <1>7, AppendProperties
  <2> HIDE DEF X
  <2>2. [lists EXCEPT ![number + 1] = Append(@, n)] \in Seq(X)
        /\ Len([lists EXCEPT ![number + 1] = Append(@, n)]) = Len(lists)
    BY <1>5, <1>7, <2>1
  <2>3. QED
    BY <1>1, <1>5, <2>2 DEF X
<1>10. /\ DOMAIN channel_of' = Channels /\ channel_of'[ch] = number /\ number # None
       /\ \A c \in Channels : c # ch => channel_of'[c] = channel_of[c]
  BY <1>1, <1>2, <1>4 DEF None
<1>11. ASSUME NEW c \in Channels
       PROVE  /\ channel_of'[c] = None => RowsOn(c)' = {}
              /\ channel_of'[c] # None => channel_of'[c] \in 0 .. L
  <2>1. CASE c = ch
    BY <1>4, <1>10, <2>1
  <2>2. CASE c # ch
    <3>1. channel_of'[c] = channel_of[c]
      BY <1>10, <2>2
    <3>2. channel_of[c] # None => channel_of[c] \in 0 .. L - 1
      BY DEF ChannelsInv, L
    <3>3. channel_of[c] = None => RowsOn(c)' = {}
      <4>1. SUFFICES ASSUME channel_of[c] = None PROVE RowsOn(c)' = {}
        OBVIOUS
      <4>2. RowsOn(c) = {} /\ n \notin RowsOn(c)'
        BY <2>2, <4>1 DEF ChannelsInv
      <4>3. RowsOn(c)' \subseteq 0 .. n
        BY DEF RowsOn
      <4>4. \A r \in 0 .. n : r \in 0 .. n - 1 \/ r = n
        OBVIOUS
      <4>5. QED
        BY <4>2, <4>3, <4>4 DEF SameRows
    <3>4. QED
      BY <1>2, <3>1, <3>2, <3>3
  <2>3. QED
    BY <2>1, <2>2
<1>12. ASSUME L + 1 <= ChannelNumbers
       PROVE  /\ number = L
              /\ \A c \in Channels : channel_of[c] # None =>
                    channel_of[c] \in 0 .. L - 1 /\ channel_table[channel_of[c] + 1] = c
              /\ \A c \in 1 .. L : channel_of[channel_table[c]] = c - 1 /\ channel_table[c] # ch
              /\ \A c \in 1 .. L : by_channel[c] = Select(RowNumbers(n), RowsOn(channel_table[c]))
  <2>1. Distinct /\ L < ChannelNumbers
    BY <1>2, <1>3, <1>12 DEF Distinct, L
  <2>2. \A c \in Channels : channel_of[c] # None =>
           channel_of[c] \in 0 .. L - 1 /\ channel_table[channel_of[c] + 1] = c
    BY <2>1 DEF ChannelsInv, L
  <2>3. \A c \in 1 .. L : channel_of[channel_table[c]] = c - 1
    BY <2>1 DEF ChannelsInv, L
  <2>4. \A c \in 1 .. L : by_channel[c] = Select(RowNumbers(n), RowsOn(channel_table[c]))
    BY <2>1 DEF ChannelsInv, L
  <2>5. \A c \in 1 .. L : channel_table[c] # ch
    BY <1>2, <2>3 DEF None
  <2>6. QED
    BY <1>4, <2>1, <2>2, <2>3, <2>4, <2>5
<1>13. ASSUME L + 1 <= ChannelNumbers, NEW c \in Channels, channel_of'[c] # None
       PROVE  channel_table'[channel_of'[c] + 1] = c
  <2>1. CASE c = ch
    BY <1>6, <1>10, <1>12, <1>13, <2>1
  <2>2. CASE c # ch
    <3>1. /\ channel_of'[c] = channel_of[c] /\ channel_of[c] \in 0 .. L - 1
          /\ channel_table[channel_of[c] + 1] = c
      BY <1>10, <1>12, <1>13, <2>2
    <3>2. channel_of[c] + 1 \in 1 .. L
      BY <1>2, <3>1
    <3>3. QED
      BY <1>6, <3>1, <3>2
  <2>3. QED
    BY <2>1, <2>2
<1>14. ASSUME L + 1 <= ChannelNumbers, NEW c \in 1 .. L + 1
       PROVE  /\ channel_of'[channel_table'[c]] = c - 1
              /\ by_channel'[c] = Select(RowNumbers(next'), RowsOn(channel_table[c])')
  <2>1. PICK t : t = channel_table'[c]
    OBVIOUS
  <2>2. /\ ch = t => Select(RowNumbers(n + 1), RowsOn(t)')
                       = Append(Select(RowNumbers(n), RowsOn(t)), n)
        /\ ch # t => Select(RowNumbers(n + 1), RowsOn(t)')
                       = Select(RowNumbers(n), RowsOn(t))
    BY RowOfChannel
  <2>3. CASE c = L + 1
    <3>1. t = ch /\ channel_of'[t] = c - 1
      BY <1>2, <1>6, <1>10, <1>12, <1>14, <2>1, <2>3
    <3>2. RowsOn(t) = {}
      BY <3>1 DEF ChannelsInv
    <3>3. Select(RowNumbers(n), RowsOn(t)) = <<>>
      BY <3>2, NoRows
    <3>4. by_channel'[c] = Append(<<>>, n)
      BY <1>5, <1>8, <1>12, <1>14, <2>3
    <3>5. by_channel'[c] = Select(RowNumbers(n + 1), RowsOn(t)')
      BY <2>2, <3>1, <3>3, <3>4
    <3>6. QED
      BY <2>1, <3>1, <3>5 DEF RowsOn
  <2>4. CASE c \in 1 .. L
    <3>1. t = channel_table[c] /\ t # ch /\ channel_of[t] = c - 1
      BY <1>6, <1>12, <1>14, <2>1, <2>4
    <3>2. t \in Channels
      BY <1>2, <2>4, <3>1 DEF L
    <3>3. channel_of'[t] = c - 1
      BY <1>10, <3>1, <3>2
    <3>4. c # number + 1
      BY <1>2, <1>12, <1>14, <2>4
    <3>5. by_channel'[c] = by_channel[c]
      BY <1>5, <1>7, <1>8, <2>4, <3>4
    <3>6. by_channel[c] = Select(RowNumbers(n), RowsOn(t))
      BY <1>12, <1>14, <2>4, <3>1
    <3>7. by_channel'[c] = Select(RowNumbers(n + 1), RowsOn(t)')
      BY <2>2, <3>1, <3>5, <3>6
    <3>8. QED
      BY <2>1, <3>3, <3>7 DEF RowsOn
  <2>5. QED
    BY <1>7, <2>3, <2>4
<1>15. (L + 1) - 1 = L
  BY <1>2
<1>16. QED
  BY <1>6, <1>9, <1>10, <1>11, <1>13, <1>14, <1>15 DEF ChannelsInv, Distinct


(* A channel that has its number. *)
LEMMA KnownChannel ==
  ASSUME ChannelsInv, NEW n \in Nat, n = next, next' = n + 1,
         NEW ch \in Channels, ListChannel(ch, n), channel_of[ch] # None,
         \A c : SameRows(n, RowsOn(c), RowsOn(c)') /\ (n \in RowsOn(c)' <=> ch = c)
  PROVE  ChannelsInv'
<1> DEFINE L == Len(channel_table)
           number == channel_of[ch]
<1>1. /\ channel_table' = channel_table
      /\ channel_of' = [channel_of EXCEPT ![ch] = number]
      /\ by_channel' = [by_channel EXCEPT ![number + 1] = Append(@, n)]
  BY DEF ListChannel
<1>2. /\ DOMAIN channel_of = Channels
      /\ channel_table \in Seq(Channels) /\ by_channel \in Seq(Seq(Nat))
      /\ Len(by_channel) = L /\ L \in Nat /\ DOMAIN by_channel = 1 .. L
      /\ number \in 0 .. L - 1 /\ number # None
  BY DEF ChannelsInv
<1>3. \A c \in Channels : channel_of'[c] = channel_of[c]
  BY <1>1, <1>2
<1>4. DOMAIN channel_of' = Channels
  BY <1>1, <1>2
<1> HIDE DEF number, L
<1>5. number + 1 \in 1 .. L
  BY <1>2
<1>6. /\ by_channel'[number + 1] = Append(by_channel[number + 1], n)
      /\ \A c \in 1 .. L : c # number + 1 => by_channel'[c] = by_channel[c]
  BY <1>1, <1>2, <1>5
<1>7. by_channel' \in Seq(Seq(Nat)) /\ Len(by_channel') = L
  <2> DEFINE X == Seq(Nat)
  <2>1. Append(by_channel[number + 1], n) \in X /\ by_channel \in Seq(X)
    BY <1>2, <1>5, AppendProperties
  <2> HIDE DEF X
  <2>2. [by_channel EXCEPT ![number + 1] = Append(@, n)] \in Seq(X)
        /\ Len([by_channel EXCEPT ![number + 1] = Append(@, n)]) = Len(by_channel)
    BY <1>2, <1>5, <2>1
  <2>3. QED
    BY <1>1, <1>2, <2>2 DEF X
<1>8. ASSUME NEW c \in Channels
      PROVE  /\ channel_of'[c] = None => RowsOn(c)' = {}
             /\ channel_of'[c] # None => channel_of'[c] \in 0 .. L - 1
  <2>1. channel_of'[c] = channel_of[c]
    BY <1>3
  <2>2. channel_of[c] # None => channel_of[c] \in 0 .. L - 1
    BY DEF ChannelsInv, L
  <2>3. channel_of[c] = None => RowsOn(c)' = {}
    <3>1. SUFFICES ASSUME channel_of[c] = None PROVE RowsOn(c)' = {}
      OBVIOUS
    <3>2. RowsOn(c) = {} /\ n \notin RowsOn(c)'
      BY <3>1 DEF ChannelsInv
    <3>3. RowsOn(c)' \subseteq 0 .. n
      BY DEF RowsOn
    <3>4. \A r \in 0 .. n : r \in 0 .. n - 1 \/ r = n
      OBVIOUS
    <3>5. QED
      BY <3>2, <3>3, <3>4 DEF SameRows
  <2>4. QED
    BY <2>1, <2>2, <2>3
<1>9. ASSUME Distinct
      PROVE  /\ \A c \in Channels : channel_of'[c] # None =>
                   channel_table'[channel_of'[c] + 1] = c
             /\ \A c \in 1 .. L : channel_of'[channel_table'[c]] = c - 1
  <2>1. \A c \in 1 .. L : channel_table[c] \in Channels
    BY <1>2 DEF L
  <2>2. QED
    BY <1>1, <1>3, <1>9, <2>1 DEF ChannelsInv, L
<1>10. ASSUME Distinct, NEW c \in 1 .. L
       PROVE  by_channel'[c] = Select(RowNumbers(next'), RowsOn(channel_table[c])')
  <2>1. PICK t : t = channel_table[c]
    OBVIOUS
  <2>2. /\ ch = t => Select(RowNumbers(n + 1), RowsOn(t)')
                       = Append(Select(RowNumbers(n), RowsOn(t)), n)
        /\ ch # t => Select(RowNumbers(n + 1), RowsOn(t)')
                       = Select(RowNumbers(n), RowsOn(t))
    BY RowOfChannel
  <2>3. channel_of[t] = c - 1 /\ by_channel[c] = Select(RowNumbers(n), RowsOn(t))
    BY <1>10, <2>1 DEF ChannelsInv, L
  <2>4. ch = t <=> c = number + 1
    <3>1. channel_table[number + 1] = ch
      BY <1>2, <1>10 DEF ChannelsInv, number
    <3>2. ch = t => number = c - 1
      BY <2>3 DEF number
    <3>3. QED
      BY <1>2, <2>1, <3>1, <3>2
  <2>5. by_channel'[c] = Select(RowNumbers(n + 1), RowsOn(t)')
    <3>1. CASE ch = t
      BY <1>6, <2>2, <2>3, <2>4, <3>1
    <3>2. CASE ch # t
      BY <1>6, <2>2, <2>3, <2>4, <3>2
    <3>3. QED
      BY <3>1, <3>2
  <2>6. channel_table'[c] = t
    BY <1>1, <2>1
  <2>7. QED
    BY <2>5, <2>6 DEF RowsOn
<1>11. Len(channel_table') = L
  BY <1>1 DEF L
<1>12. QED
  BY <1>1, <1>2, <1>4, <1>7, <1>8, <1>9, <1>10, <1>11 DEF ChannelsInv, Distinct

LEMMA ChannelListed ==
  ASSUME ChannelsInv, DiskInv, SegmentsInv, ListEntry
  PROVE  ChannelsInv'
<1>1. PICK e : e = Last(Last(segments).entries)
  OBVIOUS
<1>2. PICK n : n = next
  OBVIOUS
<1>3. PICK ch : ch = e.kind.channel
  OBVIOUS
<1>4. /\ n \in Nat /\ next' = n + 1 /\ e.kind \in Kinds
      /\ \A c : SameRows(n, RowsOn(c), RowsOn(c)') /\ (n \in RowsOn(c)' <=> ch = c)
  BY <1>1, <1>2, <1>3, RowListed
<1>5. ch \in Channels
  BY <1>3, <1>4 DEF Channels
<1>6. ListChannel(ch, n)
  BY <1>1, <1>2, <1>3 DEF ListEntry, RowIndex
<1>7. QED
  BY <1>2, <1>4, <1>5, <1>6, NewChannel, KnownChannel

(* Nothing is listed, and nothing else counts. *)
LEMMA ListsStay ==
  ASSUME IdListsInv, ChannelsInv, OnDisk' = OnDisk, next' = next, UNCHANGED listVars
  PROVE  IdListsInv' /\ ChannelsInv'
<1>1. /\ by_id' = by_id /\ changed_by_id' = changed_by_id /\ by_direction' = by_direction
      /\ channel_table' = channel_table /\ channel_of' = channel_of /\ by_channel' = by_channel
  BY DEF listVars
<1>2. /\ \A id : RowsOf(id)' = RowsOf(id)
      /\ ChangedRows' = ChangedRows
      /\ \A d : RowsTowards(d)' = RowsTowards(d)
      /\ \A c : RowsOn(c)' = RowsOn(c)
  BY DEF RowsOf, ChangedRows, RowsTowards, RowsOn
<1>3. IdListsInv'
  BY <1>1, <1>2, RowsAre, RowsAreNext DEF IdListsInv
<1>4. ASSUME NEW c \in 1 .. Len(channel_table), Distinct
      PROVE  by_channel'[c] = Select(RowNumbers(next'), RowsOn(channel_table[c])')
  <2>1. PICK t : t = channel_table[c]
    OBVIOUS
  <2>2. by_channel[c] = Select(RowNumbers(next), RowsOn(t))
    BY <1>4, <2>1 DEF ChannelsInv
  <2>3. by_channel'[c] = Select(RowNumbers(next'), RowsOn(t)')
    BY <1>1, <1>2, <2>2
  <2>4. channel_table'[c] = t
    BY <1>1, <2>1
  <2>5. QED
    BY <2>3, <2>4 DEF RowsOn
<1>5. ChannelsInv'
  BY <1>1, <1>2, <1>4 DEF ChannelsInv, Distinct
<1>6. QED
  BY <1>3, <1>5

LEMMA ListsHold == Spec => [](IdListsInv /\ ChannelsInv)
<1>1. Init => IdListsInv /\ ChannelsInv
  <2> SUFFICES ASSUME Init PROVE IdListsInv /\ ChannelsInv
    OBVIOUS
  <2>1. /\ next = 0 /\ by_id = [id \in Ids |-> <<>>] /\ changed_by_id = [id \in Ids |-> <<>>]
        /\ by_direction = [d \in {0, 1} |-> <<>>]
        /\ channel_table = <<>> /\ by_channel = <<>> /\ channel_of = [c \in Channels |-> None]
    BY DEF Init
  <2>2. \A S : RowsIn(S) = <<>>
    BY <2>1, RowsAre, RowNumbersFacts, SelectEmpty
  <2>3. \A c : RowsOn(c) = {}
    BY <2>1 DEF RowsOn
  <2>4. IdListsInv
    BY <2>1, <2>2 DEF IdListsInv
  <2>5. ChannelsInv
    BY <2>1, <2>3 DEF ChannelsInv
  <2>6. QED
    BY <2>4, <2>5
<1>2. /\ IdListsInv /\ ChannelsInv /\ DiskInv /\ SegmentsInv /\ ParsedInv /\ TablesInv
      /\ [Next]_vars
      => IdListsInv' /\ ChannelsInv'
  <2> SUFFICES ASSUME IdListsInv, ChannelsInv, DiskInv, SegmentsInv, ParsedInv, TablesInv,
                      [Next]_vars
               PROVE  IdListsInv' /\ ChannelsInv'
    OBVIOUS
  <2>1. CASE ListEntry
    BY <2>1, IdsListed, ChannelListed
  <2>2. CASE OpenSegment \/ CloseFullSegment \/ CloseLastSegment \/ WriteEntry
    <3>1. next' = next /\ UNCHANGED listVars
      BY <2>2 DEF OpenSegment, CloseFullSegment, CloseLastSegment, WriteEntry
    <3>2. OnDisk' = OnDisk
      BY <2>2, DiskOpens, DiskCloses, DiskWrites
    <3>3. QED
      BY <3>1, <3>2, ListsStay
  <2>3. CASE Parse \/ FailToOpen \/ Kill \/ UNCHANGED vars
    <3>1. next' = next /\ UNCHANGED listVars /\ segments' = segments
      BY <2>3 DEF Parse, FailToOpen, Kill, vars
    <3>2. OnDisk' = OnDisk
      BY <3>1, OnDiskCounted
    <3>3. QED
      BY <3>1, <3>2, ListsStay
  <2>4. QED
    BY <2>1, <2>2, <2>3 DEF Next, Worker
<1>3. QED
  BY <1>1, <1>2, DiskHolds, SegmentsHold, ParsedHolds, TablesHold, PTL DEF Spec

(* The row lists name the rows on disk, each once and in order, under its    *)
(* id, its direction and, unless there are more channels than a uint8_t      *)
(* numbers, its channel.                                                     *)
THEOREM AllRowsListed == Spec => []EveryRowListed
<1>1. IdListsInv /\ ChannelsInv => EveryRowListed
  <2> SUFFICES ASSUME IdListsInv, ChannelsInv PROVE EveryRowListed
    OBVIOUS
  <2>1. DOMAIN channel_table = 1 .. Len(channel_table)
    BY DEF ChannelsInv
  <2>2. Distinct => \A c \in DOMAIN channel_table :
                       by_channel[c] = RowsIn(RowsOn(channel_table[c]))
    BY <2>1, RowsAre DEF ChannelsInv
  <2>3. QED
    BY <2>2 DEF IdListsInv, EveryRowListed, Distinct
<1>2. QED
  BY <1>1, ListsHold, PTL

=============================================================================
