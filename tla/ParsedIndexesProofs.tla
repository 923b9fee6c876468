-------------------------- MODULE ParsedIndexesProofs --------------------------
(***************************************************************************)
(* Theorems about ParsedIndexes, for any log, any capacity of the pools and  *)
(* any length of the tables.                                                 *)
(***************************************************************************)
EXTENDS ParsedIndexes, Induction

-----------------------------------------------------------------------------
(* One file. *)

Entries == [key : Nat, count : Nat, row_offset : Nat, changed_offset : Nat,
            changed_count : Nat]

IndexFiles == [status : {"RUNNING", "DONE"}, table : Seq(Entries),
               row_pool : Seq(Nat), changed_pool : Seq(Nat)]

(* The entries follow each other through both pools, and fit. *)
InPools(e, rows, changes) == /\ e.row_offset + e.count <= rows
                             /\ e.changed_offset + e.changed_count <= changes

Before(d, e) == /\ d.row_offset + d.count <= e.row_offset
                /\ d.changed_offset + d.changed_count <= e.changed_offset

Fits(file, max) ==
  /\ Len(file.row_pool) <= PoolCapacity /\ Len(file.changed_pool) <= PoolCapacity
  /\ Len(file.table) <= max
  /\ \A m \in DOMAIN file.table :
        InPools(file.table[m], Len(file.row_pool), Len(file.changed_pool))
  /\ \A m, o \in DOMAIN file.table : m < o => Before(file.table[m], file.table[o])

(* What is in a pool stays where it is when the pool grows. *)
Grown(pool, more, both) ==
  /\ both \in Seq(Nat) /\ Len(both) = Len(pool) + Len(more)
  /\ \A a, c \in Nat : a + c <= Len(pool) =>
        /\ SubSeq(both, a + 1, a + c) = SubSeq(pool, a + 1, a + c)
        /\ SubSeq(pool, a + 1, a + c) \in Seq(Nat)
  /\ SubSeq(both, Len(pool) + 1, Len(pool) + Len(more)) = more

LEMMA PoolGrows ==
  ASSUME NEW pool \in Seq(Nat), NEW more \in Seq(Nat)
  PROVE  Grown(pool, more, pool \o more)
<1> DEFINE both == pool \o more
<1>1. /\ both \in Seq(Nat) /\ Len(both) = Len(pool) + Len(more)
      /\ \A i \in 1 .. Len(pool) : both[i] = pool[i]
      /\ \A i \in 1 .. Len(more) : both[Len(pool) + i] = more[i]
      /\ Len(pool) \in Nat /\ Len(more) \in Nat
  OBVIOUS
<1> HIDE DEF both
<1>2. ASSUME NEW a \in Nat, NEW c \in Nat, a + c <= Len(pool)
      PROVE  /\ SubSeq(both, a + 1, a + c) = SubSeq(pool, a + 1, a + c)
             /\ SubSeq(pool, a + 1, a + c) \in Seq(Nat)
  <2> DEFINE s == SubSeq(both, a + 1, a + c)
             t == SubSeq(pool, a + 1, a + c)
  <2>1. both \in Seq(Nat) /\ a + c <= Len(both)
    BY <1>1, <1>2
  <2>2. /\ s \in Seq(Nat) /\ Len(s) = c
        /\ \A i \in 1 .. c : a + i \in 1 .. Len(both) /\ s[i] = both[a + i]
    BY <2>1, Stretch
  <2>3. /\ t \in Seq(Nat) /\ Len(t) = c
        /\ \A i \in 1 .. c : a + i \in 1 .. Len(pool) /\ t[i] = pool[a + i]
    BY <1>2, Stretch
  <2> HIDE DEF s, t
  <2>4. \A i \in 1 .. c : s[i] = t[i]
    BY <1>1, <2>2, <2>3
  <2>5. s = t
    BY <2>2, <2>3, <2>4, SeqEqual
  <2>6. QED
    BY <2>3, <2>5 DEF s, t
<1>3. SubSeq(both, Len(pool) + 1, Len(pool) + Len(more)) = more
  <2> DEFINE s == SubSeq(both, Len(pool) + 1, Len(pool) + Len(more))
  <2>1. Len(pool) + Len(more) <= Len(both)
    BY <1>1
  <2>2. /\ s \in Seq(Nat) /\ Len(s) = Len(more)
        /\ \A i \in 1 .. Len(more) : s[i] = both[Len(pool) + i]
    BY <1>1, <2>1, Stretch
  <2> HIDE DEF s
  <2>3. \A i \in 1 .. Len(s) : s[i] = more[i]
    BY <1>1, <2>2
  <2>4. s = more
    BY <2>2, <2>3, SeqEqual
  <2>5. QED
    BY <2>4 DEF s
<1>4. QED
  BY <1>1, <1>2, <1>3 DEF both, Grown

(* The pieces a reader puts together. *)
RowPiece(file, k, n) ==
  IF file.table[n].key # k THEN <<>>
  ELSE SubSeq(file.row_pool, file.table[n].row_offset + 1,
              file.table[n].row_offset + file.table[n].count)

ChangedPiece(file, k, n) ==
  IF file.table[n].key # k THEN <<>>
  ELSE SubSeq(file.changed_pool, file.table[n].changed_offset + 1,
              file.table[n].changed_offset + file.table[n].changed_count)

LEMMA FoundTyped ==
  ASSUME NEW file \in IndexFiles, NEW max, Fits(file, max), NEW k
  PROVE  /\ RowsFound(file, k) = FlattenSeq([n \in DOMAIN file.table |-> RowPiece(file, k, n)])
         /\ ChangedFound(file, k) =
              FlattenSeq([n \in DOMAIN file.table |-> ChangedPiece(file, k, n)])
         /\ \A n \in DOMAIN file.table : /\ RowPiece(file, k, n) \in Seq(Nat)
                                        /\ ChangedPiece(file, k, n) \in Seq(Nat)
         /\ RowsFound(file, k) \in Seq(Nat) /\ ChangedFound(file, k) \in Seq(Nat)
<1>1. RowsFound(file, k) = FlattenSeq([n \in DOMAIN file.table |-> RowPiece(file, k, n)])
  BY DEF RowsFound, RowPiece
<1>2. ChangedFound(file, k) =
        FlattenSeq([n \in DOMAIN file.table |-> ChangedPiece(file, k, n)])
  BY DEF ChangedFound, ChangedPiece
<1>3. /\ file.table \in Seq(Entries) /\ file.row_pool \in Seq(Nat)
      /\ file.changed_pool \in Seq(Nat) /\ <<>> \in Seq(Nat)
  BY DEF IndexFiles
<1>4. ASSUME NEW n \in DOMAIN file.table
      PROVE  RowPiece(file, k, n) \in Seq(Nat) /\ ChangedPiece(file, k, n) \in Seq(Nat)
  <2>1. file.table[n] \in Entries /\ InPools(file.table[n], Len(file.row_pool), Len(file.changed_pool))
    BY <1>3 DEF Fits
  <2> DEFINE e == file.table[n]
  <2>2. /\ e.row_offset \in Nat /\ e.count \in Nat
        /\ e.changed_offset \in Nat /\ e.changed_count \in Nat
        /\ e.row_offset + e.count <= Len(file.row_pool)
        /\ e.changed_offset + e.changed_count <= Len(file.changed_pool)
    BY <2>1 DEF Entries, InPools
  <2> HIDE DEF e
  <2>3. /\ SubSeq(file.row_pool, e.row_offset + 1, e.row_offset + e.count) \in Seq(Nat)
        /\ SubSeq(file.changed_pool, e.changed_offset + 1,
                  e.changed_offset + e.changed_count) \in Seq(Nat)
    <3>1. /\ Grown(file.row_pool, <<>>, file.row_pool \o <<>>)
          /\ Grown(file.changed_pool, <<>>, file.changed_pool \o <<>>)
      BY <1>3, PoolGrows
    <3>2. QED
      BY <2>2, <3>1 DEF Grown
  <2>4. QED
    BY <1>3, <2>3 DEF RowPiece, ChangedPiece, e
<1> DEFINE rows == [n \in DOMAIN file.table |-> RowPiece(file, k, n)]
           changed == [n \in DOMAIN file.table |-> ChangedPiece(file, k, n)]
<1>5. rows \in Seq(Seq(Nat)) /\ changed \in Seq(Seq(Nat))
  <2>1. DOMAIN file.table = 1 .. Len(file.table) /\ Len(file.table) \in Nat
    BY <1>3
  <2>2. QED
    BY <1>4, <2>1
<1> HIDE DEF rows, changed
<1>6. FlattenSeq(rows) \in Seq(Nat) /\ FlattenSeq(changed) \in Seq(Nat)
  BY <1>5, FlattenTyped
<1>7. QED
  BY <1>1, <1>2, <1>4, <1>6 DEF rows, changed

(* An entry with what it adds to the pools. *)
NewEntry(file, k, taken, changed) ==
  [key |-> k, count |-> Len(taken), row_offset |-> Len(file.row_pool),
   changed_offset |-> Len(file.changed_pool), changed_count |-> Len(changed)]

WithEntry(file, k, taken, changed) ==
  [file EXCEPT !.table = Append(@, NewEntry(file, k, taken, changed)),
               !.row_pool = @ \o taken, !.changed_pool = @ \o changed]

HasRoom(file, max, taken, changed) ==
  /\ Len(file.table) < max
  /\ Len(file.row_pool) + Len(taken) <= PoolCapacity
  /\ Len(file.changed_pool) + Len(changed) <= PoolCapacity

(* What an entry of k adds to what is found under j.                         *)
Added(j, k, taken) == IF j = k THEN taken ELSE <<>>

EntryFound(file, written, k, taken, changed) ==
  \A j : /\ RowsFound(written, j) = RowsFound(file, j) \o Added(j, k, taken)
         /\ ChangedFound(written, j) = ChangedFound(file, j) \o Added(j, k, changed)

(* The rows of the entry are found under its key, after those before it;     *)
(* nothing else changes.                                                     *)
LEMMA EntryAdded ==
  ASSUME NEW file \in IndexFiles, NEW max \in Nat, Fits(file, max), NEW k \in Nat,
         NEW taken \in Seq(Nat), NEW changed \in Seq(Nat),
         HasRoom(file, max, taken, changed)
  PROVE  /\ WithEntry(file, k, taken, changed) \in IndexFiles
         /\ WithEntry(file, k, taken, changed).status = file.status
         /\ Fits(WithEntry(file, k, taken, changed), max)
         /\ EntryFound(file, WithEntry(file, k, taken, changed), k, taken, changed)
<1> DEFINE written == WithEntry(file, k, taken, changed)
           e == NewEntry(file, k, taken, changed)
           N == Len(file.table)
<1>1. /\ file.table \in Seq(Entries) /\ file.row_pool \in Seq(Nat)
      /\ file.changed_pool \in Seq(Nat) /\ <<>> \in Seq(Nat) /\ N \in Nat
      /\ DOMAIN file.table = 1 .. N
      /\ Len(file.row_pool) \in Nat /\ Len(file.changed_pool) \in Nat
      /\ Len(taken) \in Nat /\ Len(changed) \in Nat
  BY DEF IndexFiles
<1>15. /\ Len(file.row_pool) \in Nat /\ Len(file.changed_pool) \in Nat
       /\ Len(taken) \in Nat /\ Len(changed) \in Nat
  BY <1>1
<1>2. e \in Entries
  BY <1>1 DEF NewEntry, Entries
<1>3. /\ e.key = k /\ e.count = Len(taken) /\ e.row_offset = Len(file.row_pool)
      /\ e.changed_offset = Len(file.changed_pool) /\ e.changed_count = Len(changed)
  BY DEF NewEntry
<1>4. /\ file.row_pool \o taken \in Seq(Nat)
      /\ Len(file.row_pool \o taken) = Len(file.row_pool) + Len(taken)
      /\ file.changed_pool \o changed \in Seq(Nat)
      /\ Len(file.changed_pool \o changed) = Len(file.changed_pool) + Len(changed)
  BY <1>1
<1>5. /\ written.table = Append(file.table, e) /\ written.status = file.status
      /\ written.row_pool = file.row_pool \o taken
      /\ written.changed_pool = file.changed_pool \o changed
  BY DEF WithEntry, IndexFiles
<1>13. /\ Grown(file.row_pool, taken, written.row_pool)
       /\ Grown(file.changed_pool, changed, written.changed_pool)
  BY <1>1, <1>5, PoolGrows
<1>6. written \in IndexFiles
  <2>1. Append(file.table, e) \in Seq(Entries)
    BY <1>1, <1>2, AppendProperties
  <2>2. QED
    BY <1>4, <2>1 DEF WithEntry, IndexFiles
<1>7. /\ written.table \in Seq(Entries) /\ Len(written.table) = N + 1
      /\ DOMAIN written.table = 1 .. N + 1 /\ written.table[N + 1] = e
      /\ \A n \in 1 .. N : written.table[n] = file.table[n]
  BY <1>1, <1>2, <1>5, AppendProperties
<1> HIDE DEF written, e, N
<1>8. \A n \in 1 .. N + 1 : n = N + 1 \/ n \in 1 .. N
  BY <1>1
<1>9. ASSUME NEW n \in 1 .. N
      PROVE  /\ file.table[n].row_offset \in Nat /\ file.table[n].count \in Nat
             /\ file.table[n].changed_offset \in Nat /\ file.table[n].changed_count \in Nat
             /\ file.table[n].row_offset + file.table[n].count <= Len(file.row_pool)
             /\ file.table[n].changed_offset + file.table[n].changed_count
                   <= Len(file.changed_pool)
  <2>1. file.table[n] \in Entries
    BY <1>1
  <2>2. InPools(file.table[n], Len(file.row_pool), Len(file.changed_pool))
    BY <1>1 DEF Fits
  <2>3. QED
    BY <2>1, <2>2 DEF Entries, InPools
<1>14. \A m, o \in 1 .. N : m < o => Before(file.table[m], file.table[o])
  BY <1>1 DEF Fits
<1>10. Fits(written, max)
  <2>1. /\ Len(written.row_pool) <= PoolCapacity
        /\ Len(written.changed_pool) <= PoolCapacity
        /\ Len(written.table) <= max
    BY <1>1, <1>4, <1>5, <1>7 DEF HasRoom, N
  <2>5. /\ Len(written.row_pool) = Len(file.row_pool) + Len(taken)
        /\ Len(written.changed_pool) = Len(file.changed_pool) + Len(changed)
    BY <1>4, <1>5
  <2>2. ASSUME NEW m \in 1 .. N + 1
        PROVE  InPools(written.table[m], Len(written.row_pool), Len(written.changed_pool))
    <3>1. CASE m = N + 1
      <4>1. InPools(e, Len(written.row_pool), Len(written.changed_pool))
        BY <1>3, <1>15, <2>5 DEF InPools
      <4>2. QED
        BY <1>7, <3>1, <4>1
    <3>2. CASE m \in 1 .. N
      <4> DEFINE d == file.table[m]
                 L == Len(file.row_pool)
                 M == Len(written.row_pool)
                 C == Len(file.changed_pool)
                 D == Len(written.changed_pool)
      <4>1. InPools(d, M, D)
        <5>1. /\ d.row_offset \in Nat /\ d.count \in Nat
              /\ d.changed_offset \in Nat /\ d.changed_count \in Nat
              /\ d.row_offset + d.count <= L
              /\ d.changed_offset + d.changed_count <= C
          BY <1>9, <3>2
        <5>2. L \in Nat /\ M \in Nat /\ L <= M /\ C \in Nat /\ D \in Nat /\ C <= D
          BY <1>15, <2>5
        <5> HIDE DEF d, L, M, C, D
        <5>3. QED
          BY <5>1, <5>2 DEF InPools
      <4>2. QED
        BY <1>7, <3>2, <4>1
    <3>3. QED
      BY <1>8, <3>1, <3>2
  <2>3. ASSUME NEW m \in 1 .. N + 1, NEW o \in 1 .. N + 1, m < o
        PROVE  Before(written.table[m], written.table[o])
    <3>1. m \in 1 .. N
      BY <1>1, <2>3
    <3>2. CASE o = N + 1
      BY <1>1, <1>3, <1>7, <1>9, <3>1, <3>2 DEF Before
    <3>3. CASE o \in 1 .. N
      BY <1>7, <1>14, <2>3, <3>1, <3>3
    <3>4. QED
      BY <1>8, <3>2, <3>3
  <2>4. QED
    BY <1>7, <2>1, <2>2, <2>3 DEF Fits
<1>11. ASSUME NEW j
       PROVE  /\ RowsFound(written, j) = RowsFound(file, j) \o Added(j, k, taken)
              /\ ChangedFound(written, j) =
                   ChangedFound(file, j) \o Added(j, k, changed)
  <2> DEFINE rows == [n \in 1 .. N |-> RowPiece(file, j, n)]
             new_rows == [n \in 1 .. N + 1 |-> RowPiece(written, j, n)]
             row == Added(j, k, taken)
             changes == [n \in 1 .. N |-> ChangedPiece(file, j, n)]
             new_changes == [n \in 1 .. N + 1 |-> ChangedPiece(written, j, n)]
             change == Added(j, k, changed)
  <2>1. /\ RowsFound(file, j) = FlattenSeq(rows) /\ ChangedFound(file, j) = FlattenSeq(changes)
        /\ \A n \in 1 .. N : /\ RowPiece(file, j, n) \in Seq(Nat)
                             /\ ChangedPiece(file, j, n) \in Seq(Nat)
    BY <1>1, FoundTyped
  <2>2. /\ RowsFound(written, j) = FlattenSeq(new_rows)
        /\ ChangedFound(written, j) = FlattenSeq(new_changes)
    BY <1>6, <1>7, <1>10, FoundTyped
  <2>3. ASSUME NEW n \in 1 .. N
        PROVE  /\ RowPiece(written, j, n) = RowPiece(file, j, n)
               /\ ChangedPiece(written, j, n) = ChangedPiece(file, j, n)
    <3> DEFINE d == file.table[n]
    <3>1. /\ d.row_offset \in Nat /\ d.count \in Nat
          /\ d.changed_offset \in Nat /\ d.changed_count \in Nat
          /\ d.row_offset + d.count <= Len(file.row_pool)
          /\ d.changed_offset + d.changed_count <= Len(file.changed_pool)
          /\ written.table[n] = d
      BY <1>7, <1>9
    <3> HIDE DEF d
    <3>2. SubSeq(written.row_pool, d.row_offset + 1, d.row_offset + d.count) =
            SubSeq(file.row_pool, d.row_offset + 1, d.row_offset + d.count)
      BY <1>13, <3>1 DEF Grown
    <3>3. SubSeq(written.changed_pool, d.changed_offset + 1,
                 d.changed_offset + d.changed_count) =
            SubSeq(file.changed_pool, d.changed_offset + 1,
                   d.changed_offset + d.changed_count)
      BY <1>13, <3>1 DEF Grown
    <3>4. QED
      BY <3>1, <3>2, <3>3 DEF RowPiece, ChangedPiece, d
  <2>4. RowPiece(written, j, N + 1) = row /\ ChangedPiece(written, j, N + 1) = change
    <3>1. SubSeq(written.row_pool, e.row_offset + 1, e.row_offset + e.count) = taken
      BY <1>3, <1>13 DEF Grown
    <3>2. SubSeq(written.changed_pool, e.changed_offset + 1,
                 e.changed_offset + e.changed_count) = changed
      BY <1>3, <1>13 DEF Grown
    <3>3. QED
      BY <1>3, <1>7, <3>1, <3>2 DEF RowPiece, ChangedPiece, Added
  <2>5. /\ row \in Seq(Nat) /\ change \in Seq(Nat)
        /\ rows \in Seq(Seq(Nat)) /\ changes \in Seq(Seq(Nat))
        /\ Len(rows) = N /\ Len(changes) = N
        /\ \A n \in 1 .. N : rows[n] = RowPiece(file, j, n) /\ changes[n] = ChangedPiece(file, j, n)
    BY <1>1, <2>1 DEF Added
  <2>6. /\ \A n \in 1 .. N + 1 : new_rows[n] = RowPiece(written, j, n)
                                 /\ new_changes[n] = ChangedPiece(written, j, n)
        /\ \A n \in 1 .. N + 1 : /\ RowPiece(written, j, n) \in Seq(Nat)
                                 /\ ChangedPiece(written, j, n) \in Seq(Nat)
    BY <1>8, <2>1, <2>3, <2>4, <2>5
  <2>7. /\ new_rows \in Seq(Seq(Nat)) /\ new_changes \in Seq(Seq(Nat))
        /\ Len(new_rows) = N + 1 /\ Len(new_changes) = N + 1
    <3>1. /\ N + 1 \in Nat
          /\ IsList(new_rows, N + 1, Seq(Nat)) /\ IsList(new_changes, N + 1, Seq(Nat))
      BY <1>1, <2>6 DEF IsList
    <3> HIDE DEF new_rows, new_changes
    <3>2. new_rows \in Seq(Seq(Nat)) /\ Len(new_rows) = N + 1
      BY <3>1, ListIsSeq
    <3>3. new_changes \in Seq(Seq(Nat)) /\ Len(new_changes) = N + 1
      BY <3>1, ListIsSeq
    <3>4. QED
      BY <3>2, <3>3
  <2> HIDE DEF row, change, rows, changes, new_rows, new_changes
  <2>8. /\ Append(rows, row) \in Seq(Seq(Nat)) /\ Len(Append(rows, row)) = N + 1
        /\ Append(rows, row)[N + 1] = row
        /\ \A n \in 1 .. N : Append(rows, row)[n] = rows[n]
    BY <1>1, <2>5, AppendProperties
  <2>9. /\ Append(changes, change) \in Seq(Seq(Nat)) /\ Len(Append(changes, change)) = N + 1
        /\ Append(changes, change)[N + 1] = change
        /\ \A n \in 1 .. N : Append(changes, change)[n] = changes[n]
    <3>1. changes \in Seq(Seq(Nat)) /\ change \in Seq(Nat) /\ Len(changes) = N
      BY <2>5
    <3>2. QED
      BY <1>1, <3>1, AppendProperties
  <2>10. \A n \in 1 .. N + 1 : new_rows[n] = Append(rows, row)[n]
    BY <1>8, <2>3, <2>4, <2>5, <2>6, <2>8
  <2>11. \A n \in 1 .. N + 1 : new_changes[n] = Append(changes, change)[n]
    BY <1>8, <2>3, <2>4, <2>5, <2>6, <2>9
  <2>12. new_rows = Append(rows, row)
    BY <2>7, <2>8, <2>10, SeqEqual
  <2>13. new_changes = Append(changes, change)
    BY <2>7, <2>9, <2>11, SeqEqual
  <2>14. FlattenSeq(new_rows) = FlattenSeq(rows) \o row
    BY <2>5, <2>12, FlattenAppend
  <2>15. FlattenSeq(new_changes) = FlattenSeq(changes) \o change
    BY <2>5, <2>13, FlattenAppend
  <2>16. QED
    BY <2>1, <2>2, <2>14, <2>15 DEF row, change
<1>12. QED
  BY <1>5, <1>6, <1>10, <1>11 DEF written, EntryFound


-----------------------------------------------------------------------------
(* The files of a family. *)

Found(fs, k) == FlattenSeq([n \in DOMAIN fs |-> RowsFound(fs[n], k)])

(* Each file fits, and its changed rows are those of its rows that S holds.  *)
AllFit(fs, max) == \A n \in DOMAIN fs : Fits(fs[n], max)

Reduced(fs, k, S) ==
  \A n \in DOMAIN fs : ChangedFound(fs[n], k) = Select(RowsFound(fs[n], k), S)

-----------------------------------------------------------------------------
(* The inductive invariant. *)

PcTyped == pc \in {"open", "write", "failed", "dead", "done"}

Typed == /\ PcTyped /\ log \in Seq(Rows) /\ family \in 1 .. 3
         /\ files \in [1 .. 3 -> Seq(IndexFiles)]

KeysInv == /\ left \subseteq Families[family].keys
           /\ key \in (Families[family].keys \ left) \cup {NoKey}
           /\ pos \in Nat
           /\ key # NoKey => pos <= Len(List(family, key))

FilesFit == \A f \in 1 .. 3 : AllFit(files[f], Families[f].max)

ChangesInv == \A f \in 1 .. 3 : \A k \in Families[f].keys :
                 Reduced(files[f], k, ToSet(ChangedList(f, k)))

(* Only the last file of the family being written may be open. *)
Closing == \A f \in 1 .. 3 : \A n \in DOMAIN files[f] :
              \/ files[f][n].status = "DONE"
              \/ f = family /\ n = Len(files[f]) /\ pc \in {"write", "dead"}

Stage == /\ pc = "write" => files[family] # <<>>
         /\ pc = "done" => family = 3 /\ left = {} /\ key = NoKey

(* How much of the list of k is written. *)
Due(f, k) == IF f < family THEN List(f, k)
             ELSE IF f > family \/ k \in left THEN <<>>
             ELSE IF k = key THEN SubSeq(List(f, k), 1, pos)
             ELSE List(f, k)

WrittenInv ==
  /\ \A f \in 1 .. 3 : f > family => files[f] = <<>>
  /\ \A f \in 1 .. 3 : \A k \in Families[f].keys : Found(files[f], k) = Due(f, k)

IndexInv == /\ Typed /\ KeysInv /\ FilesFit /\ ChangesInv /\ Closing /\ Stage
            /\ WrittenInv


-----------------------------------------------------------------------------
(* What a step does to the files of a family. *)

LEMMA FoundIsSeq ==
  ASSUME NEW fs \in Seq(IndexFiles), NEW max, AllFit(fs, max), NEW k
  PROVE  /\ [n \in DOMAIN fs |-> RowsFound(fs[n], k)] \in Seq(Seq(Nat))
         /\ Len([n \in DOMAIN fs |-> RowsFound(fs[n], k)]) = Len(fs)
         /\ \A n \in DOMAIN fs : RowsFound(fs[n], k) \in Seq(Nat)
         /\ Found(fs, k) \in Seq(Nat)
<1> DEFINE ss == [n \in DOMAIN fs |-> RowsFound(fs[n], k)]
<1>1. DOMAIN fs = 1 .. Len(fs) /\ Len(fs) \in Nat /\ \A n \in DOMAIN fs : fs[n] \in IndexFiles
  OBVIOUS
<1>2. \A n \in DOMAIN fs : RowsFound(fs[n], k) \in Seq(Nat)
  BY <1>1, FoundTyped DEF AllFit
<1>3. IsList(ss, Len(fs), Seq(Nat))
  BY <1>1, <1>2 DEF IsList
<1>4. Found(fs, k) = FlattenSeq(ss)
  BY DEF Found
<1> HIDE DEF ss
<1>5. ss \in Seq(Seq(Nat)) /\ Len(ss) = Len(fs)
  BY <1>1, <1>3, ListIsSeq
<1>6. FlattenSeq(ss) \in Seq(Nat)
  BY <1>5, FlattenTyped
<1>7. QED
  BY <1>2, <1>4, <1>5, <1>6 DEF ss

(* An empty file is added. *)
LEMMA FileAdded ==
  ASSUME NEW fs \in Seq(IndexFiles), NEW max \in Nat, AllFit(fs, max)
  PROVE  /\ Append(fs, EmptyFile) \in Seq(IndexFiles)
         /\ Append(fs, EmptyFile) # <<>>
         /\ Len(Append(fs, EmptyFile)) = Len(fs) + 1
         /\ \A n \in DOMAIN fs : Append(fs, EmptyFile)[n] = fs[n]
         /\ AllFit(Append(fs, EmptyFile), max)
         /\ \A k : Found(Append(fs, EmptyFile), k) = Found(fs, k)
         /\ \A k, S : Reduced(fs, k, S) => Reduced(Append(fs, EmptyFile), k, S)
<1> DEFINE gs == Append(fs, EmptyFile)
           N == Len(fs)
<1>1. EmptyFile \in IndexFiles
  BY DEF EmptyFile, IndexFiles
<1>2. /\ gs \in Seq(IndexFiles) /\ Len(gs) = N + 1 /\ DOMAIN gs = 1 .. N + 1
      /\ gs[N + 1] = EmptyFile /\ \A n \in 1 .. N : gs[n] = fs[n]
      /\ N \in Nat /\ DOMAIN fs = 1 .. N
  BY <1>1, AppendProperties
<1>3. gs # <<>>
  BY AppendProperties, <1>1
<1> HIDE DEF gs, N
<1>4. \A n \in 1 .. N + 1 : n = N + 1 \/ n \in 1 .. N
  BY <1>2
<1>5. Fits(EmptyFile, max)
  <2>1. DOMAIN EmptyFile.table = {} /\ EmptyFile.table = <<>>
        /\ EmptyFile.row_pool = <<>> /\ EmptyFile.changed_pool = <<>>
    BY DEF EmptyFile
  <2>2. Len(<<>>) = 0
    OBVIOUS
  <2>3. QED
    BY <2>1, <2>2, IndexAssumption DEF Fits
<1>6. AllFit(gs, max)
  BY <1>2, <1>4, <1>5 DEF AllFit
<1>7. ASSUME NEW k
      PROVE RowsFound(EmptyFile, k) = <<>> /\ ChangedFound(EmptyFile, k) = <<>>
  <2>1. EmptyFile.table = <<>>
    BY DEF EmptyFile
  <2>2. /\ RowsFound(EmptyFile, k) = FlattenSeq(<<>>)
        /\ ChangedFound(EmptyFile, k) = FlattenSeq(<<>>)
    BY <2>1 DEF RowsFound, ChangedFound
  <2>3. QED
    BY <2>2, FlattenEmpty
<1>8. ASSUME NEW k PROVE Found(gs, k) = Found(fs, k)
  <2> DEFINE ss == [n \in DOMAIN fs |-> RowsFound(fs[n], k)]
             tt == [n \in DOMAIN gs |-> RowsFound(gs[n], k)]
  <2>1. /\ ss \in Seq(Seq(Nat)) /\ Len(ss) = N /\ tt \in Seq(Seq(Nat)) /\ Len(tt) = N + 1
        /\ FlattenSeq(ss) = Found(fs, k) /\ FlattenSeq(tt) = Found(gs, k)
        /\ Found(fs, k) \in Seq(Nat)
    BY <1>2, <1>6, FoundIsSeq DEF Found, N
  <2>2. /\ \A n \in 1 .. N : tt[n] = ss[n]
        /\ tt[N + 1] = <<>>
    BY <1>2, <1>7
  <2> HIDE DEF ss, tt
  <2>3. /\ Append(ss, <<>>) \in Seq(Seq(Nat)) /\ Len(Append(ss, <<>>)) = N + 1
        /\ Append(ss, <<>>)[N + 1] = <<>>
        /\ \A n \in 1 .. N : Append(ss, <<>>)[n] = ss[n]
    <3>1. <<>> \in Seq(Nat)
      OBVIOUS
    <3>2. QED
      BY <2>1, <3>1, AppendProperties
  <2>4. \A n \in 1 .. N + 1 : tt[n] = Append(ss, <<>>)[n]
    BY <1>4, <2>2, <2>3
  <2>5. tt = Append(ss, <<>>)
    BY <2>1, <2>3, <2>4, SeqEqual
  <2>6. <<>> \in Seq(Nat) /\ FlattenSeq(ss) \o <<>> = FlattenSeq(ss)
    BY <2>1
  <2>7. FlattenSeq(tt) = FlattenSeq(ss) \o <<>>
    BY <2>1, <2>5, <2>6, FlattenAppend
  <2>8. QED
    BY <2>1, <2>6, <2>7
<1>9. ASSUME NEW k, NEW S, Reduced(fs, k, S) PROVE Reduced(gs, k, S)
  <2>1. Select(<<>>, S) = <<>>
    BY SelectEmpty
  <2>2. QED
    BY <1>2, <1>4, <1>7, <1>9, <2>1 DEF Reduced
<1>10. QED
  BY <1>2, <1>3, <1>6, <1>8, <1>9 DEF gs, N

(* The last file is replaced by another. *)
Replaces(gs, fs, file) == gs = [fs EXCEPT ![Len(fs)] = file]

(* What more is found in the last file is found in all.                      *)
FoundGrows(gs, fs, file) ==
  \A k : \A t \in Seq(Nat) : RowsFound(file, k) = RowsFound(fs[Len(fs)], k) \o t
                               => Found(gs, k) = Found(fs, k) \o t

StaysReduced(gs, fs, file) ==
  \A k, S : Reduced(fs, k, S) /\ ChangedFound(file, k) = Select(RowsFound(file, k), S)
               => Reduced(gs, k, S)

LEMMA LastReplaced ==
  ASSUME NEW fs \in Seq(IndexFiles), fs # <<>>, NEW max \in Nat, AllFit(fs, max),
         NEW file \in IndexFiles, Fits(file, max),
         NEW gs, Replaces(gs, fs, file)
  PROVE  /\ gs \in Seq(IndexFiles) /\ gs # <<>> /\ Len(gs) = Len(fs)
         /\ gs[Len(fs)] = file
         /\ \A n \in DOMAIN fs : n # Len(fs) => gs[n] = fs[n]
         /\ AllFit(gs, max)
         /\ FoundGrows(gs, fs, file) /\ StaysReduced(gs, fs, file)
<1> DEFINE N == Len(fs)
<1>1. N \in Nat \ {0} /\ DOMAIN fs = 1 .. N /\ N \in DOMAIN fs
  OBVIOUS
<1>2. /\ gs \in Seq(IndexFiles) /\ Len(gs) = N /\ gs # <<>> /\ DOMAIN gs = 1 .. N
      /\ gs[N] = file /\ \A n \in 1 .. N : n # N => gs[n] = fs[n]
  <2>1. gs = [fs EXCEPT ![Len(fs)] = file]
    BY DEF Replaces
  <2>2. gs \in Seq(IndexFiles) /\ Len(gs) = N
    BY <2>1, ExceptSeq
  <2>3. QED
    BY <1>1, <2>1, <2>2
<1> HIDE DEF N
<1>3. AllFit(gs, max)
  BY <1>1, <1>2 DEF AllFit
<1>4. ASSUME NEW k, NEW t \in Seq(Nat), RowsFound(file, k) = RowsFound(fs[N], k) \o t
      PROVE Found(gs, k) = Found(fs, k) \o t
  <2> DEFINE ss == [n \in DOMAIN fs |-> RowsFound(fs[n], k)]
             tt == [n \in DOMAIN gs |-> RowsFound(gs[n], k)]
  <2>1. /\ ss \in Seq(Seq(Nat)) /\ Len(ss) = N /\ DOMAIN ss = 1 .. N
        /\ FlattenSeq(ss) = Found(fs, k) /\ FlattenSeq(tt) = Found(gs, k)
    BY <1>1, FoundIsSeq DEF Found, N
  <2>2. tt = [ss EXCEPT ![N] = @ \o t]
    <3>1. \A n \in 1 .. N : tt[n] = IF n = N THEN ss[N] \o t ELSE ss[n]
      BY <1>1, <1>2, <1>4
    <3>2. DOMAIN tt = 1 .. N /\ DOMAIN ss = 1 .. N
      BY <1>1, <1>2
    <3>3. tt = [n \in 1 .. N |-> tt[n]] /\ ss = [n \in 1 .. N |-> ss[n]]
      BY <3>2
    <3> HIDE DEF ss, tt
    <3>4. [ss EXCEPT ![N] = @ \o t] = [n \in 1 .. N |-> IF n = N THEN ss[N] \o t ELSE ss[n]]
      BY <3>2
    <3>5. QED
      BY <3>1, <3>3, <3>4
  <2> HIDE DEF ss, tt
  <2>3. ss # <<>>
    BY <1>1, <2>1
  <2>4. FlattenSeq(tt) = FlattenSeq(ss) \o t
    BY <2>1, <2>2, <2>3, FlattenGrows
  <2>5. QED
    BY <2>1, <2>4
<1>5. ASSUME NEW k, NEW S, Reduced(fs, k, S), ChangedFound(file, k) = Select(RowsFound(file, k), S)
      PROVE Reduced(gs, k, S)
  BY <1>1, <1>2, <1>5 DEF Reduced
<1>6. QED
  BY <1>1, <1>2, <1>3, <1>4, <1>5 DEF N, FoundGrows, StaysReduced

LEMMA LastFile ==
  ASSUME NEW fs \in Seq(IndexFiles), fs # <<>>, NEW max, AllFit(fs, max)
  PROVE  /\ Len(fs) \in Nat \ {0} /\ DOMAIN fs = 1 .. Len(fs) /\ Len(fs) \in DOMAIN fs
         /\ fs[Len(fs)] \in IndexFiles /\ Fits(fs[Len(fs)], max)
<1>1. Len(fs) \in Nat \ {0} /\ DOMAIN fs = 1 .. Len(fs) /\ Len(fs) \in DOMAIN fs
  OBVIOUS
<1>2. fs[Len(fs)] \in IndexFiles
  BY <1>1, ElementOfSeq
<1>3. QED
  BY <1>1, <1>2 DEF AllFit

LEMMA EntryWritten ==
  ASSUME NEW fs \in Seq(IndexFiles), fs # <<>>, NEW max \in Nat, AllFit(fs, max),
         NEW k \in Nat, NEW taken \in Seq(Nat), NEW changed \in Seq(Nat),
         HasRoom(fs[Len(fs)], max, taken, changed),
         NEW gs, Replaces(gs, fs, WithEntry(fs[Len(fs)], k, taken, changed))
  PROVE  /\ gs \in Seq(IndexFiles) /\ gs # <<>> /\ Len(gs) = Len(fs) /\ AllFit(gs, max)
         /\ \A n \in DOMAIN fs : gs[n].status = fs[n].status
         /\ \A j : Found(gs, j) = Found(fs, j) \o Added(j, k, taken)
         /\ \A j, S : Reduced(fs, j, S) /\ (j = k => changed = Select(taken, S))
                         => Reduced(gs, j, S)
<1> DEFINE N == Len(fs)
           old == fs[N]
           file == WithEntry(old, k, taken, changed)
<1>1. /\ N \in Nat \ {0} /\ DOMAIN fs = 1 .. N /\ N \in DOMAIN fs /\ old \in IndexFiles
      /\ Fits(old, max) /\ HasRoom(old, max, taken, changed)
  BY LastFile
<1>2. Replaces(gs, fs, file)
  OBVIOUS
<1> HIDE DEF N, old, file
<1>3. /\ file \in IndexFiles /\ file.status = old.status /\ Fits(file, max)
      /\ EntryFound(old, file, k, taken, changed)
  BY <1>1, EntryAdded DEF file
<1>4. /\ gs \in Seq(IndexFiles) /\ gs # <<>> /\ Len(gs) = N /\ gs[N] = file
      /\ \A n \in DOMAIN fs : n # N => gs[n] = fs[n]
      /\ AllFit(gs, max)
      /\ FoundGrows(gs, fs, file) /\ StaysReduced(gs, fs, file)
  BY <1>2, <1>3, LastReplaced DEF N, old
<1>5. ASSUME NEW n \in DOMAIN fs PROVE gs[n].status = fs[n].status
  BY <1>1, <1>3, <1>4 DEF old
<1>6. ASSUME NEW j PROVE Found(gs, j) = Found(fs, j) \o Added(j, k, taken)
  <2>1. Added(j, k, taken) \in Seq(Nat)
    BY DEF Added
  <2>2. QED
    BY <1>3, <1>4, <2>1 DEF FoundGrows, EntryFound, old, N
<1>7. ASSUME NEW j, NEW S, Reduced(fs, j, S), j = k => changed = Select(taken, S)
      PROVE  Reduced(gs, j, S)
  <2> DEFINE rows == RowsFound(old, j)
             more == Added(j, k, taken)
             both == Added(j, k, changed)
  <2>1. ChangedFound(old, j) = Select(rows, S)
    BY <1>1, <1>7 DEF Reduced, old
  <2>2. rows \in Seq(Nat) /\ more \in Seq(Nat)
    <3>1. rows \in Seq(Nat)
      BY <1>1, FoundTyped
    <3>2. more \in Seq(Nat)
      BY DEF Added
    <3>3. QED
      BY <3>1, <3>2
  <2>3. both = Select(more, S)
    <3>1. Select(<<>>, S) = <<>>
      BY SelectEmpty
    <3>2. QED
      BY <1>7, <3>1 DEF Added
  <2>4. RowsFound(file, j) = rows \o more /\ ChangedFound(file, j) = Select(rows, S) \o both
    BY <1>3, <2>1 DEF EntryFound
  <2> HIDE DEF rows, more, both
  <2>5. ChangedFound(file, j) = Select(RowsFound(file, j), S)
    <3>1. Select(rows \o more, S) = Select(rows, S) \o Select(more, S)
      <4> DEFINE X == Nat
      <4>1. rows \in Seq(X) /\ more \in Seq(X)
        BY <2>2
      <4> HIDE DEF X
      <4>2. QED
        BY <4>1, SelectConcat
    <3>2. QED
      BY <2>3, <2>4, <3>1
  <2>6. QED
    BY <1>4, <1>7, <2>5 DEF StaysReduced
<1>8. QED
  BY <1>1, <1>4, <1>5, <1>6, <1>7 DEF N

LEMMA FileSealed ==
  ASSUME NEW fs \in Seq(IndexFiles), fs # <<>>, NEW max \in Nat, AllFit(fs, max),
         NEW gs, Replaces(gs, fs, [fs[Len(fs)] EXCEPT !.status = "DONE"])
  PROVE  /\ gs \in Seq(IndexFiles) /\ gs # <<>> /\ Len(gs) = Len(fs) /\ AllFit(gs, max)
         /\ gs[Len(fs)].status = "DONE"
         /\ \A n \in DOMAIN fs : n # Len(fs) => gs[n] = fs[n]
         /\ \A k : Found(gs, k) = Found(fs, k)
         /\ \A k, S : Reduced(fs, k, S) => Reduced(gs, k, S)
<1> DEFINE N == Len(fs)
           old == fs[N]
           file == [old EXCEPT !.status = "DONE"]
<1>1. /\ N \in Nat \ {0} /\ DOMAIN fs = 1 .. N /\ N \in DOMAIN fs /\ old \in IndexFiles
      /\ Fits(old, max)
  BY LastFile
<1>2. Replaces(gs, fs, file)
  OBVIOUS
<1>3. /\ file \in IndexFiles /\ file.status = "DONE"
      /\ file.table = old.table /\ file.row_pool = old.row_pool
      /\ file.changed_pool = old.changed_pool
  BY <1>1 DEF IndexFiles
<1> HIDE DEF N, old, file
<1>4. /\ Fits(file, max)
      /\ \A k : /\ RowsFound(file, k) = RowsFound(old, k)
                /\ ChangedFound(file, k) = ChangedFound(old, k)
  BY <1>1, <1>3 DEF Fits, RowsFound, ChangedFound
<1>5. /\ gs \in Seq(IndexFiles) /\ gs # <<>> /\ Len(gs) = N /\ gs[N] = file
      /\ \A n \in DOMAIN fs : n # N => gs[n] = fs[n]
      /\ AllFit(gs, max)
      /\ FoundGrows(gs, fs, file) /\ StaysReduced(gs, fs, file)
  BY <1>2, <1>3, <1>4, LastReplaced DEF N, old
<1>6. ASSUME NEW k PROVE Found(gs, k) = Found(fs, k)
  <2> DEFINE rows == RowsFound(old, k)
             all == Found(fs, k)
  <2>1. rows \in Seq(Nat) /\ all \in Seq(Nat) /\ RowsFound(file, k) = rows
    BY <1>1, <1>4, FoundTyped, FoundIsSeq
  <2>5. <<>> \in Seq(Nat)
    OBVIOUS
  <2>2. RowsFound(file, k) = rows \o <<>> => Found(gs, k) = all \o <<>>
    BY <1>5, <2>5 DEF FoundGrows, old, N
  <2> HIDE DEF rows, all
  <2>3. rows \o <<>> = rows /\ all \o <<>> = all
    BY <2>1
  <2>4. QED
    BY <2>1, <2>2, <2>3 DEF all
<1>7. ASSUME NEW k, NEW S, Reduced(fs, k, S) PROVE Reduced(gs, k, S)
  <2>1. ChangedFound(old, k) = Select(RowsFound(old, k), S)
    BY <1>1, <1>7 DEF Reduced, old
  <2>2. QED
    BY <1>4, <1>5, <1>7, <2>1 DEF StaysReduced
<1>8. QED
  BY <1>1, <1>3, <1>5, <1>6, <1>7 DEF N


-----------------------------------------------------------------------------
(* The log, its keys and its lists do not change. *)

LEMMA ListsTyped ==
  ASSUME log \in Seq(Rows), NEW f, NEW k
  PROVE  List(f, k) \in Seq(Nat) /\ ChangedList(f, k) \in Seq(Nat)
<1> DEFINE numbers == [n \in DOMAIN log |-> n - 1]
<1>1. IsList(numbers, Len(log), Nat) /\ Len(log) \in Nat
  BY DEF IsList
<1> HIDE DEF numbers
<1>2. numbers \in Seq(Nat)
  BY <1>1, ListIsSeq
<1>3. ASSUME NEW S PROVE Select(numbers, S) \in Seq(Nat)
  BY <1>2, SelectFacts
<1>4. QED
  BY <1>3 DEF List, ChangedList, InOrder, numbers

LEMMA FamiliesTyped ==
  ASSUME log \in Seq(Rows), NEW f \in 1 .. 3
  PROVE  /\ Families[f].keys \subseteq Nat /\ Families[f].max \in Nat
         /\ NoKey \notin Families[f].keys
<1>1. \A row \in ToSet(log) : row.id \in Nat /\ row.channel \in Nat /\ row.direction \in Nat
  <2>1. \A row \in ToSet(log) : row \in Rows
    BY DEF ToSet
  <2>2. QED
    BY <2>1, IndexAssumption
<1>2. /\ Families[1] = CanIdFamily /\ Families[2] = ChannelFamily
      /\ Families[3] = DirectionFamily
  BY DEF Families
<1>3. /\ CanIdFamily.keys \subseteq Nat /\ ChannelFamily.keys \subseteq Nat
      /\ DirectionFamily.keys \subseteq Nat
  BY <1>1 DEF CanIdFamily, ChannelFamily, DirectionFamily
<1>4. CanIdFamily.max \in Nat /\ ChannelFamily.max \in Nat /\ DirectionFamily.max \in Nat
  BY IndexAssumption DEF CanIdFamily, ChannelFamily, DirectionFamily
<1>5. Families[f].keys \subseteq Nat /\ Families[f].max \in Nat
  BY <1>2, <1>3, <1>4
<1>6. NoKey \notin Nat
  BY DEF NoKey
<1>7. QED
  BY <1>5, <1>6

LEMMA SameLog ==
  ASSUME log' = log
  PROVE  /\ Families' = Families
         /\ \A f, k : List(f, k)' = List(f, k) /\ ChangedList(f, k)' = ChangedList(f, k)
<1>1. Families' = Families
  BY DEF Families, CanIdFamily, ChannelFamily, DirectionFamily
<1>2. QED
  BY <1>1 DEF List, ChangedList, InOrder, KeyOf

-----------------------------------------------------------------------------
(* The files of the family being written change. *)

Written(gs) == files' = [files EXCEPT ![family] = gs]

LEMMA FamilyWritten ==
  ASSUME Typed, FilesFit, ChangesInv, log' = log, NEW gs, Written(gs),
         gs \in Seq(IndexFiles), AllFit(gs, Families[family].max),
         \A k \in Families[family].keys : Reduced(gs, k, ToSet(ChangedList(family, k)))
  PROVE  /\ files' \in [1 .. 3 -> Seq(IndexFiles)] /\ FilesFit' /\ ChangesInv'
         /\ files'[family] = gs
         /\ \A f \in 1 .. 3 : f # family => files'[f] = files[f]
<1>1. /\ files' \in [1 .. 3 -> Seq(IndexFiles)] /\ files'[family] = gs
      /\ \A f \in 1 .. 3 : f # family => files'[f] = files[f]
  BY DEF Typed, Written
<1>2. FilesFit'
  <2>1. \A f \in 1 .. 3 : AllFit(files'[f], Families[f].max)
    BY <1>1 DEF FilesFit
  <2>2. Families' = Families
    BY SameLog
  <2>3. QED
    BY <2>1, <2>2 DEF FilesFit
<1>3. ChangesInv'
  <2>1. ASSUME NEW f \in 1 .. 3, NEW k \in Families[f].keys
        PROVE  Reduced(files'[f], k, ToSet(ChangedList(f, k)))
    BY <1>1 DEF ChangesInv
  <2>2. Families' = Families /\ \A f, k : ChangedList(f, k)' = ChangedList(f, k)
    BY SameLog
  <2>3. QED
    BY <2>1, <2>2 DEF ChangesInv
<1>4. QED
  BY <1>1, <1>2, <1>3

LEMMA FilesKept ==
  ASSUME Typed, FilesFit, ChangesInv, log' = log, files' = files
  PROVE  FilesFit' /\ ChangesInv'
<1>1. Families' = Families /\ \A f, k : ChangedList(f, k)' = ChangedList(f, k)
  BY SameLog
<1>2. QED
  BY <1>1 DEF FilesFit, ChangesInv


-----------------------------------------------------------------------------
(* The invariant holds at first, and each action keeps it. *)

LEMMA NothingFound ==
  ASSUME NEW k
  PROVE  Found(<<>>, k) = <<>>
<1>1. Found(<<>>, k) = FlattenSeq(<<>>)
  BY DEF Found
<1>2. QED
  BY <1>1, FlattenEmpty

LEMMA IndexInvInit == Init => IndexInv
<1> SUFFICES ASSUME Init PROVE IndexInv
  OBVIOUS
<1>1. log \in Seq(Rows)
  <2>1. PICK m \in 0 .. MaxRows : log \in [1 .. m -> Rows]
    BY DEF Init, BoundedSeq, SeqOf
  <2>2. QED
    BY <2>1
<1>2. /\ pc = "open" /\ family = 1 /\ left = CanIdFamily.keys /\ key = NoKey /\ pos = 0
      /\ files = <<<<>>, <<>>, <<>>>>
  BY DEF Init
<1>3. \A f \in 1 .. 3 : files[f] = <<>>
  BY <1>2
<1>4. files \in [1 .. 3 -> Seq(IndexFiles)]
  <2>1. <<>> \in Seq(IndexFiles) /\ DOMAIN files = 1 .. 3 /\ files = [f \in 1 .. 3 |-> files[f]]
    BY <1>2
  <2>2. QED
    BY <1>3, <2>1
<1>5. Typed
  BY <1>1, <1>2, <1>4 DEF Typed, PcTyped
<1>6. Families[1].keys = CanIdFamily.keys
  BY DEF Families
<1>7. KeysInv
  BY <1>2, <1>6 DEF KeysInv
<1>8. DOMAIN <<>> = {}
  OBVIOUS
<1>9. FilesFit /\ ChangesInv /\ Closing
  BY <1>3, <1>8 DEF FilesFit, AllFit, ChangesInv, Reduced, Closing
<1>10. Stage
  BY <1>2 DEF Stage
<1>11. WrittenInv
  <2>1. ASSUME NEW f \in 1 .. 3, NEW k \in Families[f].keys PROVE Found(files[f], k) = Due(f, k)
    <3>1. f > family \/ k \in left
      BY <1>2, <1>6
    <3>2. Due(f, k) = <<>>
      BY <1>2, <3>1 DEF Due
    <3>3. QED
      BY <1>3, <3>2, NothingFound
  <2>2. QED
    BY <1>3, <2>1 DEF WrittenInv
<1>12. QED
  BY <1>5, <1>7, <1>9, <1>10, <1>11 DEF IndexInv

(* A step that leaves the lists, and what is found in the files, alone.      *)
SameKeys == log' = log /\ family' = family /\ left' = left /\ key' = key /\ pos' = pos

LEMMA KeysKept ==
  ASSUME KeysInv, SameKeys
  PROVE  KeysInv' /\ \A f, k : Due(f, k)' = Due(f, k)
<1>1. Families' = Families /\ \A f, k : List(f, k)' = List(f, k)
  BY SameLog DEF SameKeys
<1>2. KeysInv'
  BY <1>1 DEF KeysInv, SameKeys, NoKey
<1>3. QED
  BY <1>1, <1>2 DEF Due, SameKeys

LEMMA NothingWritten ==
  ASSUME IndexInv, SameKeys, files' = files
  PROVE  KeysInv' /\ FilesFit' /\ ChangesInv' /\ WrittenInv'
<1>1. Typed /\ KeysInv /\ FilesFit /\ ChangesInv /\ WrittenInv
  BY DEF IndexInv
<1>2. KeysInv' /\ \A f, k : Due(f, k)' = Due(f, k)
  BY <1>1, KeysKept
<1>3. FilesFit' /\ ChangesInv'
  BY <1>1, FilesKept DEF SameKeys
<1>4. Families' = Families
  BY SameLog DEF SameKeys
<1>5. WrittenInv'
  BY <1>1, <1>2, <1>4 DEF WrittenInv, SameKeys
<1>6. QED
  BY <1>2, <1>3, <1>5

LEMMA SameFound ==
  ASSUME IndexInv, SameKeys, NEW gs, Written(gs),
         gs \in Seq(IndexFiles), AllFit(gs, Families[family].max),
         \A k \in Families[family].keys : Reduced(gs, k, ToSet(ChangedList(family, k))),
         \A k \in Families[family].keys : Found(gs, k) = Found(files[family], k)
  PROVE  /\ KeysInv' /\ FilesFit' /\ ChangesInv' /\ WrittenInv'
         /\ files' \in [1 .. 3 -> Seq(IndexFiles)] /\ files'[family] = gs
         /\ \A f \in 1 .. 3 : f # family => files'[f] = files[f]
<1>1. Typed /\ KeysInv /\ FilesFit /\ ChangesInv /\ WrittenInv
  BY DEF IndexInv
<1>2. KeysInv' /\ \A f, k : Due(f, k)' = Due(f, k)
  BY <1>1, KeysKept
<1>3. /\ FilesFit' /\ ChangesInv'
      /\ files' \in [1 .. 3 -> Seq(IndexFiles)] /\ files'[family] = gs
      /\ \A f \in 1 .. 3 : f # family => files'[f] = files[f]
  BY <1>1, FamilyWritten DEF SameKeys
<1>4. Families' = Families
  BY SameLog DEF SameKeys
<1>5. \A f \in 1 .. 3 : f > family' => files'[f] = <<>>
  BY <1>1, <1>3 DEF WrittenInv, SameKeys, Typed
<1>6. ASSUME NEW f \in 1 .. 3, NEW k \in Families[f].keys
      PROVE  Found(files'[f], k) = Due(f, k)
  <2>1. Found(files[f], k) = Due(f, k)
    BY <1>1 DEF WrittenInv
  <2>2. Found(files'[f], k) = Found(files[f], k)
    BY <1>3
  <2>3. QED
    BY <2>1, <2>2
<1>7. WrittenInv'
  BY <1>2, <1>4, <1>5, <1>6 DEF WrittenInv
<1>8. QED
  BY <1>2, <1>3, <1>7


LEMMA OpenFileKeeps ==
  ASSUME IndexInv, OpenFile
  PROVE  IndexInv'
<1> DEFINE fs == files[family]
           gs == Append(fs, EmptyFile)
           max == Families[family].max
<1>1. Typed /\ KeysInv /\ FilesFit /\ ChangesInv /\ Closing
  BY DEF IndexInv
<1>2. /\ pc = "open" /\ pc' = "write" /\ SameKeys /\ Written(gs)
  BY DEF OpenFile, SameKeys, Written
<1>3. fs \in Seq(IndexFiles) /\ max \in Nat /\ AllFit(fs, max) /\ family \in 1 .. 3
  BY <1>1, FamiliesTyped DEF Typed, FilesFit
<1>4. \A k \in Families[family].keys : Reduced(fs, k, ToSet(ChangedList(family, k)))
  BY <1>1, <1>3 DEF ChangesInv
<1> HIDE DEF fs, gs, max
<1>5. /\ gs \in Seq(IndexFiles) /\ gs # <<>> /\ Len(gs) = Len(fs) + 1
      /\ \A n \in DOMAIN fs : gs[n] = fs[n]
      /\ AllFit(gs, max) /\ \A k : Found(gs, k) = Found(fs, k)
      /\ \A k, S : Reduced(fs, k, S) => Reduced(gs, k, S)
  BY <1>3, FileAdded DEF gs
<1>6. /\ KeysInv' /\ FilesFit' /\ ChangesInv' /\ WrittenInv'
      /\ files' \in [1 .. 3 -> Seq(IndexFiles)] /\ files'[family] = gs
      /\ \A f \in 1 .. 3 : f # family => files'[f] = files[f]
  BY <1>2, <1>4, <1>5, SameFound DEF fs, max
<1>7. Typed' /\ Stage'
  BY <1>1, <1>2, <1>5, <1>6 DEF Typed, PcTyped, Stage, SameKeys
<1>8. Closing'
  <2>1. ASSUME NEW f \in 1 .. 3, NEW n \in DOMAIN files'[f]
        PROVE  \/ files'[f][n].status = "DONE"
               \/ f = family /\ n = Len(files'[f])
    <3>1. CASE f = family
      <4>1. DOMAIN gs = 1 .. Len(fs) + 1 /\ DOMAIN fs = 1 .. Len(fs) /\ Len(fs) \in Nat
        BY <1>3, <1>5
      <4>2. n = Len(gs) \/ n \in DOMAIN fs
        BY <1>5, <1>6, <2>1, <3>1, <4>1
      <4>3. \A m \in DOMAIN fs : fs[m].status = "DONE"
        BY <1>1, <1>2, <1>3 DEF Closing, fs
      <4>4. QED
        BY <1>5, <1>6, <3>1, <4>2, <4>3
    <3>2. CASE f # family
      BY <1>1, <1>2, <1>6, <2>1, <3>2 DEF Closing
    <3>3. QED
      BY <3>1, <3>2
  <2>2. QED
    BY <1>2, <2>1 DEF Closing, SameKeys
<1>9. QED
  BY <1>6, <1>7, <1>8 DEF IndexInv

LEMMA FailToOpenKeeps ==
  ASSUME IndexInv, FailToOpen
  PROVE  IndexInv'
<1>1. Typed /\ Closing /\ pc = "open" /\ pc' = "failed" /\ SameKeys /\ files' = files
  BY DEF IndexInv, FailToOpen, SameKeys
<1>2. KeysInv' /\ FilesFit' /\ ChangesInv' /\ WrittenInv'
  BY <1>1, NothingWritten
<1>3. Typed' /\ Stage' /\ Closing'
  BY <1>1 DEF Typed, PcTyped, Stage, Closing, SameKeys
<1>4. QED
  BY <1>2, <1>3 DEF IndexInv

LEMMA KillKeeps ==
  ASSUME IndexInv, Kill
  PROVE  IndexInv'
<1>1. /\ Typed /\ Closing /\ pc \in {"open", "write"} /\ pc' = "dead" /\ SameKeys
      /\ files' = files
  BY DEF IndexInv, Kill, SameKeys
<1>2. KeysInv' /\ FilesFit' /\ ChangesInv' /\ WrittenInv'
  BY <1>1, NothingWritten
<1>3. Typed' /\ Stage' /\ Closing'
  BY <1>1 DEF Typed, PcTyped, Stage, Closing, SameKeys
<1>4. QED
  BY <1>2, <1>3 DEF IndexInv

LEMMA StutteringKeeps ==
  ASSUME IndexInv, UNCHANGED vars
  PROVE  IndexInv'
<1>1. Typed /\ Closing /\ Stage /\ pc' = pc /\ SameKeys /\ files' = files
  BY DEF IndexInv, vars, SameKeys
<1>2. KeysInv' /\ FilesFit' /\ ChangesInv' /\ WrittenInv'
  BY <1>1, NothingWritten
<1>3. Typed' /\ Stage' /\ Closing'
  BY <1>1 DEF Typed, PcTyped, Stage, Closing, SameKeys
<1>4. QED
  BY <1>2, <1>3 DEF IndexInv

LEMMA BeginKeyKeeps ==
  ASSUME IndexInv, BeginKey
  PROVE  IndexInv'
<1>1. /\ Typed /\ KeysInv /\ FilesFit /\ ChangesInv /\ Closing /\ Stage /\ WrittenInv
  BY DEF IndexInv
<1>2. /\ pc = "write" /\ key = NoKey /\ key' \in left /\ left' = left \ {key'} /\ pos' = 0
      /\ log' = log /\ pc' = pc /\ family' = family /\ files' = files
  BY DEF BeginKey
<1>3. Families' = Families /\ \A f, k : List(f, k)' = List(f, k)
  BY <1>2, SameLog
<1>4. FilesFit' /\ ChangesInv'
  BY <1>1, <1>2, FilesKept
<1>5. Typed' /\ Stage' /\ Closing'
  BY <1>1, <1>2 DEF Typed, PcTyped, Stage, Closing
<1>6. \A f, k : List(f, k) \in Seq(Nat)
  BY <1>1, ListsTyped DEF Typed
<1>7. KeysInv'
  <2>1. Len(List(family, key')) \in Nat
    BY <1>6
  <2>2. pos' <= Len(List(family, key'))
    BY <1>2, <2>1
  <2>3. QED
    BY <1>1, <1>2, <1>3, <2>2 DEF KeysInv, NoKey
<1>8. \A f \in 1 .. 3 : f > family' => files'[f] = <<>>
  BY <1>1, <1>2 DEF WrittenInv
<1>9. ASSUME NEW f \in 1 .. 3, NEW k \in Families[f].keys
      PROVE  Due(f, k)' = Due(f, k)
  <2>1. k \in Nat /\ k # NoKey
    BY <1>1, FamiliesTyped DEF Typed
  <2>2. Due(f, k)' = IF f < family THEN List(f, k)
                     ELSE IF f > family \/ k \in left' THEN <<>>
                     ELSE IF k = key' THEN SubSeq(List(f, k), 1, 0)
                     ELSE List(f, k)
    BY <1>2, <1>3 DEF Due
  <2>3. SubSeq(List(f, k), 1, 0) = <<>>
    BY <1>6, Beginnings
  <2>4. QED
    BY <1>2, <2>1, <2>2, <2>3 DEF Due
<1>10. WrittenInv'
  BY <1>1, <1>2, <1>3, <1>8, <1>9 DEF WrittenInv
<1>11. QED
  BY <1>4, <1>5, <1>7, <1>10 DEF IndexInv

(* The last file of the family being written is closed. *)
LEMMA ClosedFile ==
  ASSUME IndexInv, pc = "write", files' = Closed, NEW gs, gs = files'[family]
  PROVE  /\ Written(gs)
         /\ gs \in Seq(IndexFiles) /\ AllFit(gs, Families[family].max)
         /\ \A k \in Families[family].keys : Reduced(gs, k, ToSet(ChangedList(family, k)))
         /\ \A k : Found(gs, k) = Found(files[family], k)
         /\ \A n \in DOMAIN gs : gs[n].status = "DONE"
<1> DEFINE fs == files[family]
           max == Families[family].max
<1>1. Typed /\ FilesFit /\ ChangesInv /\ Closing /\ fs # <<>>
  BY DEF IndexInv, Stage
<1>2. fs \in Seq(IndexFiles) /\ max \in Nat /\ AllFit(fs, max) /\ family \in 1 .. 3
  BY <1>1, FamiliesTyped DEF Typed, FilesFit
<1>3. \A k \in Families[family].keys : Reduced(fs, k, ToSet(ChangedList(family, k)))
  BY <1>1, <1>2 DEF ChangesInv
<1>4. Replaces(gs, fs, [fs[Len(fs)] EXCEPT !.status = "DONE"]) /\ Written(gs)
  BY <1>1, <1>2 DEF Closed, Typed, Replaces, Written
<1>5. \A n \in DOMAIN fs : n # Len(fs) => fs[n].status = "DONE"
  BY <1>1, <1>2 DEF Closing
<1> HIDE DEF fs, max
<1>6. /\ gs \in Seq(IndexFiles) /\ Len(gs) = Len(fs) /\ AllFit(gs, max)
      /\ gs[Len(fs)].status = "DONE" /\ \A n \in DOMAIN fs : n # Len(fs) => gs[n] = fs[n]
      /\ \A k : Found(gs, k) = Found(fs, k)
      /\ \A k, S : Reduced(fs, k, S) => Reduced(gs, k, S)
  BY <1>1, <1>2, <1>4, FileSealed
<1>7. DOMAIN gs = DOMAIN fs
  BY <1>2, <1>6
<1>8. \A n \in DOMAIN gs : gs[n].status = "DONE"
  BY <1>5, <1>6, <1>7
<1>9. QED
  BY <1>3, <1>4, <1>6, <1>8 DEF fs, max

LEMMA CloseFullFileKeeps ==
  ASSUME IndexInv, CloseFullFile
  PROVE  IndexInv'
<1> DEFINE gs == files'[family]
<1>1. Typed /\ Closing /\ pc = "write" /\ pc' = "open" /\ SameKeys /\ files' = Closed
  BY DEF IndexInv, CloseFullFile, SameKeys
<1>2. gs = files'[family]
  OBVIOUS
<1> HIDE DEF gs
<1>3. /\ Written(gs)
      /\ gs \in Seq(IndexFiles) /\ AllFit(gs, Families[family].max)
      /\ \A k \in Families[family].keys : Reduced(gs, k, ToSet(ChangedList(family, k)))
      /\ \A k : Found(gs, k) = Found(files[family], k)
      /\ \A n \in DOMAIN gs : gs[n].status = "DONE"
  BY <1>1, <1>2, ClosedFile
<1>4. /\ KeysInv' /\ FilesFit' /\ ChangesInv' /\ WrittenInv'
      /\ files' \in [1 .. 3 -> Seq(IndexFiles)] /\ files'[family] = gs
      /\ \A f \in 1 .. 3 : f # family => files'[f] = files[f]
  BY <1>1, <1>3, SameFound
<1>5. Typed' /\ Stage'
  BY <1>1, <1>4 DEF Typed, PcTyped, Stage, SameKeys
<1>6. Closing'
  BY <1>1, <1>3, <1>4 DEF Closing, SameKeys
<1>7. QED
  BY <1>4, <1>5, <1>6 DEF IndexInv


LEMMA CloseFamilyKeeps ==
  ASSUME IndexInv, CloseFamily
  PROVE  IndexInv'
<1> DEFINE gs == files'[family]
<1>1. /\ Typed /\ KeysInv /\ FilesFit /\ ChangesInv /\ Closing /\ WrittenInv
      /\ pc = "write" /\ key = NoKey /\ left = {} /\ files' = Closed
      /\ log' = log /\ key' = key /\ pos' = pos
  BY DEF IndexInv, CloseFamily
<1>2. /\ family \in 1 .. 3
      /\ \/ family = 3 /\ pc' = "done" /\ family' = family /\ left' = left
         \/ /\ family # 3 /\ pc' = "open" /\ family' = family + 1
            /\ left' = Families[family + 1].keys
  <2>1. Len(Families) = 3
    BY DEF Families
  <2>2. QED
    BY <1>1, <2>1 DEF CloseFamily, Typed
<1>3. gs = files'[family]
  OBVIOUS
<1> HIDE DEF gs
<1>4. /\ Written(gs)
      /\ gs \in Seq(IndexFiles) /\ AllFit(gs, Families[family].max)
      /\ \A k \in Families[family].keys : Reduced(gs, k, ToSet(ChangedList(family, k)))
      /\ \A k : Found(gs, k) = Found(files[family], k)
      /\ \A n \in DOMAIN gs : gs[n].status = "DONE"
  BY <1>1, <1>3, ClosedFile
<1>5. /\ FilesFit' /\ ChangesInv'
      /\ files' \in [1 .. 3 -> Seq(IndexFiles)] /\ files'[family] = gs
      /\ \A f \in 1 .. 3 : f # family => files'[f] = files[f]
  BY <1>1, <1>4, FamilyWritten
<1>6. Families' = Families /\ \A f, k : List(f, k)' = List(f, k)
  BY <1>1, SameLog
<1>7. family' \in 1 .. 3
  BY <1>2
<1>8. Typed' /\ Stage'
  BY <1>1, <1>2, <1>5, <1>7 DEF Typed, PcTyped, Stage
<1>9. KeysInv'
  BY <1>1, <1>2, <1>6 DEF KeysInv
<1>10. Closing'
  <2>1. ASSUME NEW f \in 1 .. 3, NEW n \in DOMAIN files'[f] PROVE files'[f][n].status = "DONE"
    BY <1>1, <1>4, <1>5 DEF Closing
  <2>2. QED
    BY <2>1 DEF Closing
<1>11. \A f \in 1 .. 3 : f > family' => files'[f] = <<>>
  BY <1>1, <1>2, <1>5 DEF WrittenInv
<1>12. ASSUME NEW f \in 1 .. 3, NEW k \in Families[f].keys
       PROVE  Found(files'[f], k) = Due(f, k)'
  <2>1. Found(files'[f], k) = Due(f, k)
    BY <1>1, <1>4, <1>5 DEF WrittenInv
  <2>2. k # NoKey
    BY <1>1, FamiliesTyped DEF Typed
  <2>3. Due(f, k) = IF f <= family THEN List(f, k) ELSE <<>>
    BY <1>1, <1>2, <2>2 DEF Due
  <2>4. Due(f, k)' = IF f < family' THEN List(f, k)
                     ELSE IF f > family' \/ k \in left' THEN <<>>
                     ELSE List(f, k)
    BY <1>1, <1>6, <2>2 DEF Due
  <2>5. CASE family = 3
    BY <1>1, <1>2, <2>1, <2>3, <2>4, <2>5
  <2>6. CASE family # 3
    <3>1. family' = family + 1 /\ (f = family' => k \in left')
      BY <1>2, <2>6
    <3>2. QED
      BY <1>2, <2>1, <2>3, <2>4, <3>1
  <2>7. QED
    BY <2>5, <2>6
<1>13. WrittenInv'
  BY <1>6, <1>11, <1>12 DEF WrittenInv
<1>14. QED
  BY <1>5, <1>8, <1>9, <1>10, <1>13 DEF IndexInv

(* The rows an entry takes, and the changed ones among them, fit in the file. *)
Taken == SubSeq(List(family, key), pos + 1, pos + Take)

LEMMA TakenFacts ==
  ASSUME IndexInv, pc = "write", key # NoKey, ~Full
  PROVE  /\ Take \in Nat /\ pos + Take <= Len(List(family, key))
         /\ Taken \in Seq(Nat) /\ Len(Taken) = Take
         /\ ChangedAmong(Taken) \in Seq(Nat)
         /\ HasRoom(files[family][Len(files[family])], Families[family].max, Taken,
                    ChangedAmong(Taken))
<1> DEFINE fs == files[family]
           max == Families[family].max
           L == List(family, key)
           old == fs[Len(fs)]
<1>1. Typed /\ FilesFit /\ KeysInv /\ fs # <<>>
  BY DEF IndexInv, Stage
<1>2. fs \in Seq(IndexFiles) /\ max \in Nat /\ AllFit(fs, max) /\ family \in 1 .. 3
  BY <1>1, FamiliesTyped DEF Typed, FilesFit
<1>3. L \in Seq(Nat) /\ pos \in Nat /\ pos <= Len(L)
  BY <1>1, ListsTyped DEF Typed, KeysInv
<1> HIDE DEF fs, max, L, old
<1>4. old \in IndexFiles /\ Fits(old, max)
  BY <1>1, <1>2, LastFile DEF old
<1>5. File = old
  BY DEF File, Last, old, fs
<1> DEFINE R == Len(old.row_pool)
           C == Len(old.changed_pool)
           T == Len(old.table)
           N == Len(L)
<1>6. /\ R \in Nat /\ C \in Nat /\ T \in Nat /\ N \in Nat
      /\ R < PoolCapacity /\ C < PoolCapacity /\ T < max
  <2>1. R \in Nat /\ C \in Nat /\ T \in Nat /\ N \in Nat
    BY <1>3, <1>4 DEF IndexFiles
  <2>2. ~(R >= PoolCapacity) /\ ~(C >= PoolCapacity) /\ ~(T >= max)
    BY <1>5 DEF Full, max
  <2>3. PoolCapacity \in Nat
    BY IndexAssumption
  <2> HIDE DEF R, C, T, N
  <2>4. QED
    BY <1>2, <2>1, <2>2, <2>3
<1>7. Take = LET row_avail == PoolCapacity - R
                 changed_avail == PoolCapacity - C
                 avail == IF row_avail < changed_avail THEN row_avail ELSE changed_avail
             IN  IF avail < N - pos THEN avail ELSE N - pos
  BY <1>5 DEF Take, L
<1> HIDE DEF R, C, T, N
<1>8. PoolCapacity \in Nat
  BY IndexAssumption
<1>9. pos \in Nat /\ pos <= N
  BY <1>3 DEF N
<1>10. Take \in Nat /\ pos + Take <= N /\ R + Take <= PoolCapacity /\ C + Take <= PoolCapacity
  BY <1>6, <1>7, <1>8, <1>9
<1> DEFINE c == Take
<1>11. c \in Nat /\ pos + c <= Len(L)
  BY <1>10 DEF N
<1> HIDE DEF c
<1>12. SubSeq(L, pos + 1, pos + c) \in Seq(Nat) /\ Len(SubSeq(L, pos + 1, pos + c)) = c
  BY <1>3, <1>11, Stretch
<1>13. Taken \in Seq(Nat) /\ Len(Taken) = Take
  BY <1>12 DEF Taken, c, L
<1> DEFINE S == ToSet(ChangedList(family, key))
           D == Len(Select(Taken, S))
<1> HIDE DEF S
<1>14. Select(Taken, S) \in Seq(Nat) /\ Len(Select(Taken, S)) <= Len(Taken)
  BY <1>13, SelectFacts, SelectShorter
<1>15. ChangedAmong(Taken) = Select(Taken, S)
  BY DEF ChangedAmong, S
<1>16. D \in Nat /\ D <= Take
  BY <1>13, <1>14
<1> HIDE DEF D
<1>17. C + D <= PoolCapacity
  BY <1>6, <1>8, <1>10, <1>16
<1>18. HasRoom(old, max, Taken, Select(Taken, S))
  BY <1>6, <1>10, <1>13, <1>17 DEF HasRoom, R, C, T, D
<1>19. QED
  BY <1>10, <1>13, <1>14, <1>15, <1>18 DEF old, fs, max, N, L

LEMMA WriteEntryKeeps ==
  ASSUME IndexInv, WriteEntry
  PROVE  IndexInv'
<1> DEFINE fs == files[family]
           max == Families[family].max
           L == List(family, key)
           old == fs[Len(fs)]
           changed == ChangedAmong(Taken)
           gs == files'[family]
<1>1. /\ Typed /\ KeysInv /\ FilesFit /\ ChangesInv /\ Closing /\ WrittenInv /\ fs # <<>>
      /\ pc = "write" /\ key # NoKey /\ ~Full
      /\ pos' = pos + Take /\ key' = IF KeyIsWritten(pos') THEN NoKey ELSE key
      /\ log' = log /\ pc' = pc /\ family' = family /\ left' = left
  BY DEF IndexInv, WriteEntry, Stage
<1>2. /\ fs \in Seq(IndexFiles) /\ max \in Nat /\ AllFit(fs, max) /\ family \in 1 .. 3
      /\ key \in Families[family].keys \ left /\ key \in Nat
      /\ L \in Seq(Nat) /\ pos \in Nat /\ pos <= Len(L)
  BY <1>1, FamiliesTyped, ListsTyped DEF Typed, FilesFit, KeysInv
<1>3. /\ Take \in Nat /\ pos + Take <= Len(L)
      /\ Taken \in Seq(Nat) /\ Len(Taken) = Take /\ changed \in Seq(Nat)
      /\ HasRoom(old, max, Taken, changed)
  BY <1>1, TakenFacts
<1>4. Replaces(gs, fs, WithEntry(old, key, Taken, changed)) /\ Written(gs)
  <2> DEFINE written == WithEntry(old, key, Taken, changed)
  <2>1. files' = [files EXCEPT ![family][Len(files[family])] = written]
    BY <1>3 DEF WriteEntry, WithEntry, NewEntry, File, Last, RowOffset, Taken
  <2> HIDE DEF written
  <2>2. gs = [fs EXCEPT ![Len(fs)] = written] /\ files' = [files EXCEPT ![family] = gs]
    BY <1>1, <1>2, <2>1 DEF Typed
  <2>3. QED
    BY <2>2 DEF Replaces, Written, written
<1>5. \A k \in Families[family].keys : Reduced(fs, k, ToSet(ChangedList(family, k)))
  BY <1>1, <1>2 DEF ChangesInv
<1>6. changed = Select(Taken, ToSet(ChangedList(family, key)))
  BY DEF ChangedAmong
<1>7. \A f \in 1 .. 3 : \A k \in Families[f].keys : Found(files[f], k) = Due(f, k)
  BY <1>1 DEF WrittenInv
<1> HIDE DEF fs, max, L, old, changed, gs
<1>8. /\ gs \in Seq(IndexFiles) /\ gs # <<>> /\ Len(gs) = Len(fs) /\ AllFit(gs, max)
      /\ \A n \in DOMAIN fs : gs[n].status = fs[n].status
      /\ \A j : Found(gs, j) = Found(fs, j) \o Added(j, key, Taken)
      /\ \A j, S : Reduced(fs, j, S) /\ (j = key => changed = Select(Taken, S))
                      => Reduced(gs, j, S)
  BY <1>1, <1>2, <1>3, <1>4, EntryWritten DEF old
<1>9. \A k \in Families[family].keys : Reduced(gs, k, ToSet(ChangedList(family, k)))
  BY <1>5, <1>6, <1>8
<1>10. /\ FilesFit' /\ ChangesInv'
       /\ files' \in [1 .. 3 -> Seq(IndexFiles)] /\ files'[family] = gs
       /\ \A f \in 1 .. 3 : f # family => files'[f] = files[f]
  BY <1>1, <1>4, <1>8, <1>9, FamilyWritten DEF max
<1>11. Families' = Families /\ \A f, k : List(f, k)' = List(f, k)
  BY <1>1, SameLog
<1>12. Typed' /\ Stage'
  BY <1>1, <1>8, <1>10 DEF Typed, PcTyped, Stage
<1>13. pos' \in Nat /\ pos' <= Len(L)
  BY <1>1, <1>2, <1>3
<1>14. /\ key' \in {NoKey, key}
       /\ key' = NoKey => pos' = Len(L)
  <2>1. KeyIsWritten(pos') <=> pos' = Len(L)
    BY DEF KeyIsWritten, L
  <2>2. QED
    BY <1>1, <2>1
<1>15. KeysInv'
  BY <1>1, <1>11, <1>13, <1>14 DEF KeysInv, L, NoKey
<1>16. Closing'
  <2>1. DOMAIN gs = DOMAIN fs
    BY <1>2, <1>8
  <2>2. ASSUME NEW f \in 1 .. 3, NEW n \in DOMAIN files'[f]
        PROVE  \/ files'[f][n].status = "DONE"
               \/ f = family /\ n = Len(files'[f])
    <3>1. CASE f = family
      BY <1>1, <1>8, <1>10, <2>1, <2>2, <3>1 DEF Closing, fs
    <3>2. CASE f # family
      BY <1>1, <1>10, <2>2, <3>2 DEF Closing
    <3>3. QED
      BY <3>1, <3>2
  <2>3. QED
    BY <1>1, <2>2 DEF Closing
<1>17. \A f \in 1 .. 3 : f > family' => files'[f] = <<>>
  BY <1>1, <1>2, <1>10 DEF WrittenInv
<1>18. ASSUME NEW f \in 1 .. 3, NEW k \in Families[f].keys
       PROVE  Found(files'[f], k) = Due(f, k)'
  <2>1. k # NoKey /\ k \in Nat /\ List(f, k) \in Seq(Nat)
    BY <1>1, FamiliesTyped, ListsTyped DEF Typed
  <2>2. Due(f, k)' = IF f < family THEN List(f, k)
                     ELSE IF f > family \/ k \in left THEN <<>>
                     ELSE IF k = key' THEN SubSeq(List(f, k), 1, pos')
                     ELSE List(f, k)
    BY <1>1, <1>11 DEF Due
  <2>3. CASE f = family /\ k = key
    <3>1. Due(f, k) = SubSeq(L, 1, pos)
      BY <1>2, <2>3 DEF Due, L
    <3>2. Found(gs, k) = SubSeq(L, 1, pos) \o Taken
      BY <1>7, <1>8, <2>3, <3>1 DEF Added, fs
    <3>3. SubSeq(L, 1, pos) \o Taken = SubSeq(L, 1, pos')
      <4> DEFINE c == Take
      <4>1. c \in Nat /\ pos + c <= Len(L)
        BY <1>3
      <4> HIDE DEF c
      <4>2. SubSeq(L, 1, pos) \o SubSeq(L, pos + 1, pos + c) = SubSeq(L, 1, pos + c)
        BY <1>2, <4>1, StretchJoins
      <4>3. QED
        BY <1>1, <4>2 DEF c, Taken, L
    <3>4. Due(f, k)' = SubSeq(L, 1, pos')
      <4>1. SubSeq(L, 1, Len(L)) = L
        BY <1>2, Beginnings
      <4>5. ~(f < family) /\ ~(f > family) /\ k \notin left /\ List(f, k) = L
        BY <1>2, <2>3 DEF L
      <4>6. Due(f, k)' = IF k = key' THEN SubSeq(L, 1, pos') ELSE L
        BY <2>2, <4>5
      <4>2. CASE key' = key
        BY <2>3, <4>2, <4>6
      <4>3. CASE key' = NoKey
        BY <1>14, <2>1, <4>1, <4>3, <4>6
      <4>4. QED
        BY <1>14, <4>2, <4>3
    <3>5. QED
      BY <1>10, <2>3, <3>2, <3>3, <3>4
  <2>4. CASE f = family /\ k # key
    <3>1. Due(f, k)' = Due(f, k)
      BY <1>14, <2>1, <2>2, <2>4 DEF Due
    <3>2. Found(gs, k) = Found(fs, k) \o <<>> /\ Found(fs, k) = Due(f, k)
      BY <1>7, <1>8, <2>4 DEF Added, fs
    <3>3. Found(fs, k) \in Seq(Nat)
      BY <1>2, FoundIsSeq
    <3>4. Found(fs, k) \o <<>> = Found(fs, k)
      BY <3>3
    <3>5. QED
      BY <1>10, <2>4, <3>1, <3>2, <3>4
  <2>5. CASE f # family
    <3>1. Due(f, k)' = Due(f, k)
      BY <1>2, <2>2, <2>5 DEF Due
    <3>2. QED
      BY <1>7, <1>10, <2>5, <3>1
  <2>6. QED
    BY <2>3, <2>4, <2>5
<1>19. WrittenInv'
  BY <1>11, <1>17, <1>18 DEF WrittenInv
<1>20. QED
  BY <1>10, <1>12, <1>15, <1>16, <1>19 DEF IndexInv


-----------------------------------------------------------------------------
(* IndexInv is inductive, and the checked invariants follow.                 *)

(* What of each list is in the files is what the worker has got to, file by  *)
(* file, and the entries of each file fill its pools one after the other.    *)
THEOREM WrittenAsFarAs == Spec => []IndexInv
<1>1. Init => IndexInv
  BY IndexInvInit
<1>2. IndexInv /\ [Next]_vars => IndexInv'
  <2> SUFFICES ASSUME IndexInv, [Next]_vars PROVE IndexInv'
    OBVIOUS
  <2>1. CASE OpenFile
    BY <2>1, OpenFileKeeps
  <2>2. CASE FailToOpen
    BY <2>2, FailToOpenKeeps
  <2>3. CASE BeginKey
    BY <2>3, BeginKeyKeeps
  <2>4. CASE CloseFullFile
    BY <2>4, CloseFullFileKeeps
  <2>5. CASE WriteEntry
    BY <2>5, WriteEntryKeeps
  <2>6. CASE CloseFamily
    BY <2>6, CloseFamilyKeeps
  <2>7. CASE Kill
    BY <2>7, KillKeeps
  <2>8. CASE UNCHANGED vars
    BY <2>8, StutteringKeeps
  <2>9. QED
    BY <2>1, <2>2, <2>3, <2>4, <2>5, <2>6, <2>7, <2>8 DEF Next, Worker
<1>3. QED
  BY <1>1, <1>2, PTL DEF Spec

LEMMA ThreeFamilies == DOMAIN Families = 1 .. 3
  BY DEF Families

(* The entries of a file take their rows from its pools one after the other: *)
(* none points outside of them, and no two share a row, whatever the log,    *)
(* the capacities and the moment the worker is stopped at.                   *)
THEOREM EntriesNeverOverlap == Spec => []EntriesAreDisjoint
<1>1. IndexInv => EntriesAreDisjoint
  <2> SUFFICES ASSUME IndexInv, NEW f \in DOMAIN Families, NEW n \in DOMAIN files[f]
               PROVE  EntriesAreDisjoint!(f)!(n)
    BY DEF EntriesAreDisjoint
  <2> DEFINE file == files[f][n]
             R == Len(file.row_pool)
             C == Len(file.changed_pool)
             row_first(e) == e.row_offset + 1
             row_last(e) == e.row_offset + e.count
             change_first(e) == e.changed_offset + 1
             change_last(e) == e.changed_offset + e.changed_count
  <2>1. f \in 1 .. 3
    BY ThreeFamilies
  <2>2. file \in IndexFiles /\ Fits(file, Families[f].max)
    <3>1. files[f] \in Seq(IndexFiles) /\ AllFit(files[f], Families[f].max)
      BY <2>1 DEF IndexInv, Typed, FilesFit
    <3>2. QED
      BY <3>1 DEF AllFit
  <2>3. /\ file.table \in Seq(Entries) /\ file.row_pool \in Seq(Nat)
        /\ file.changed_pool \in Seq(Nat)
    BY <2>2 DEF IndexFiles
  <2>4. R \in Nat /\ C \in Nat /\ DOMAIN file.row_pool = 1 .. R /\ DOMAIN file.changed_pool = 1 .. C
    BY <2>3
  <2>5. ASSUME NEW m \in DOMAIN file.table
        PROVE  /\ file.table[m] \in Entries /\ InPools(file.table[m], R, C)
               /\ m \in Nat
    BY <2>2, <2>3, <2>5 DEF Fits
  <2>6. \A m, o \in DOMAIN file.table : m < o => Before(file.table[m], file.table[o])
    BY <2>2 DEF Fits
  <2>7. R <= PoolCapacity /\ C <= PoolCapacity /\ Len(file.table) <= Families[f].max
    BY <2>2 DEF Fits
  <2> DEFINE span(e) == e.row_offset + 1 .. e.row_offset + e.count
             changed_span(e) == e.changed_offset + 1 .. e.changed_offset + e.changed_count
  <2>8. ASSUME NEW e \in Entries, NEW d \in Entries, Before(d, e) \/ Before(e, d)
        PROVE  span(d) \cap span(e) = {} /\ changed_span(d) \cap changed_span(e) = {}
    BY <2>8 DEF Entries, Before
  <2>9. ASSUME NEW e \in Entries, InPools(e, R, C)
        PROVE  span(e) \subseteq 1 .. R /\ changed_span(e) \subseteq 1 .. C
    <3> HIDE DEF R, C
    <3>1. QED
      BY <2>4, <2>9 DEF Entries, InPools
  <2>10. ASSUME NEW m \in DOMAIN file.table
         PROVE  /\ span(file.table[m]) \subseteq DOMAIN file.row_pool
                /\ changed_span(file.table[m]) \subseteq DOMAIN file.changed_pool
    <3> HIDE DEF span, changed_span, R, C
    <3>1. QED
      BY <2>4, <2>5, <2>9
  <2>11. ASSUME NEW m \in DOMAIN file.table, NEW o \in DOMAIN file.table, m # o
         PROVE  /\ span(file.table[m]) \cap span(file.table[o]) = {}
                /\ changed_span(file.table[m]) \cap changed_span(file.table[o]) = {}
    <3> HIDE DEF span, changed_span
    <3>1. m < o \/ o < m
      BY <2>5, <2>11
    <3>2. QED
      BY <2>5, <2>6, <2>8, <3>1
  <2>12. QED
    BY <2>7, <2>10, <2>11
<1>2. QED
  BY <1>1, WrittenAsFarAs, PTL

(* What a reader of the closed files finds, and what is in all files.        *)
Closings(fs) == \A n \in DOMAIN fs : fs[n].status = "DONE" \/ n = Len(fs)

DoneRows(fs, k) == FlattenSeq([n \in DOMAIN fs |->
  IF fs[n].status = "DONE" THEN RowsFound(fs[n], k) ELSE <<>>])
DoneChanges(fs, k) == FlattenSeq([n \in DOMAIN fs |->
  IF fs[n].status = "DONE" THEN ChangedFound(fs[n], k) ELSE <<>>])

LEMMA DoneReduced ==
  ASSUME NEW fs \in Seq(IndexFiles), NEW max, AllFit(fs, max), NEW k, NEW S, Reduced(fs, k, S)
  PROVE  DoneChanges(fs, k) = Select(DoneRows(fs, k), S)
<1> DEFINE row(n) == IF fs[n].status = "DONE" THEN RowsFound(fs[n], k) ELSE <<>>
           change(n) == IF fs[n].status = "DONE" THEN ChangedFound(fs[n], k) ELSE <<>>
           rows == [n \in DOMAIN fs |-> row(n)]
           changes == [n \in DOMAIN fs |-> change(n)]
           N == Len(fs)
<1>1. /\ N \in Nat /\ DOMAIN fs = 1 .. N /\ <<>> \in Seq(Nat)
      /\ \A n \in 1 .. N : fs[n] \in IndexFiles /\ Fits(fs[n], max)
  BY DEF AllFit
<1>2. \A n \in 1 .. N : row(n) \in Seq(Nat) /\ change(n) \in Seq(Nat)
  BY <1>1, FoundTyped
<1>3. \A n \in 1 .. N : change(n) = Select(row(n), S)
  BY <1>1, SelectEmpty DEF Reduced
<1>4. /\ FlattenSeq(rows) = DoneRows(fs, k) /\ FlattenSeq(changes) = DoneChanges(fs, k)
      /\ rows = [n \in 1 .. N |-> row(n)] /\ changes = [n \in 1 .. N |-> change(n)]
  BY <1>1 DEF DoneRows, DoneChanges
<1> HIDE DEF N, row, change, rows, changes
<1>5. IsList(rows, N, Seq(Nat)) /\ IsList(changes, N, Seq(Nat))
  BY <1>2, <1>4 DEF IsList
<1>6. rows \in Seq(Seq(Nat)) /\ Len(rows) = N
  BY <1>1, <1>5, ListIsSeq
<1>7. changes \in Seq(Seq(Nat)) /\ Len(changes) = N
  BY <1>1, <1>5, ListIsSeq
<1>8. \A n \in 1 .. Len(rows) : changes[n] = Select(rows[n], S)
  BY <1>3, <1>4, <1>6
<1> DEFINE X == Nat
<1>9. rows \in Seq(Seq(X)) /\ changes \in Seq(Seq(X)) /\ Len(changes) = Len(rows)
  BY <1>6, <1>7
<1> HIDE DEF X
<1>10. FlattenSeq(changes) = Select(FlattenSeq(rows), S)
  BY <1>8, <1>9, FlattenSelect
<1>11. QED
  BY <1>4, <1>10

LEMMA DoneBegins ==
  ASSUME NEW fs \in Seq(IndexFiles), NEW max, AllFit(fs, max), Closings(fs), NEW k
  PROVE  /\ \E rest \in Seq(Nat) : Found(fs, k) = DoneRows(fs, k) \o rest
         /\ DoneRows(fs, k) \in Seq(Nat)
         /\ (\A n \in DOMAIN fs : fs[n].status = "DONE") => DoneRows(fs, k) = Found(fs, k)
<1> DEFINE row(n) == IF fs[n].status = "DONE" THEN RowsFound(fs[n], k) ELSE <<>>
           rows == [n \in DOMAIN fs |-> row(n)]
           all == [n \in DOMAIN fs |-> RowsFound(fs[n], k)]
           N == Len(fs)
<1>1. /\ N \in Nat /\ DOMAIN fs = 1 .. N /\ <<>> \in Seq(Nat)
      /\ \A n \in 1 .. N : fs[n] \in IndexFiles /\ Fits(fs[n], max)
  BY DEF AllFit
<1>2. /\ all \in Seq(Seq(Nat)) /\ Len(all) = N /\ DOMAIN all = 1 .. N
      /\ \A n \in 1 .. N : RowsFound(fs[n], k) \in Seq(Nat) /\ all[n] = RowsFound(fs[n], k)
      /\ FlattenSeq(all) = Found(fs, k)
  BY <1>1, FoundIsSeq DEF Found
<1>3. \A n \in 1 .. N : row(n) \in Seq(Nat) /\ rows[n] = row(n)
  BY <1>1, <1>2
<1>4. FlattenSeq(rows) = DoneRows(fs, k) /\ rows = [n \in 1 .. N |-> rows[n]]
  BY <1>1 DEF DoneRows
<1>5. IsList(rows, N, Seq(Nat)) /\ all = [n \in 1 .. N |-> all[n]]
  BY <1>2, <1>3, <1>4 DEF IsList
<1>6. /\ \A n \in 1 .. N : n # N \/ fs[n].status = "DONE" => rows[n] = all[n]
      /\ \A n \in 1 .. N : fs[n].status # "DONE" => rows[n] = <<>>
  BY <1>1, <1>2, <1>3 DEF Closings
<1> HIDE DEF N, row, rows, all
<1>7. rows \in Seq(Seq(Nat)) /\ Len(rows) = N
  BY <1>1, <1>5, ListIsSeq
<1>8. DoneRows(fs, k) \in Seq(Nat)
  BY <1>4, <1>7, FlattenTyped
<1>9. CASE \A n \in DOMAIN fs : fs[n].status = "DONE"
  <2>1. \A n \in 1 .. N : rows[n] = all[n]
    BY <1>1, <1>6, <1>9
  <2>2. rows = all
    BY <1>2, <1>7, <2>1, SeqEqual
  <2>3. DoneRows(fs, k) = Found(fs, k)
    BY <1>2, <1>4, <2>2
  <2>4. DoneRows(fs, k) \o <<>> = DoneRows(fs, k)
    BY <1>8
  <2>5. QED
    BY <1>1, <1>8, <2>3, <2>4
<1>10. CASE ~(\A n \in DOMAIN fs : fs[n].status = "DONE")
  <2>1. PICK n \in 1 .. N : fs[n].status # "DONE"
    BY <1>1, <1>10
  <2>2. n = N /\ N # 0
    <3>1. n \in DOMAIN fs
      BY <1>1, <2>1
    <3>2. n = N
      BY <2>1, <3>1 DEF Closings, N
    <3>3. QED
      BY <1>1, <2>1, <3>2
  <2>3. rows[N] = <<>> /\ all[N] \in Seq(Nat)
    BY <1>2, <1>6, <2>1, <2>2
  <2> DEFINE t == all[N]
  <2>4. t \in Seq(Nat) /\ <<>> \o t = t
    BY <2>3
  <2>5. all = [rows EXCEPT ![N] = @ \o t]
    <3>1. \A m \in 1 .. N : all[m] = IF m = N THEN rows[N] \o t ELSE rows[m]
      BY <1>6, <2>3, <2>4
    <3>2. rows = [m \in 1 .. N |-> rows[m]] /\ all = [m \in 1 .. N |-> all[m]]
      BY <1>4, <1>5
    <3> HIDE DEF t
    <3>3. [rows EXCEPT ![N] = @ \o t] = [m \in 1 .. N |-> IF m = N THEN rows[N] \o t ELSE rows[m]]
      BY <3>2
    <3>4. QED
      BY <3>1, <3>2, <3>3
  <2> HIDE DEF t
  <2>6. rows # <<>>
    BY <1>7, <2>2
  <2>7. FlattenSeq(all) = FlattenSeq(rows) \o t
    BY <1>7, <2>4, <2>5, <2>6, FlattenGrows
  <2>8. QED
    BY <1>2, <1>4, <1>8, <1>10, <2>4, <2>7
<1>11. QED
  BY <1>9, <1>10


(* A reader of the closed files of a family finds the first rows of each key *)
(* in order and once, and those that changed among them, whatever the log,   *)
(* the capacities and the moment the worker is stopped at.                   *)
THEOREM ReadersFindAPrefix == Spec => []ReadsAPrefix
<1>1. IndexInv => ReadsAPrefix
  <2> SUFFICES ASSUME IndexInv, NEW f \in 1 .. 3, NEW k \in Families[f].keys
               PROVE  /\ IsPrefix(RowsRead(f, k), List(f, k))
                      /\ ChangedRead(f, k) = Select(RowsRead(f, k), ToSet(ChangedList(f, k)))
    BY ThreeFamilies DEF ReadsAPrefix
  <2> DEFINE fs == files[f]
             max == Families[f].max
             L == List(f, k)
             S == ToSet(ChangedList(f, k))
  <2>1. /\ fs \in Seq(IndexFiles) /\ AllFit(fs, max) /\ Closings(fs) /\ Reduced(fs, k, S)
        /\ Found(fs, k) = Due(f, k) /\ L \in Seq(Nat) /\ family \in 1 .. 3
    BY ListsTyped DEF IndexInv, Typed, FilesFit, Closing, Closings, ChangesInv, WrittenInv
  <2>2. RowsRead(f, k) = DoneRows(fs, k) /\ ChangedRead(f, k) = DoneChanges(fs, k)
    BY DEF RowsRead, ChangedRead, DoneRows, DoneChanges
  <2>3. \E n \in 0 .. Len(L) : Due(f, k) = SubSeq(L, 1, n)
    <3>1. 0 \in 0 .. Len(L) /\ Len(L) \in 0 .. Len(L)
      BY <2>1
    <3>2. SubSeq(L, 1, 0) = <<>> /\ SubSeq(L, 1, Len(L)) = L
      BY <2>1, Beginnings
    <3>3. CASE Due(f, k) = <<>> \/ Due(f, k) = L
      BY <3>1, <3>2, <3>3
    <3>4. CASE ~(Due(f, k) = <<>> \/ Due(f, k) = L)
      <4>1. f = family /\ k = key /\ Due(f, k) = SubSeq(L, 1, pos) /\ key # NoKey
        <5>1. ~(f < family) /\ ~(f > family) /\ k = key /\ Due(f, k) = SubSeq(L, 1, pos)
          BY <3>4 DEF Due
        <5>2. f = family
          BY <2>1, <5>1
        <5>3. k # NoKey
          BY FamiliesTyped DEF IndexInv, Typed
        <5>4. QED
          BY <5>1, <5>2, <5>3
      <4>2. pos \in 0 .. Len(L)
        BY <2>1, <4>1 DEF IndexInv, KeysInv
      <4>3. QED
        BY <4>1, <4>2
    <3>5. QED
      BY <3>3, <3>4
  <2> HIDE DEF fs, max, L, S
  <2>4. PICK n \in 0 .. Len(L) : Due(f, k) = SubSeq(L, 1, n)
    BY <2>3
  <2>5. PICK rest \in Seq(Nat) : Found(fs, k) = DoneRows(fs, k) \o rest
    BY <2>1, DoneBegins
  <2> DEFINE r == DoneRows(fs, k)
  <2>6. r \in Seq(Nat) /\ SubSeq(L, 1, n) = r \o rest
    BY <2>1, <2>4, <2>5, DoneBegins
  <2> HIDE DEF r
  <2>7. IsPrefix(r, L)
    BY <2>1, <2>4, <2>6, BeginsIsPrefix
  <2>8. DoneChanges(fs, k) = Select(r, S)
    BY <2>1, DoneReduced DEF r
  <2>9. QED
    BY <2>2, <2>7, <2>8 DEF L, S, r
<1>2. QED
  BY <1>1, WrittenAsFarAs, PTL

(* When the worker is done every row is found under its id, its channel and  *)
(* its direction, whatever the log and wherever full files cut its lists.    *)
THEOREM AllRowsIndexed == Spec => []EveryRowIndexed
<1>1. IndexInv => EveryRowIndexed
  <2> SUFFICES ASSUME IndexInv, pc = "done", NEW f \in 1 .. 3, NEW k \in Families[f].keys
               PROVE  RowsRead(f, k) = List(f, k)
    BY ThreeFamilies DEF EveryRowIndexed
  <2> DEFINE fs == files[f]
  <2>1. /\ fs \in Seq(IndexFiles) /\ AllFit(fs, Families[f].max)
        /\ \A n \in DOMAIN fs : fs[n].status = "DONE"
        /\ Found(fs, k) = Due(f, k)
    BY DEF IndexInv, Typed, FilesFit, Closing, WrittenInv
  <2>2. family = 3 /\ left = {} /\ key = NoKey /\ k # NoKey
    BY FamiliesTyped DEF IndexInv, Typed, Stage
  <2>3. Due(f, k) = List(f, k)
    BY <2>2 DEF Due
  <2>4. RowsRead(f, k) = DoneRows(fs, k)
    BY DEF RowsRead, DoneRows
  <2> HIDE DEF fs
  <2>5. DoneRows(fs, k) = Found(fs, k)
    BY <2>1, DoneBegins DEF Closings
  <2>6. QED
    BY <2>1, <2>3, <2>4, <2>5
<1>2. QED
  BY <1>1, WrittenAsFarAs, PTL

=============================================================================
