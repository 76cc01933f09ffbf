--------------------------- MODULE IndexedCsvProofs ---------------------------
(***************************************************************************)
(* The engine, for any directory, dialects, texts, widths and numbers of   *)
(* edits and writes: its columns, headers, rows and index stay in step, a  *)
(* save finds the rows it is to write, a page shows the table, and every   *)
(* command does to it what CsvDocument promises.                           *)
(***************************************************************************)
EXTENDS IndexedCsv, SequenceTheorems, WellFoundedInduction, TLAPS

----------------------------------------------------------------------------
(* The inductive invariant.                                                *)

Record == {record \in Seq(Cell) : Len(record) \in 1 .. MaxWidth}

FileType == [lines : Seq(Record), dialect : Dialect, stamp : 0 .. MaxStamp]

ColumnType == [name : Cell, src : Nat, default : Cell]

RowType == [src : Nat, cells : [Key -> Texts]]

FormatType == [header : BOOLEAN, dialect : Dialect]

LoadedType == [lines : Seq(Record), dialect : Dialect, width : Nat]

\* A column of the file has no default of its own.
ColumnsFit(cols) ==
    /\ cols \in Seq(ColumnType) /\ Len(cols) \in 0 .. MaxWidth
    /\ \A i \in DOMAIN cols : cols[i].src # 0 => cols[i].default = Empty

\* A row is new or one that was indexed.
RowsFit(rws) ==
    /\ rws \in Seq(RowType)
    /\ \A r \in DOMAIN rws : rws[r].src # 0 => rws[r].src \in DOMAIN index

EditsUnder(rws, names) ==
    \A r \in DOMAIN rws : \A k \in Key : rws[r].cells[k] # NoEdit => k \in Range(names)

\* What headers must be when they are used for lookups.
NamesFit(names, hdr) ==
    /\ ~hdr => names = SyntheticHeaders(Len(names))
    /\ DistinctHeaders => IsInjective(names)

FilesFit ==
    /\ dir \in [Path -> FileType \cup {NoFile}]
    /\ clock \in 0 .. MaxStamp /\ stamp \in 0 .. clock
    /\ \A p \in Path : dir[p] # NoFile => dir[p].stamp <= clock
    /\ \A p, q \in Path :
          dir[p] # NoFile /\ dir[q] # NoFile /\ dir[p].stamp = dir[q].stamp => dir[p] = dir[q]

ScalarsFit ==
    /\ locked \in BOOLEAN /\ has_headers \in BOOLEAN /\ headers_disabled \in BOOLEAN
    /\ modified \in BOOLEAN /\ lost \in BOOLEAN
    /\ status \in {"closed", "open", "saving"}
    /\ input_path \in Path
    /\ format \in FormatType /\ output_format \in Dialect /\ loaded \in LoadedType
    /\ steps \in 0 .. MaxSteps

TableFits ==
    /\ ColumnsFit(columns) /\ RowsFit(rows) /\ index \in Seq(Nat)
    /\ headers = Names(columns) \/ (lost /\ headers = <<>>)
    /\ EditsUnder(rows, Names(columns))
    /\ columns # <<>> \/ status = "closed"
    /\ status # "closed" /\ ~lost => NamesFit(headers, has_headers)

\* The order of a save is one of the headers; there is none without a save.
OrderFits == order \in ColumnOrders /\ (status # "saving" => order = <<>>)

\* A file with the size and the mtime of the one that was indexed is that one.
LoadedFits ==
    status # "closed" /\ ~lost =>
        /\ \A p \in Path : dir[p] # NoFile /\ dir[p].stamp = stamp =>
              dir[p].lines = loaded.lines /\ dir[p].dialect = loaded.dialect
        /\ \A i \in DOMAIN index : index[i] \in DOMAIN loaded.lines

\* The check of a save lasts until it replaces the file.
CheckLasts ==
    ~MidSaveChanges /\ status = "saving" =>
        dir[input_path] # NoFile /\ dir[input_path].stamp = stamp

IInv == FilesFit /\ ScalarsFit /\ TableFits /\ OrderFits /\ LoadedFits /\ CheckLasts

----------------------------------------------------------------------------
(* Sequences and numbers.                                                  *)

\* Inserting an item shifts those from its position on by one.
LEMMA InsertAtFits ==
    ASSUME NEW S, NEW s \in Seq(S), NEW i \in 1 .. Len(s) + 1, NEW e \in S
    PROVE  /\ InsertAt(s, i, e) \in Seq(S) /\ Len(InsertAt(s, i, e)) = Len(s) + 1
           /\ DOMAIN InsertAt(s, i, e) = 1 .. Len(s) + 1
           /\ \A j \in 1 .. Len(s) + 1 :
                InsertAt(s, i, e)[j] = IF j < i THEN s[j] ELSE IF j = i THEN e ELSE s[j - 1]
  <1> DEFINE a == SubSeq(s, 1, i - 1)
             b == SubSeq(s, i, Len(s))
             m == <<e>>
  <1>1. Len(s) \in Nat /\ i \in Nat /\ DOMAIN s = 1 .. Len(s) /\ \A j \in 1 .. Len(s) : s[j] \in S
    BY LenProperties, ElementOfSeq
  <1>2. /\ a \in Seq(S) /\ Len(a) = i - 1
        /\ \A j \in 1 .. i - 1 : a[j] = s[j]
    BY <1>1, SubSeqProperties
  <1>3. /\ b \in Seq(S) /\ Len(b) = Len(s) - i + 1
        /\ \A j \in 1 .. Len(s) - i + 1 : b[j] = s[i + j - 1]
    BY <1>1, SubSeqProperties
  <1>4. m \in Seq(S) /\ Len(m) = 1 /\ m[1] = e
    OBVIOUS
  <1>5. InsertAt(s, i, e) = (a \o m) \o b
    BY DEF InsertAt
  <1> HIDE DEF a, b, m
  <1> DEFINE c == a \o m
  <1>6. /\ c \in Seq(S) /\ Len(c) = i
        /\ \A j \in 1 .. i : c[j] = IF j <= i - 1 THEN a[j] ELSE m[j - (i - 1)]
    <2>1. /\ c \in Seq(S) /\ Len(c) = Len(a) + Len(m)
          /\ \A j \in 1 .. Len(a) + Len(m) : c[j] = IF j <= Len(a) THEN a[j] ELSE m[j - Len(a)]
      BY <1>2, <1>4, ConcatProperties
    <2>2. Len(a) + Len(m) = i
      BY <1>1, <1>2, <1>4
    <2> QED
      BY <1>2, <2>1, <2>2
  <1> HIDE DEF c
  <1>7. /\ c \o b \in Seq(S) /\ Len(c \o b) = Len(s) + 1
        /\ \A j \in 1 .. Len(s) + 1 : (c \o b)[j] = IF j <= i THEN c[j] ELSE b[j - i]
    <2>1. /\ c \o b \in Seq(S) /\ Len(c \o b) = Len(c) + Len(b)
          /\ \A j \in 1 .. Len(c) + Len(b) :
                (c \o b)[j] = IF j <= Len(c) THEN c[j] ELSE b[j - Len(c)]
      <3>1. c \in Seq(S) /\ b \in Seq(S)
        BY <1>3, <1>6
      <3> QED
        BY <3>1, ConcatProperties
    <2>2. Len(c) + Len(b) = Len(s) + 1
      BY <1>1, <1>3, <1>6
    <2> QED
      BY <1>6, <2>1, <2>2
  <1>8. InsertAt(s, i, e) = c \o b
    BY <1>5 DEF c
  <1> DEFINE t == c \o b
  <1>9. DOMAIN t = 1 .. Len(t)
    BY <1>7, LenProperties
  <1>10. \A j \in 1 .. Len(s) + 1 : t[j] = IF j <= i THEN c[j] ELSE b[j - i]
    BY <1>7
  <1> HIDE DEF t
  <1>11. ASSUME NEW j \in 1 .. Len(s) + 1
         PROVE  t[j] = IF j < i THEN s[j] ELSE IF j = i THEN e ELSE s[j - 1]
    <2>1. CASE j < i
      <3>1. j \in 1 .. i /\ j <= i - 1 /\ j \in 1 .. i - 1 /\ j <= i
        BY <1>1, <2>1
      <3>2. t[j] = c[j] /\ c[j] = a[j]
        BY <1>6, <1>10, <3>1
      <3> QED
        BY <1>2, <2>1, <3>1, <3>2
    <2>2. CASE j = i
      BY <1>1, <1>4, <1>6, <1>10, <2>2
    <2>3. CASE j > i
      <3>1. t[j] = b[j - i] /\ j - i \in 1 .. Len(s) - i + 1
        BY <1>1, <1>10, <2>3
      <3>2. b[j - i] = s[i + (j - i) - 1]
        BY <1>3, <3>1
      <3>3. i + (j - i) - 1 = j - 1
        BY <1>1
      <3> QED
        BY <1>1, <2>3, <3>1, <3>2, <3>3
    <2> QED
      BY <1>1, <2>1, <2>2, <2>3
  <1> QED
    BY <1>7, <1>8, <1>9, <1>11 DEF t

\* Removing an item shifts those behind it back by one.
LEMMA RemoveAtFits ==
    ASSUME NEW S, NEW s \in Seq(S), NEW i \in 1 .. Len(s)
    PROVE  /\ RemoveAt(s, i) \in Seq(S) /\ Len(RemoveAt(s, i)) = Len(s) - 1
           /\ DOMAIN RemoveAt(s, i) = 1 .. Len(s) - 1
           /\ \A j \in 1 .. Len(s) - 1 :
                RemoveAt(s, i)[j] = IF j < i THEN s[j] ELSE s[j + 1]
  <1> DEFINE a == SubSeq(s, 1, i - 1)
             b == SubSeq(s, i + 1, Len(s))
             t == a \o b
  <1>1. Len(s) \in Nat /\ i \in Nat /\ \A j \in 1 .. Len(s) : s[j] \in S
    BY LenProperties, ElementOfSeq
  <1>2. /\ a \in Seq(S) /\ Len(a) = i - 1
        /\ \A j \in 1 .. i - 1 : a[j] = s[j]
    BY <1>1, SubSeqProperties
  <1>3. /\ b \in Seq(S) /\ Len(b) = Len(s) - i
        /\ \A j \in 1 .. Len(s) - i : b[j] = s[i + 1 + j - 1]
    BY <1>1, SubSeqProperties
  <1>4. RemoveAt(s, i) = t
    BY DEF RemoveAt
  <1> HIDE DEF a, b
  <1>5. /\ t \in Seq(S) /\ Len(t) = Len(s) - 1
        /\ \A j \in 1 .. Len(s) - 1 : t[j] = IF j <= i - 1 THEN a[j] ELSE b[j - (i - 1)]
    <2>1. /\ t \in Seq(S) /\ Len(t) = Len(a) + Len(b)
          /\ \A j \in 1 .. Len(a) + Len(b) : t[j] = IF j <= Len(a) THEN a[j] ELSE b[j - Len(a)]
      <3>1. a \in Seq(S) /\ b \in Seq(S)
        BY <1>2, <1>3
      <3> QED
        BY <3>1, ConcatProperties
    <2>2. Len(a) + Len(b) = Len(s) - 1
      BY <1>1, <1>2, <1>3
    <2> HIDE DEF t
    <2> QED
      BY <1>2, <2>1, <2>2
  <1> HIDE DEF t
  <1>6. DOMAIN t = 1 .. Len(t)
    BY <1>5, LenProperties
  <1>7. ASSUME NEW j \in 1 .. Len(s) - 1
        PROVE  t[j] = IF j < i THEN s[j] ELSE s[j + 1]
    <2>1. CASE j < i
      BY <1>1, <1>2, <1>5, <2>1
    <2>2. CASE ~(j < i)
      <3>1. t[j] = b[j - (i - 1)] /\ j - (i - 1) \in 1 .. Len(s) - i
        BY <1>1, <1>5, <2>2
      <3>2. b[j - (i - 1)] = s[i + 1 + (j - (i - 1)) - 1]
        BY <1>3, <3>1
      <3>3. i + 1 + (j - (i - 1)) - 1 = j + 1
        BY <1>1
      <3> QED
        BY <2>2, <3>1, <3>2, <3>3
    <2> QED
      BY <2>1, <2>2
  <1> QED
    BY <1>4, <1>5, <1>6, <1>7

\* The tail of a sequence is the rest of it.
LEMMA TailFits ==
    ASSUME NEW S, NEW s \in Seq(S), s # <<>>
    PROVE  /\ Tail(s) \in Seq(S) /\ Len(s) \in Nat \ {0} /\ Len(Tail(s)) = Len(s) - 1
           /\ DOMAIN Tail(s) = 1 .. Len(s) - 1 /\ DOMAIN s = 1 .. Len(s) /\ s[1] \in S
           /\ \A i \in 1 .. Len(s) - 1 : Tail(s)[i] = s[i + 1]
  <1>1. /\ Tail(s) \in Seq(S) /\ Len(Tail(s)) = Len(s) - 1 /\ Len(s) \in Nat \ {0}
        /\ \A i \in 1 .. Len(Tail(s)) : Tail(s)[i] = s[i + 1]
    BY HeadTailProperties, EmptySeq
  <1>2. DOMAIN s = 1 .. Len(s) /\ DOMAIN Tail(s) = 1 .. Len(Tail(s))
    BY <1>1, LenProperties
  <1>3. s[1] \in S
    BY <1>1, ElementOfSeq
  <1> QED
    BY <1>1, <1>2, <1>3

\* An item put in front of a sequence.
LEMMA ConsFits ==
    ASSUME NEW S, NEW s \in Seq(S), NEW e \in S
    PROVE  /\ <<e>> \o s \in Seq(S) /\ Len(<<e>> \o s) = Len(s) + 1 /\ Len(s) \in Nat
           /\ DOMAIN (<<e>> \o s) = 1 .. Len(s) + 1
           /\ \A i \in 1 .. Len(s) + 1 : (<<e>> \o s)[i] = IF i = 1 THEN e ELSE s[i - 1]
  <1> DEFINE m == <<e>>
             t == m \o s
  <1>1. m \in Seq(S) /\ Len(m) = 1 /\ m[1] = e /\ Len(s) \in Nat
    BY LenProperties
  <1> HIDE DEF m
  <1>2. /\ t \in Seq(S) /\ Len(t) = 1 + Len(s)
        /\ \A i \in 1 .. 1 + Len(s) : t[i] = IF i <= 1 THEN m[i] ELSE s[i - 1]
    <2>1. /\ t \in Seq(S) /\ Len(t) = Len(m) + Len(s)
          /\ \A j \in 1 .. Len(m) + Len(s) : t[j] = IF j <= Len(m) THEN m[j] ELSE s[j - Len(m)]
      BY <1>1, ConcatProperties
    <2> HIDE DEF t
    <2> QED
      BY <1>1, <2>1
  <1> HIDE DEF t
  <1>3. DOMAIN t = 1 .. Len(t)
    BY <1>2, LenProperties
  <1>4. /\ t \in Seq(S) /\ Len(t) = Len(s) + 1 /\ DOMAIN t = 1 .. Len(s) + 1
        /\ \A i \in 1 .. Len(s) + 1 : t[i] = IF i = 1 THEN e ELSE s[i - 1]
    BY <1>1, <1>2, <1>3
  <1> QED
    BY <1>1, <1>4 DEF t, m

\* A sequence made of as many elements as another has.
LEMMA MappedFits ==
    ASSUME NEW S, NEW n \in Nat, NEW f \in [1 .. n -> S]
    PROVE  f \in Seq(S) /\ Len(f) = n /\ DOMAIN f = 1 .. n
  OBVIOUS

\* The least of some numbers is one of them.
LEMMA MinIsIn ==
    ASSUME NEW S, S \subseteq Nat, S # {}
    PROVE  Min(S) \in S /\ \A n \in S : Min(S) <= n
  <1> DEFINE R == {ss \in Nat \X Nat : ss[1] < ss[2]}
  <1>1. IsWellFoundedOn(R, Nat)
    BY ONLY NatLessThanWellFounded DEF OpToRel
  <1> HIDE DEF R
  <1>2. PICK m \in S : \A n \in S : <<n, m>> \notin R
    BY <1>1, WFMin
  <1>3. \A n \in S : m <= n
    <2>1. ASSUME NEW n \in S, ~(m <= n)
          PROVE  <<n, m>> \in R
      BY <2>1 DEF R
    <2> QED
      BY <1>2, <2>1
  <1>4. \E x \in S : \A n \in S : x <= n
    BY <1>2, <1>3
  <1> QED
    BY <1>4 DEF Min

\* The largest of some bounded numbers is one of them.
LEMMA MaxIsIn ==
    ASSUME NEW S, NEW m \in Nat, S \subseteq 0 .. m, S # {}
    PROVE  Max(S) \in S /\ \A n \in S : n <= Max(S)
  <1> DEFINE T == {m - n : n \in S}
  <1>1. T \subseteq Nat /\ T # {}
    <2>1. \A n \in 0 .. m : m - n \in Nat
      OBVIOUS
    <2> QED
      BY <2>1
  <1>2. PICK k \in T : \A n \in T : k <= n
    <2> HIDE DEF T
    <2> QED
      BY <1>1, MinIsIn
  <1>3. PICK x \in S : k = m - x
    BY <1>2
  <1>4. ASSUME NEW n \in S
        PROVE  x >= n
    <2>1. m - n \in T
      OBVIOUS
    <2>2. k <= m - n
      BY <1>2, <2>1
    <2> QED
      BY <1>3, <2>2
  <1>5. \E y \in S : \A n \in S : y >= n
    BY <1>4
  <1>6. Max(S) \in S /\ \A n \in S : Max(S) >= n
    BY <1>5 DEF Max
  <1> QED
    BY <1>6

----------------------------------------------------------------------------
(* Names, columns and rows.                                                *)

\* A column before it is relabelled may be under the temporary key.
KeyColumnType == [name : Key, src : Nat, default : Cell]

\* The names of columns, one of which may still have its temporary key.
LEMMA NamesOf ==
    ASSUME NEW cols \in Seq(KeyColumnType)
    PROVE  /\ Names(cols) \in Seq(Key) /\ Len(Names(cols)) = Len(cols) /\ Len(cols) \in Nat
           /\ DOMAIN Names(cols) = 1 .. Len(cols) /\ DOMAIN cols = 1 .. Len(cols)
           /\ \A i \in 1 .. Len(cols) : Names(cols)[i] = cols[i].name
  <1>1. Len(cols) \in Nat /\ DOMAIN cols = 1 .. Len(cols)
    BY LenProperties
  <1>2. \A i \in 1 .. Len(cols) : cols[i].name \in Key
    <2>1. \A i \in 1 .. Len(cols) : cols[i] \in KeyColumnType
      BY ElementOfSeq
    <2> QED
      BY <2>1 DEF KeyColumnType
  <1>3. Names(cols) = [i \in 1 .. Len(cols) |-> cols[i].name]
    BY <1>1 DEF Names
  <1>4. Names(cols) \in [1 .. Len(cols) -> Key]
    BY <1>2, <1>3
  <1> QED
    BY <1>1, <1>3, <1>4, MappedFits

\* The names of columns are texts, one for each column.
LEMMA NamesOfColumns ==
    ASSUME NEW cols \in Seq(ColumnType)
    PROVE  /\ Names(cols) \in Seq(Cell) /\ Len(Names(cols)) = Len(cols) /\ Len(cols) \in Nat
           /\ DOMAIN Names(cols) = 1 .. Len(cols) /\ DOMAIN cols = 1 .. Len(cols)
           /\ \A i \in 1 .. Len(cols) : Names(cols)[i] = cols[i].name
           /\ cols \in Seq(KeyColumnType)
  <1>1. Len(cols) \in Nat /\ DOMAIN cols = 1 .. Len(cols)
    BY LenProperties
  <1>2. \A i \in 1 .. Len(cols) : cols[i].name \in Cell
    <2>1. \A i \in 1 .. Len(cols) : cols[i] \in ColumnType
      BY ElementOfSeq
    <2> QED
      BY <2>1 DEF ColumnType
  <1>3. Names(cols) = [i \in 1 .. Len(cols) |-> cols[i].name]
    BY <1>1 DEF Names
  <1>4. Names(cols) \in [1 .. Len(cols) -> Cell]
    BY <1>2, <1>3
  <1>5. cols \in Seq(KeyColumnType)
    <2>1. ColumnType \subseteq KeyColumnType
      BY DEF ColumnType, KeyColumnType, Key
    <2> QED
      BY <2>1, SeqMonotonic
  <1> QED
    BY <1>1, <1>3, <1>4, <1>5, MappedFits

\* The labels A, B, C, ... are as many different texts as are asked for.
LEMMA LabelsAreNames ==
    ASSUME NEW n \in 0 .. MaxWidth
    PROVE  /\ SyntheticHeaders(n) \in Seq(Cell) /\ Len(SyntheticHeaders(n)) = n
           /\ DOMAIN SyntheticHeaders(n) = 1 .. n
           /\ IsInjective(SyntheticHeaders(n))
           /\ NamesFit(SyntheticHeaders(n), FALSE)
  <1> DEFINE s == SubSeq(Label, 1, n)
  <1>1. Label \in Seq(Cell \ {Empty}) /\ MaxWidth \in 1 .. Len(Label) /\ IsInjective(Label)
    BY IndexedCsvAssumption
  <1>2. Len(Label) \in Nat /\ DOMAIN Label = 1 .. Len(Label)
        /\ \A i \in 1 .. Len(Label) : Label[i] \in Cell
    BY <1>1, LenProperties, ElementOfSeq
  <1>3. n \in Nat /\ n <= Len(Label)
    BY <1>1, <1>2
  <1>4. /\ s \in Seq(Cell) /\ Len(s) = n
        /\ \A i \in 1 .. n : s[i] = Label[i]
    <2>1. \A i \in 1 .. n : Label[i] \in Cell
      BY <1>2, <1>3
    <2>2. /\ s \in Seq(Cell) /\ Len(s) = IF 1 <= n THEN n - 1 + 1 ELSE 0
          /\ \A i \in 1 .. n - 1 + 1 : s[i] = Label[1 + i - 1]
      BY <1>3, <2>1, SubSeqProperties
    <2> HIDE DEF s
    <2> QED
      BY <1>3, <2>2
  <1> HIDE DEF s
  <1>5. DOMAIN s = 1 .. n
    BY <1>4, LenProperties
  <1>6. IsInjective(s)
    <2>1. ASSUME NEW i \in 1 .. n, NEW j \in 1 .. n, s[i] = s[j]
          PROVE  i = j
      BY <1>1, <1>2, <1>3, <1>4, <2>1 DEF IsInjective
    <2> QED
      BY <1>5, <2>1 DEF IsInjective
  <1>7. SyntheticHeaders(n) = s
    BY DEF SyntheticHeaders, s
  <1> QED
    BY <1>4, <1>5, <1>6, <1>7 DEF NamesFit

\* A name that is a header is found, at a position where it is the header.
LEMMA ColumnFound ==
    ASSUME NEW name, HasColumn(name), headers \in Seq(Cell)
    PROVE  ColumnIndex(name) \in 1 .. Len(headers) /\ headers[ColumnIndex(name)] = name
  <1> DEFINE S == {i \in DOMAIN headers : headers[i] = name}
  <1>1. DOMAIN headers = 1 .. Len(headers) /\ Len(headers) \in Nat
    BY LenProperties
  <1>2. S \subseteq Nat /\ S # {}
    BY <1>1 DEF HasColumn, Range
  <1>3. ColumnIndex(name) = Min(S)
    BY DEF ColumnIndex
  <1>4. Min(S) \in S
    <2> HIDE DEF S
    <2> QED
      BY <1>2, MinIsIn
  <1> QED
    BY <1>1, <1>3, <1>4

\* Relabelled columns have the new names, in order.
LEMMA RelabelledColumns ==
    ASSUME NEW cols \in Seq(KeyColumnType), NEW names \in Seq(Cell), Len(names) = Len(cols),
           Len(cols) <= MaxWidth, \A i \in DOMAIN cols : cols[i].src # 0 => cols[i].default = Empty
    PROVE  /\ ColumnsFit(RelabelColumns(cols, names))
           /\ Names(RelabelColumns(cols, names)) = names
           /\ Len(RelabelColumns(cols, names)) = Len(cols)
  <1> DEFINE t == RelabelColumns(cols, names)
             n == Len(cols)
  <1>1. /\ n \in Nat /\ DOMAIN cols = 1 .. n /\ DOMAIN names = 1 .. n
        /\ \A i \in 1 .. n : names[i] \in Cell /\ cols[i] \in KeyColumnType
    BY LenProperties, ElementOfSeq
  <1>2. t = [i \in 1 .. n |-> [cols[i] EXCEPT !.name = names[i]]]
    BY <1>1 DEF RelabelColumns
  <1>3. \A i \in 1 .. n : /\ t[i] \in ColumnType /\ t[i].name = names[i]
                          /\ t[i].src = cols[i].src /\ t[i].default = cols[i].default
    BY <1>1, <1>2 DEF KeyColumnType, ColumnType
  <1>4. t \in [1 .. n -> ColumnType]
    BY <1>2, <1>3
  <1>5. t \in Seq(ColumnType) /\ Len(t) = n /\ DOMAIN t = 1 .. n
    BY <1>1, <1>4, MappedFits
  <1> HIDE DEF t
  <1>6. Names(t) \in Seq(Cell) /\ Len(Names(t)) = n
        /\ \A i \in 1 .. n : Names(t)[i] = names[i]
    BY <1>3, <1>5, NamesOfColumns
  <1>7. Names(t) = names
    BY <1>6, SeqEqual
  <1>8. ColumnsFit(t)
    BY <1>1, <1>3, <1>5 DEF ColumnsFit
  <1> QED
    BY <1>5, <1>7, <1>8 DEF t

\* relabel_columns: every edit that stays is under a new name.
LEMMA RelabelledRows ==
    ASSUME NEW rws, RowsFit(rws), NEW cols \in Seq(KeyColumnType), NEW names \in Seq(Cell),
           Len(names) = Len(cols)
    PROVE  /\ RowsFit(RelabelRows(rws, cols, names))
           /\ EditsUnder(RelabelRows(rws, cols, names), names)
  <1> DEFINE t == RelabelRows(rws, cols, names)
             m == Len(rws)
             From(r, k) == {i \in DOMAIN cols : names[i] = k /\ rws[r].cells[cols[i].name] # NoEdit}
             Cells(r) == [k \in Key |-> IF From(r, k) = {} THEN NoEdit
                                        ELSE rws[r].cells[cols[Max(From(r, k))].name]]
  <1>1. /\ m \in Nat /\ DOMAIN rws = 1 .. m /\ \A r \in 1 .. m : rws[r] \in RowType
        /\ Len(cols) \in Nat /\ DOMAIN cols = 1 .. Len(cols) /\ DOMAIN names = 1 .. Len(cols)
        /\ \A i \in 1 .. Len(cols) : cols[i] \in KeyColumnType /\ names[i] \in Cell
    BY LenProperties, ElementOfSeq DEF RowsFit
  <1>2. t = [r \in 1 .. m |-> [rws[r] EXCEPT !.cells = Cells(r)]]
    BY <1>1 DEF RelabelRows
  <1>3. ASSUME NEW r \in 1 .. m, NEW k \in Key
        PROVE  Cells(r)[k] \in Texts /\ (Cells(r)[k] # NoEdit => k \in Range(names))
    <2>1. CASE From(r, k) = {}
      BY <2>1 DEF Texts
    <2>2. CASE From(r, k) # {}
      <3> DEFINE S == From(r, k)
      <3>1. S \subseteq 0 .. Len(cols) /\ S \subseteq DOMAIN cols
        BY <1>1
      <3>2. Max(S) \in S
        <4> HIDE DEF S
        <4> QED
          BY <1>1, <2>2, <3>1, MaxIsIn DEF S
      <3>3. Max(S) \in 1 .. Len(cols) /\ names[Max(S)] = k
        BY <1>1, <3>2
      <3>4. cols[Max(S)].name \in Key
        BY <1>1, <3>3 DEF KeyColumnType
      <3>5. Cells(r)[k] = rws[r].cells[cols[Max(S)].name]
        BY <2>2
      <3> HIDE DEF S
      <3>6. rws[r].cells[cols[Max(S)].name] \in Texts
        BY <1>1, <3>4 DEF RowType
      <3>7. k \in Range(names)
        BY <1>1, <3>3 DEF Range
      <3> QED
        BY <3>5, <3>6, <3>7
    <2> QED
      BY <2>1, <2>2
  <1> HIDE DEF From
  <1>4. \A r \in 1 .. m : Cells(r) \in [Key -> Texts]
    BY <1>3
  <1>5. \A r \in 1 .. m : t[r].cells = Cells(r) /\ t[r].src = rws[r].src /\ t[r] \in RowType
    <2> TAKE r \in 1 .. m
    <2>1. rws[r] \in RowType /\ t[r] = [rws[r] EXCEPT !.cells = Cells(r)]
      BY <1>1, <1>2
    <2>2. Cells(r) \in [Key -> Texts]
      BY <1>4
    <2> HIDE DEF Cells, t
    <2> QED
      BY <2>1, <2>2 DEF RowType
  <1>6. t \in [1 .. m -> RowType]
    <2>1. DOMAIN t = 1 .. m /\ t = [r \in 1 .. m |-> t[r]]
      BY <1>2
    <2> HIDE DEF t
    <2> QED
      BY <1>5, <2>1
  <1>7. t \in Seq(RowType) /\ DOMAIN t = 1 .. m
    <2> HIDE DEF t
    <2> QED
      BY <1>1, <1>6, MappedFits
  <1>8. RowsFit(t)
    <2> HIDE DEF t, Cells
    <2> QED
      BY <1>1, <1>5, <1>7 DEF RowsFit
  <1>9. EditsUnder(t, names)
    <2>1. ASSUME NEW r \in 1 .. m, NEW k \in Key, t[r].cells[k] # NoEdit
          PROVE  k \in Range(names)
      <3>1. Cells(r)[k] # NoEdit
        BY <1>5, <2>1
      <3> QED
        BY <1>3, <3>1
    <2> HIDE DEF t
    <2> QED
      BY <1>7, <2>1 DEF EditsUnder
  <1> QED
    BY <1>8, <1>9

\* A row rendered through columns has a text for each of them.
LEMMA ValuesOf ==
    ASSUME NEW row \in RowType, NEW cols \in Seq(ColumnType), NEW record \in Seq(Cell)
    PROVE  /\ RowValues(row, cols, record) \in Seq(Cell)
           /\ Len(RowValues(row, cols, record)) = Len(cols)
           /\ DOMAIN RowValues(row, cols, record) = 1 .. Len(cols)
  <1> DEFINE n == Len(cols)
             t == RowValues(row, cols, record)
  <1>1. /\ n \in Nat /\ DOMAIN cols = 1 .. n /\ \A i \in 1 .. n : cols[i] \in ColumnType
        /\ \A i \in DOMAIN record : record[i] \in Cell
    BY LenProperties, ElementOfSeq
  <1>2. t = [i \in 1 .. n |-> IF row.cells[cols[i].name] # NoEdit THEN row.cells[cols[i].name]
                              ELSE IF cols[i].src \in DOMAIN record THEN record[cols[i].src]
                              ELSE cols[i].default]
    BY <1>1 DEF RowValues
  <1>3. \A i \in 1 .. n : t[i] \in Cell
    <2> TAKE i \in 1 .. n
    <2>1. cols[i].name \in Cell /\ cols[i].default \in Cell
      BY <1>1 DEF ColumnType
    <2>2. row.cells[cols[i].name] \in Cell \cup {NoEdit}
      BY <2>1 DEF RowType, Key, Texts
    <2> QED
      BY <1>1, <1>2, <2>1, <2>2
  <1>4. t \in [1 .. n -> Cell]
    BY <1>2, <1>3
  <1> HIDE DEF t
  <1> QED
    BY <1>1, <1>4, MappedFits DEF t

----------------------------------------------------------------------------
(* A step that puts other columns and rows in the place of those there are. *)

Tabled(cols, rws, hdr) ==
    /\ columns' = cols /\ headers' = Names(cols) /\ rows' = rws /\ has_headers' = hdr
    /\ modified' \in BOOLEAN /\ output_format' \in Dialect /\ steps' \in 0 .. MaxSteps
    /\ UNCHANGED <<files, status, source, order>>

\* A row of the engine that has edits in columns of these names only.
GoodRow(row, names) ==
    /\ row \in RowType
    /\ row.src # 0 => row.src \in DOMAIN index
    /\ \A k \in Key : row.cells[k] # NoEdit => k \in Range(names)

\* Rows that are good one by one fit as a whole.
LEMMA GoodRowsFit ==
    ASSUME NEW rws \in Seq(RowType), NEW names, \A r \in 1 .. Len(rws) : GoodRow(rws[r], names)
    PROVE  RowsFit(rws) /\ EditsUnder(rws, names)
  BY LenProperties DEF RowsFit, EditsUnder, GoodRow

\* Rows that fit as a whole are good one by one.
LEMMA FittingRowsAreGood ==
    ASSUME NEW rws, NEW names, RowsFit(rws), EditsUnder(rws, names)
    PROVE  /\ rws \in Seq(RowType) /\ Len(rws) \in Nat /\ DOMAIN rws = 1 .. Len(rws)
           /\ \A r \in 1 .. Len(rws) : GoodRow(rws[r], names)
  BY LenProperties, ElementOfSeq DEF RowsFit, EditsUnder, GoodRow

\* Columns and rows that fit can be put in the place of those there are.
LEMMA TabledKeeps ==
    ASSUME IInv, status = "open", NEW cols, NEW rws, NEW hdr \in BOOLEAN, Tabled(cols, rws, hdr),
           ColumnsFit(cols), cols # <<>>, RowsFit(rws), EditsUnder(rws, Names(cols)),
           ~lost => NamesFit(Names(cols), hdr)
    PROVE  IInv'
  <1> USE DEF IInv, Tabled, files, source
  <1>1. FilesFit'
    BY DEF FilesFit
  <1>2. ScalarsFit'
    BY DEF ScalarsFit
  <1>3. TableFits'
    <2>1. ColumnsFit(columns)' /\ (headers = Names(columns))' /\ (columns # <<>>)'
      BY DEF ColumnsFit, Names
    <2>2. RowsFit(rows)' /\ (index \in Seq(Nat))'
      BY DEF RowsFit, TableFits
    <2>3. EditsUnder(rows, Names(columns))'
      BY DEF EditsUnder, Names
    <2>4. ~lost => NamesFit(headers, has_headers)'
      BY DEF NamesFit
    <2> QED
      BY <2>1, <2>2, <2>3, <2>4 DEF TableFits
  <1>4. OrderFits'
    BY DEF OrderFits, ColumnOrders
  <1>5. LoadedFits'
    BY DEF LoadedFits
  <1>6. CheckLasts'
    BY DEF CheckLasts
  <1> QED
    BY <1>1, <1>2, <1>3, <1>4, <1>5, <1>6

\* The table of a viewer that is not closed.
LEMMA OpenTable ==
    ASSUME IInv, status # "closed"
    PROVE  /\ columns \in Seq(ColumnType) /\ ColumnsFit(columns) /\ columns # <<>>
           /\ Len(columns) \in 1 .. MaxWidth /\ DOMAIN columns = 1 .. Len(columns)
           /\ headers \in Seq(Cell) /\ Range(headers) \subseteq Range(Names(columns))
           /\ headers # <<>> => headers = Names(columns)
           /\ ~lost => headers = Names(columns) /\ NamesFit(headers, has_headers)
           /\ rows \in Seq(RowType) /\ Len(rows) \in Nat /\ DOMAIN rows = 1 .. Len(rows)
           /\ \A r \in 1 .. Len(rows) : GoodRow(rows[r], Names(columns))
           /\ RowsFit(rows) /\ EditsUnder(rows, Names(columns))
           /\ has_headers \in BOOLEAN /\ lost \in BOOLEAN
  <1> USE DEF IInv, TableFits
  <1>1. columns \in Seq(ColumnType) /\ Len(columns) \in 0 .. MaxWidth
    BY DEF ColumnsFit
  <1>2. DOMAIN columns = 1 .. Len(columns) /\ Len(columns) # 0
    BY <1>1, LenProperties, EmptySeq
  <1>3. headers \in Seq(Cell)
    BY <1>1, NamesOfColumns, EmptySeq
  <1>4. Range(headers) \subseteq Range(Names(columns))
    BY DEF Range
  <1> QED
    BY <1>1, <1>2, <1>3, <1>4, FittingRowsAreGood, IndexedCsvAssumption DEF ScalarsFit

\* What an edit starts from.
LEMMA EditStarts ==
    ASSUME IInv, Editable
    PROVE  /\ status = "open" /\ columns \in Seq(ColumnType) /\ ColumnsFit(columns)
           /\ columns # <<>>
           /\ Len(columns) \in 1 .. MaxWidth /\ DOMAIN columns = 1 .. Len(columns)
           /\ headers \in Seq(Cell) /\ Range(headers) \subseteq Range(Names(columns))
           /\ headers # <<>> => headers = Names(columns)
           /\ ~lost => headers = Names(columns) /\ NamesFit(headers, has_headers)
           /\ rows \in Seq(RowType) /\ Len(rows) \in Nat /\ DOMAIN rows = 1 .. Len(rows)
           /\ \A r \in 1 .. Len(rows) : GoodRow(rows[r], Names(columns))
           /\ RowsFit(rows) /\ EditsUnder(rows, Names(columns))
           /\ steps + 1 \in 0 .. MaxSteps /\ has_headers \in BOOLEAN /\ lost \in BOOLEAN
  <1>1. status = "open" /\ steps < MaxSteps
    BY DEF Editable
  <1>2. steps + 1 \in 0 .. MaxSteps
    BY <1>1, IndexedCsvAssumption DEF IInv, ScalarsFit
  <1> QED
    BY <1>1, <1>2, OpenTable

\* mark_modified and what an edit assigns, under the header mode there is.
LEMMA ChangedIsTabled ==
    ASSUME IInv, Editable, NEW cols, NEW rws, Changed(cols, rws)
    PROVE  Tabled(cols, rws, has_headers)
  BY EditStarts DEF Changed, Tabled, IInv, ScalarsFit

----------------------------------------------------------------------------
(* Rows that change under the columns there are.                           *)

\* Good rows can be put in the place of those there are.
LEMMA RowsChangedKeep ==
    ASSUME IInv, Editable, NEW rws \in Seq(RowType), Changed(columns, rws),
           \A r \in 1 .. Len(rws) : GoodRow(rws[r], Names(columns))
    PROVE  IInv'
  <1>1. RowsFit(rws) /\ EditsUnder(rws, Names(columns))
    BY GoodRowsFit
  <1>2. Tabled(columns, rws, has_headers)
    BY ChangedIsTabled
  <1>3. ~lost => NamesFit(Names(columns), has_headers)
    BY EditStarts
  <1> QED
    BY <1>1, <1>2, <1>3, EditStarts, TabledKeeps

\* edit_cell: the edit is under the name of a column.
LEMMA EditCellKeeps ==
    ASSUME IInv, NEW r \in RowIndex, NEW name, NEW value \in Typed, EditCell(r, name, value)
    PROVE  IInv'
  <1> DEFINE row == [rows[r] EXCEPT !.cells[name] = value]
             rws == [rows EXCEPT ![r] = row]
  <1>1. Editable /\ HasColumn(name) /\ Changed(columns, rws)
    BY DEF EditCell
  <1>2. /\ rows \in Seq(RowType) /\ Len(rows) \in Nat /\ r \in 1 .. Len(rows)
        /\ \A i \in 1 .. Len(rows) : GoodRow(rows[i], Names(columns))
    BY <1>1, EditStarts DEF RowIndex
  <1>3. name \in Range(Names(columns)) /\ name \in Key /\ value \in Texts
    <2>1. /\ name \in Range(headers) /\ Range(headers) \subseteq Range(Names(columns))
          /\ headers \in Seq(Cell)
      BY <1>1, EditStarts DEF HasColumn
    <2>2. Range(headers) \subseteq Cell
      BY <2>1, LenProperties, ElementOfSeq DEF Range
    <2> QED
      BY <2>1, <2>2, IndexedCsvAssumption DEF Key, Texts
  <1>4. GoodRow(row, Names(columns))
    <2>1. GoodRow(rows[r], Names(columns))
      BY <1>2
    <2>2. rows[r] \in RowType
      BY <2>1 DEF GoodRow
    <2>3. row \in RowType /\ row.src = rows[r].src
          /\ \A k \in Key : row.cells[k] = IF k = name THEN value ELSE rows[r].cells[k]
      BY <1>3, <2>2 DEF RowType
    <2> HIDE DEF row
    <2> QED
      BY <1>3, <2>1, <2>3 DEF GoodRow
  <1> HIDE DEF row
  <1>5. rws \in Seq(RowType) /\ Len(rws) = Len(rows)
        /\ \A i \in 1 .. Len(rows) : rws[i] = IF i = r THEN row ELSE rows[i]
    BY <1>2, <1>4, ExceptSeq DEF GoodRow
  <1> HIDE DEF rws
  <1>6. \A i \in 1 .. Len(rws) : GoodRow(rws[i], Names(columns))
    BY <1>2, <1>4, <1>5
  <1> QED
    BY <1>1, <1>5, <1>6, RowsChangedKeep

\* delete_row leaves the other rows as they are.
LEMMA DeleteRowKeeps ==
    ASSUME IInv, NEW r \in RowIndex, DeleteRow(r)
    PROVE  IInv'
  <1> DEFINE rws == RemoveAt(rows, r)
  <1>1. Editable /\ Changed(columns, rws)
    BY DEF DeleteRow
  <1>2. /\ rows \in Seq(RowType) /\ Len(rows) \in Nat /\ r \in 1 .. Len(rows)
        /\ \A i \in 1 .. Len(rows) : GoodRow(rows[i], Names(columns))
    BY <1>1, EditStarts DEF RowIndex
  <1>3. rws \in Seq(RowType) /\ Len(rws) = Len(rows) - 1
        /\ \A i \in 1 .. Len(rows) - 1 : rws[i] = IF i < r THEN rows[i] ELSE rows[i + 1]
    BY <1>2, RemoveAtFits
  <1> HIDE DEF rws
  <1>4. \A i \in 1 .. Len(rws) : GoodRow(rws[i], Names(columns))
    BY <1>2, <1>3
  <1> QED
    BY <1>1, <1>3, <1>4, RowsChangedKeep

\* swap_rows: the same rows in another order.
LEMMA SwapRowsKeeps ==
    ASSUME IInv, NEW r \in RowIndex, NEW s \in RowIndex, SwapRows(r, s)
    PROVE  IInv'
  <1> DEFINE once == [rows EXCEPT ![r] = rows[s]]
             rws  == [once EXCEPT ![s] = rows[r]]
  <1>1. Editable /\ r # s /\ Changed(columns, rws)
    BY DEF SwapRows
  <1>2. /\ rows \in Seq(RowType) /\ Len(rows) \in Nat
        /\ r \in 1 .. Len(rows) /\ s \in 1 .. Len(rows)
        /\ \A i \in 1 .. Len(rows) : GoodRow(rows[i], Names(columns))
    BY <1>1, EditStarts DEF RowIndex
  <1>3. rows[r] \in RowType /\ rows[s] \in RowType
    BY <1>2 DEF GoodRow
  <1>4. once \in Seq(RowType) /\ Len(once) = Len(rows)
        /\ \A i \in 1 .. Len(rows) : once[i] = IF i = r THEN rows[s] ELSE rows[i]
    BY <1>2, <1>3, ExceptSeq
  <1> HIDE DEF once
  <1>5. rws \in Seq(RowType) /\ Len(rws) = Len(once)
        /\ \A i \in 1 .. Len(once) : rws[i] = IF i = s THEN rows[r] ELSE once[i]
    BY <1>2, <1>3, <1>4, ExceptSeq
  <1> HIDE DEF rws
  <1>6. \A i \in 1 .. Len(rws) : GoodRow(rws[i], Names(columns))
    BY <1>2, <1>4, <1>5
  <1> QED
    BY <1>1, <1>5, <1>6, RowsChangedKeep

\* insert_row: the new row has no source record, and edits under headers only.
LEMMA InsertRowKeeps ==
    ASSUME IInv, NEW r \in 1 .. Len(rows) + 1, NEW values \in [DOMAIN headers -> Typed],
           InsertRow(r, values)
    PROVE  IInv'
  <1> DEFINE At(k) == {i \in DOMAIN headers : headers[i] = k}
             cells == [k \in Key |-> IF k \in Range(headers) THEN values[Max(At(k))] ELSE NoEdit]
             row == [src |-> 0, cells |-> cells]
             rws == InsertAt(rows, r, row)
  <1>1. Editable /\ Changed(columns, rws)
    BY DEF InsertRow
  <1>2. /\ rows \in Seq(RowType) /\ Len(rows) \in Nat
        /\ \A i \in 1 .. Len(rows) : GoodRow(rows[i], Names(columns))
        /\ headers \in Seq(Cell) /\ Range(headers) \subseteq Range(Names(columns))
    BY <1>1, EditStarts
  <1>3. ASSUME NEW k \in Range(headers)
        PROVE  values[Max(At(k))] \in Texts
    <2>1. DOMAIN headers = 1 .. Len(headers) /\ Len(headers) \in Nat
      BY <1>2, LenProperties
    <2>2. At(k) \subseteq 0 .. Len(headers) /\ At(k) # {} /\ At(k) \subseteq DOMAIN headers
      BY <2>1 DEF Range
    <2> HIDE DEF At
    <2>3. Max(At(k)) \in DOMAIN headers
      BY <2>1, <2>2, MaxIsIn
    <2> QED
      BY <2>3, IndexedCsvAssumption DEF Texts
  <1>4. cells \in [Key -> Texts] /\ \A k \in Key : cells[k] # NoEdit => k \in Range(headers)
    <2> HIDE DEF At
    <2> QED
      BY <1>3 DEF Texts
  <1> HIDE DEF cells
  <1>5. GoodRow(row, Names(columns)) /\ row \in RowType
    BY <1>2, <1>4 DEF GoodRow, RowType
  <1> HIDE DEF row
  <1>6. rws \in Seq(RowType) /\ Len(rws) = Len(rows) + 1
        /\ \A i \in 1 .. Len(rows) + 1 :
             rws[i] = IF i < r THEN rows[i] ELSE IF i = r THEN row ELSE rows[i - 1]
    <2>1. rows \in Seq(RowType) /\ row \in RowType /\ r \in 1 .. Len(rows) + 1
      BY <1>2, <1>5
    <2> HIDE DEF rws, At
    <2>2. /\ InsertAt(rows, r, row) \in Seq(RowType)
          /\ Len(InsertAt(rows, r, row)) = Len(rows) + 1
          /\ \A i \in 1 .. Len(rows) + 1 :
               InsertAt(rows, r, row)[i]
                  = IF i < r THEN rows[i] ELSE IF i = r THEN row ELSE rows[i - 1]
      BY <2>1, InsertAtFits
    <2>3. rws = InsertAt(rows, r, row)
      BY DEF rws
    <2> QED
      BY <2>2, <2>3
  <1> HIDE DEF rws
  <1>7. ASSUME NEW i \in 1 .. Len(rws)
        PROVE  GoodRow(rws[i], Names(columns))
    <2>1. CASE i < r
      <3>1. i \in 1 .. Len(rows) /\ rws[i] = rows[i]
        BY <1>2, <1>6, <2>1
      <3> QED
        BY <1>2, <3>1
    <2>2. CASE i = r
      BY <1>5, <1>6, <2>2
    <2>3. CASE i > r
      <3>1. i - 1 \in 1 .. Len(rows) /\ rws[i] = rows[i - 1]
        BY <1>2, <1>6, <2>3
      <3> QED
        BY <1>2, <3>1
    <2> QED
      BY <1>2, <1>6, <2>1, <2>2, <2>3
  <1> QED
    BY <1>1, <1>6, <1>7, RowsChangedKeep

----------------------------------------------------------------------------
(* Columns that change.                                                    *)

\* Without headers every column is relabelled by its position, and its edits follow.
LEMMA RelabelledKeep ==
    ASSUME IInv, Editable, NEW cols \in Seq(KeyColumnType), NEW rws, RowsFit(rws),
           Len(cols) \in 1 .. MaxWidth,
           \A i \in DOMAIN cols : cols[i].src # 0 => cols[i].default = Empty,
           ~has_headers,
           Changed(RelabelColumns(cols, SyntheticHeaders(Len(cols))),
                   RelabelRows(rws, cols, SyntheticHeaders(Len(cols))))
    PROVE  IInv'
  <1> DEFINE labels == SyntheticHeaders(Len(cols))
             t == RelabelColumns(cols, labels)
             u == RelabelRows(rws, cols, labels)
  <1>1. labels \in Seq(Cell) /\ Len(labels) = Len(cols) /\ NamesFit(labels, FALSE)
    <2>1. Len(cols) \in 0 .. MaxWidth
      BY IndexedCsvAssumption
    <2> QED
      BY <2>1, LabelsAreNames
  <1>2. Tabled(t, u, has_headers)
    BY ChangedIsTabled
  <1> HIDE DEF labels
  <1>3. ColumnsFit(t) /\ Names(t) = labels /\ Len(t) = Len(cols)
    BY <1>1, RelabelledColumns
  <1>4. RowsFit(u) /\ EditsUnder(u, labels)
    BY <1>1, RelabelledRows
  <1> HIDE DEF t, u
  <1>5. t # <<>>
    <2>1. Len(t) # 0
      BY <1>3
    <2> QED
      BY <2>1, EmptySeq
  <1>6. status = "open" /\ has_headers = FALSE
    BY EditStarts
  <1> QED
    BY <1>1, <1>2, <1>3, <1>4, <1>5, <1>6, TabledKeeps

\* insert_column: the names stay different with headers, and are labels without.
LEMMA InsertColumnKeeps ==
    ASSUME IInv, NEW c \in 1 .. Len(columns) + 1, NEW name \in Named, NEW value \in Typed,
           InsertColumn(c, name, value)
    PROVE  IInv'
  <1> DEFINE key  == IF has_headers THEN name ELSE NewKey
             new  == Column(key, 0, value)
             cols == InsertAt(columns, c, new)
             n    == Len(columns)
  <1>1. /\ Editable /\ n < MaxWidth
        /\ has_headers => name # Empty /\ ~HasColumn(name) /\ Changed(cols, rows)
        /\ ~has_headers => Changed(RelabelColumns(cols, SyntheticHeaders(Len(cols))),
                                   RelabelRows(rows, cols, SyntheticHeaders(Len(cols))))
    BY DEF InsertColumn
  <1>2. /\ columns \in Seq(ColumnType) /\ ColumnsFit(columns) /\ n \in 1 .. MaxWidth
        /\ DOMAIN columns = 1 .. n /\ RowsFit(rows) /\ EditsUnder(rows, Names(columns))
        /\ ~lost => headers = Names(columns) /\ NamesFit(headers, has_headers)
    BY <1>1, EditStarts
  <1>3. name \in Cell /\ value \in Cell /\ Cell \subseteq Key /\ NewKey \in Key /\ MaxWidth \in Nat
    BY IndexedCsvAssumption, LenProperties DEF Key
  <1>4. ColumnType \subseteq KeyColumnType /\ columns \in Seq(KeyColumnType)
    BY <1>2, NamesOfColumns DEF ColumnType, KeyColumnType, Key
  <1>5. /\ new \in KeyColumnType /\ (has_headers => new \in ColumnType)
        /\ new.src = 0 /\ new.name = key
    BY <1>3 DEF Column, KeyColumnType, ColumnType
  <1> HIDE DEF new, key
  <1>6. /\ cols \in Seq(KeyColumnType) /\ Len(cols) = n + 1 /\ DOMAIN cols = 1 .. n + 1
        /\ \A j \in 1 .. n + 1 :
             cols[j] = IF j < c THEN columns[j] ELSE IF j = c THEN new ELSE columns[j - 1]
    BY <1>4, <1>5, InsertAtFits
  <1>7. has_headers => cols \in Seq(ColumnType)
    BY <1>2, <1>5, InsertAtFits
  <1> HIDE DEF cols
  <1>8. Len(cols) \in 1 .. MaxWidth
    BY <1>1, <1>2, <1>3, <1>6
  <1>9. ASSUME NEW j \in 1 .. n + 1
        PROVE  \/ j < c /\ j \in 1 .. n /\ cols[j] = columns[j]
               \/ j = c /\ cols[j] = new
               \/ j > c /\ j - 1 \in 1 .. n /\ cols[j] = columns[j - 1]
    BY <1>2, <1>6
  <1>10. ASSUME NEW j \in DOMAIN cols, cols[j].src # 0
         PROVE  cols[j].default = Empty
    <2>1. j \in 1 .. n + 1 /\ \A i \in 1 .. n : columns[i].src # 0 => columns[i].default = Empty
      BY <1>2, <1>6 DEF ColumnsFit
    <2>2. CASE j < c /\ j \in 1 .. n /\ cols[j] = columns[j]
      BY <1>10, <2>1, <2>2
    <2>3. CASE j = c /\ cols[j] = new
      BY <1>5, <1>10, <2>3
    <2>4. CASE j > c /\ j - 1 \in 1 .. n /\ cols[j] = columns[j - 1]
      BY <1>10, <2>1, <2>4
    <2> QED
      BY <1>9, <2>1, <2>2, <2>3, <2>4
  <1>11. CASE ~has_headers
    BY <1>1, <1>2, <1>6, <1>8, <1>10, <1>11, RelabelledKeep
  <1>12. CASE has_headers
    <2>1. cols \in Seq(ColumnType) /\ Changed(cols, rows) /\ new.name = name
      BY <1>1, <1>5, <1>7, <1>12 DEF key
    <2>2. ColumnsFit(cols)
      BY <1>8, <1>10, <2>1, <1>3 DEF ColumnsFit
    <2>3. /\ DOMAIN Names(cols) = 1 .. n + 1
          /\ \A j \in 1 .. n + 1 : Names(cols)[j] = cols[j].name
          /\ DOMAIN Names(columns) = 1 .. n
          /\ \A j \in 1 .. n : Names(columns)[j] = columns[j].name
      BY <1>2, <1>6, <2>1, NamesOfColumns
    <2>4. Range(Names(columns)) \subseteq Range(Names(cols))
      <3>1. ASSUME NEW j \in 1 .. n
            PROVE  \E i \in 1 .. n + 1 : cols[i] = columns[j]
        <4>1. CASE j < c
          BY <1>2, <1>6, <4>1
        <4>2. CASE ~(j < c)
          <5>1. j + 1 \in 1 .. n + 1 /\ ~(j + 1 < c) /\ j + 1 # c /\ j + 1 - 1 = j
            BY <1>2, <4>2
          <5>2. cols[j + 1] = columns[j + 1 - 1]
            BY <1>6, <5>1
          <5>3. cols[j + 1] = columns[j]
            BY <5>1, <5>2
          <5> QED
            BY <5>1, <5>3
        <4> QED
          BY <4>1, <4>2
      <3> QED
        BY <2>3, <3>1 DEF Range
    <2>5. EditsUnder(rows, Names(cols))
      BY <1>2, <2>4 DEF EditsUnder
    <2>6. ASSUME ~lost
          PROVE  NamesFit(Names(cols), has_headers)
      <3>1. headers = Names(columns) /\ NamesFit(headers, has_headers)
        BY <1>2, <2>6
      <3>2. \A j \in 1 .. n : columns[j].name # name
        BY <1>1, <1>12, <2>3, <3>1 DEF HasColumn, Range
      <3>3. ASSUME DistinctHeaders, NEW i \in 1 .. n + 1, NEW j \in 1 .. n + 1,
                   cols[i].name = cols[j].name
            PROVE  i = j
        <4>1. \A a, b \in 1 .. n : columns[a].name = columns[b].name => a = b
          BY <2>3, <3>1, <3>3 DEF NamesFit, IsInjective
        <4>2. CASE i = c \/ j = c
          <5>1. cols[i].name = name /\ cols[j].name = name
            BY <1>9, <2>1, <3>3, <4>2
          <5>2. \A k \in 1 .. n + 1 : cols[k].name = name => k = c
            BY <1>9, <3>2
          <5> QED
            BY <5>1, <5>2
        <4>3. CASE i # c /\ j # c
          <5>1. PICK a \in 1 .. n : cols[i] = columns[a] /\ a = IF i < c THEN i ELSE i - 1
            BY <1>9, <4>3
          <5>2. PICK b \in 1 .. n : cols[j] = columns[b] /\ b = IF j < c THEN j ELSE j - 1
            BY <1>9, <4>3
          <5>3. a = b
            BY <3>3, <4>1, <5>1, <5>2
          <5> QED
            BY <1>2, <1>3, <4>3, <5>1, <5>2, <5>3
        <4> QED
          BY <4>2, <4>3
      <3> QED
        BY <1>12, <2>3, <3>3 DEF NamesFit, IsInjective
    <2>7. Tabled(cols, rows, has_headers)
      BY <1>1, <2>1, ChangedIsTabled
    <2>8. cols # <<>>
      BY <1>8, EmptySeq
    <2> QED
      BY <1>1, <1>2, <2>2, <2>5, <2>6, <2>7, <2>8, EditStarts, TabledKeeps
  <1> QED
    BY <1>11, <1>12

\* The column a name is looked up as has that name.
LEMMA NamedColumn ==
    ASSUME IInv, status # "closed", NEW name, HasColumn(name)
    PROVE  /\ headers = Names(columns) /\ ColumnIndex(name) \in 1 .. Len(columns)
           /\ columns[ColumnIndex(name)].name = name
  <1>1. headers \in Seq(Cell) /\ columns \in Seq(ColumnType)
        /\ (headers # <<>> => headers = Names(columns))
    BY OpenTable
  <1>2. ColumnIndex(name) \in 1 .. Len(headers) /\ headers[ColumnIndex(name)] = name
    BY <1>1, ColumnFound
  <1>3. headers # <<>>
    BY <1>2, EmptySeq
  <1>4. headers = Names(columns)
    BY <1>1, <1>3
  <1>5. /\ Len(Names(columns)) = Len(columns)
        /\ \A i \in 1 .. Len(columns) : Names(columns)[i] = columns[i].name
    BY <1>1, NamesOfColumns
  <1> QED
    BY <1>2, <1>4, <1>5

\* delete_column takes the edits of the column along.
LEMMA DeleteColumnKeeps ==
    ASSUME IInv, NEW name, DeleteColumn(name)
    PROVE  IInv'
  <1> DEFINE d == ColumnIndex(name)
             cols == RemoveAt(columns, d)
             n == Len(columns)
             rws == [r \in DOMAIN rows |-> [rows[r] EXCEPT !.cells[name] = NoEdit]]
  <1>1. /\ Editable /\ n > 1 /\ HasColumn(name)
        /\ has_headers => Changed(cols, rws)
        /\ ~has_headers => Changed(RelabelColumns(cols, SyntheticHeaders(Len(cols))),
                                   RelabelRows(rws, cols, SyntheticHeaders(Len(cols))))
    BY DEF DeleteColumn
  <1>2. /\ columns \in Seq(ColumnType) /\ ColumnsFit(columns) /\ n \in 1 .. MaxWidth
        /\ headers \in Seq(Cell) /\ headers # <<>> => headers = Names(columns)
        /\ ~lost => headers = Names(columns) /\ NamesFit(headers, has_headers)
        /\ rows \in Seq(RowType) /\ Len(rows) \in Nat /\ DOMAIN rows = 1 .. Len(rows)
        /\ \A r \in 1 .. Len(rows) : GoodRow(rows[r], Names(columns))
    BY <1>1, EditStarts
  <1>3. /\ DOMAIN Names(columns) = 1 .. n /\ Len(Names(columns)) = n /\ n \in Nat
        /\ \A j \in 1 .. n : Names(columns)[j] = columns[j].name
    BY <1>2, NamesOfColumns
  <1>4. d \in 1 .. n /\ columns[d].name = name
    BY <1>1, <1>3, NamedColumn DEF Editable
  <1> HIDE DEF d
  <1>5. /\ cols \in Seq(ColumnType) /\ Len(cols) = n - 1 /\ DOMAIN cols = 1 .. n - 1
        /\ \A j \in 1 .. n - 1 : cols[j] = IF j < d THEN columns[j] ELSE columns[j + 1]
    BY <1>2, <1>4, RemoveAtFits
  <1> HIDE DEF cols
  <1>6. /\ cols \in Seq(KeyColumnType) /\ DOMAIN Names(cols) = 1 .. n - 1
        /\ \A j \in 1 .. n - 1 : Names(cols)[j] = cols[j].name
    BY <1>5, NamesOfColumns
  <1>7. Len(cols) \in 1 .. MaxWidth
    <2>1. MaxWidth \in Nat
      BY IndexedCsvAssumption, LenProperties
    <2> QED
      BY <1>1, <1>2, <1>3, <1>5, <2>1
  <1>8. ASSUME NEW j \in 1 .. n - 1
        PROVE  \/ j < d /\ j \in 1 .. n /\ cols[j] = columns[j]
               \/ ~(j < d) /\ j + 1 \in 1 .. n /\ cols[j] = columns[j + 1]
    BY <1>3, <1>4, <1>5
  <1>9. ASSUME NEW j \in DOMAIN cols, cols[j].src # 0
        PROVE  cols[j].default = Empty
    <2>1. j \in 1 .. n - 1 /\ \A i \in 1 .. n : columns[i].src # 0 => columns[i].default = Empty
      BY <1>2, <1>5, LenProperties DEF ColumnsFit
    <2>2. PICK i \in 1 .. n : cols[j] = columns[i]
      BY <1>8, <2>1
    <2> QED
      BY <1>9, <2>1, <2>2
  <1>10. name \in Key
    <2>1. columns[d] \in ColumnType
      BY <1>2, <1>4, ElementOfSeq
    <2> QED
      BY <1>4, <2>1 DEF ColumnType, Key
  <1>11. ASSUME NEW k \in Range(Names(columns)), k # name
         PROVE  k \in Range(Names(cols))
    <2>1. PICK i \in 1 .. n : columns[i].name = k
      BY <1>3 DEF Range
    <2>2. i # d
      BY <1>4, <1>11, <2>1
    <2>3. CASE i < d
      <3>1. i \in 1 .. n - 1
        BY <1>3, <1>4, <2>3
      <3>2. Names(cols)[i] = k
        BY <1>5, <1>6, <2>1, <2>3, <3>1
      <3> QED
        BY <1>6, <3>1, <3>2 DEF Range
    <2>4. CASE i > d
      <3>1. i - 1 \in 1 .. n - 1 /\ ~(i - 1 < d) /\ i - 1 + 1 = i
        BY <1>3, <1>4, <2>4
      <3>2. Names(cols)[i - 1] = k
        BY <1>5, <1>6, <2>1, <3>1
      <3> QED
        BY <1>6, <3>1, <3>2 DEF Range
    <2> QED
      BY <1>4, <2>2, <2>3, <2>4
  <1>12. ASSUME NEW r \in 1 .. Len(rows)
         PROVE  rws[r] \in RowType /\ GoodRow(rws[r], Names(cols))
    <2>1. GoodRow(rows[r], Names(columns)) /\ rows[r] \in RowType
      BY <1>2 DEF GoodRow
    <2>2. rws[r] = [rows[r] EXCEPT !.cells[name] = NoEdit]
      BY <1>2
    <2> HIDE DEF rws
    <2>3. /\ rws[r] \in RowType /\ rws[r].src = rows[r].src
          /\ \A k \in Key : rws[r].cells[k] = IF k = name THEN NoEdit ELSE rows[r].cells[k]
      BY <1>10, <2>1, <2>2 DEF RowType, Texts
    <2> QED
      BY <1>11, <2>1, <2>3 DEF GoodRow
  <1>13. rws \in Seq(RowType) /\ Len(rws) = Len(rows)
    <2>1. rws \in [1 .. Len(rows) -> RowType]
      BY <1>2, <1>12
    <2> HIDE DEF rws
    <2> QED
      BY <1>2, <2>1, MappedFits
  <1> HIDE DEF rws
  <1>14. RowsFit(rws) /\ EditsUnder(rws, Names(cols))
    BY <1>12, <1>13, GoodRowsFit
  <1>15. CASE ~has_headers
    BY <1>1, <1>6, <1>7, <1>9, <1>14, <1>15, RelabelledKeep
  <1>16. CASE has_headers
    <2>1. ColumnsFit(cols)
      BY <1>5, <1>7, <1>9 DEF ColumnsFit
    <2>2. ASSUME ~lost
          PROVE  NamesFit(Names(cols), has_headers)
      <3>1. headers = Names(columns) /\ NamesFit(headers, has_headers)
        BY <1>2, <2>2
      <3>2. ASSUME DistinctHeaders, NEW i \in 1 .. n - 1, NEW j \in 1 .. n - 1,
                   cols[i].name = cols[j].name
            PROVE  i = j
        <4>1. \A a, b \in 1 .. n : columns[a].name = columns[b].name => a = b
          BY <1>3, <3>1, <3>2 DEF NamesFit, IsInjective
        <4>2. PICK a \in 1 .. n : cols[i] = columns[a] /\ a = IF i < d THEN i ELSE i + 1
          BY <1>8
        <4>3. PICK b \in 1 .. n : cols[j] = columns[b] /\ b = IF j < d THEN j ELSE j + 1
          BY <1>8
        <4>4. a = b
          BY <3>2, <4>1, <4>2, <4>3
        <4> QED
          BY <1>3, <1>4, <4>2, <4>3, <4>4
      <3> QED
        BY <1>6, <1>16, <3>2 DEF NamesFit, IsInjective
    <2>3. Tabled(cols, rws, has_headers)
      BY <1>1, <1>16, ChangedIsTabled
    <2>4. cols # <<>>
      BY <1>7, EmptySeq
    <2> QED
      BY <1>1, <1>14, <2>1, <2>2, <2>3, <2>4, EditStarts, TabledKeeps
  <1> QED
    BY <1>15, <1>16

\* rename_column moves the edits of the column to its new name.
LEMMA RenameColumnKeeps ==
    ASSUME IInv, NEW name, NEW new \in Named, RenameColumn(name, new)
    PROVE  IInv'
  <1> DEFINE d == ColumnIndex(name)
             column == [columns[d] EXCEPT !.name = new]
             cols == [columns EXCEPT ![d] = column]
             n == Len(columns)
             rws == [r \in DOMAIN rows |->
                       IF rows[r].cells[name] = NoEdit THEN rows[r]
                       ELSE [rows[r] EXCEPT !.cells[new] = rows[r].cells[name],
                                            !.cells[name] = NoEdit]]
  <1>1. /\ Editable /\ has_headers /\ HasColumn(name) /\ ~HasColumn(new)
        /\ Changed(cols, rws)
    BY DEF RenameColumn
  <1>2. /\ columns \in Seq(ColumnType) /\ ColumnsFit(columns) /\ n \in 1 .. MaxWidth
        /\ headers \in Seq(Cell) /\ headers # <<>> => headers = Names(columns)
        /\ ~lost => headers = Names(columns) /\ NamesFit(headers, has_headers)
        /\ rows \in Seq(RowType) /\ Len(rows) \in Nat /\ DOMAIN rows = 1 .. Len(rows)
        /\ \A r \in 1 .. Len(rows) : GoodRow(rows[r], Names(columns))
    BY <1>1, EditStarts
  <1>3. /\ DOMAIN Names(columns) = 1 .. n /\ Len(Names(columns)) = n /\ n \in Nat
        /\ \A j \in 1 .. n : Names(columns)[j] = columns[j].name /\ columns[j] \in ColumnType
    BY <1>2, NamesOfColumns, ElementOfSeq
  <1>4. headers = Names(columns) /\ d \in 1 .. n /\ columns[d].name = name
    BY <1>1, <1>3, NamedColumn DEF Editable
  <1> HIDE DEF d
  <1>5. new \in Cell /\ new \in Key /\ name \in Key
    BY <1>3, <1>4, IndexedCsvAssumption DEF Key, ColumnType
  <1>6. \A j \in 1 .. n : columns[j].name # new
    BY <1>1, <1>3, <1>4 DEF HasColumn, Range
  <1>7. /\ column \in ColumnType /\ column.name = new /\ column.src = columns[d].src
        /\ column.default = columns[d].default
    BY <1>3, <1>4, <1>5 DEF ColumnType
  <1> HIDE DEF column
  <1>8. cols \in Seq(ColumnType) /\ Len(cols) = n
        /\ \A j \in 1 .. n : cols[j] = IF j = d THEN column ELSE columns[j]
    BY <1>2, <1>4, <1>7, ExceptSeq
  <1> HIDE DEF cols
  <1>9. /\ DOMAIN cols = 1 .. n /\ DOMAIN Names(cols) = 1 .. n
        /\ \A j \in 1 .. n : Names(cols)[j] = cols[j].name
    BY <1>8, NamesOfColumns
  <1>10. ColumnsFit(cols) /\ cols # <<>>
    <2>1. \A j \in DOMAIN columns : columns[j].src # 0 => columns[j].default = Empty
      BY <1>2 DEF ColumnsFit
    <2>2. DOMAIN columns = 1 .. n
      BY <1>2, LenProperties
    <2>3. \A j \in DOMAIN cols : cols[j].src # 0 => cols[j].default = Empty
      BY <1>4, <1>7, <1>8, <1>9, <2>1, <2>2
    <2> QED
      BY <1>2, <1>8, <2>3, EmptySeq DEF ColumnsFit
  <1>11. ASSUME NEW k \in Range(Names(columns)), k # name
         PROVE  k \in Range(Names(cols))
    <2>1. PICK i \in 1 .. n : columns[i].name = k
      BY <1>3 DEF Range
    <2>2. Names(cols)[i] = k
      BY <1>4, <1>8, <1>9, <1>11, <2>1
    <2> QED
      BY <1>9, <2>2 DEF Range
  <1>12. new \in Range(Names(cols))
    <2>1. Names(cols)[d] = new
      BY <1>4, <1>7, <1>8, <1>9
    <2> QED
      BY <1>4, <1>9, <2>1 DEF Range
  <1>13. name # new
    BY <1>4, <1>6
  <1>14. ASSUME NEW r \in 1 .. Len(rows)
         PROVE  rws[r] \in RowType /\ GoodRow(rws[r], Names(cols))
    <2>1. GoodRow(rows[r], Names(columns)) /\ rows[r] \in RowType
      BY <1>2 DEF GoodRow
    <2>2. rws[r] = IF rows[r].cells[name] = NoEdit THEN rows[r]
                   ELSE [rows[r] EXCEPT !.cells[new] = rows[r].cells[name],
                                        !.cells[name] = NoEdit]
      BY <1>2
    <2> HIDE DEF rws
    <2>3. CASE rows[r].cells[name] = NoEdit
      BY <1>11, <2>1, <2>2, <2>3 DEF GoodRow
    <2>4. CASE rows[r].cells[name] # NoEdit
      <3>1. rws[r] = [rows[r] EXCEPT !.cells[new] = rows[r].cells[name], !.cells[name] = NoEdit]
        BY <2>2, <2>4
      <3>2. rows[r].cells[name] \in Texts /\ NoEdit \in Texts
        BY <1>5, <2>1 DEF RowType, Texts
      <3>3. /\ rws[r] \in RowType /\ rws[r].src = rows[r].src
            /\ \A k \in Key : rws[r].cells[k] = IF k = name THEN NoEdit
                                                ELSE IF k = new THEN rows[r].cells[name]
                                                ELSE rows[r].cells[k]
        <4> DEFINE moved == [rows[r] EXCEPT !.cells[new] = rows[r].cells[name]]
        <4>1. /\ moved \in RowType /\ moved.src = rows[r].src
              /\ \A k \in Key : moved.cells[k] = IF k = new THEN rows[r].cells[name]
                                                 ELSE rows[r].cells[k]
          BY <1>5, <2>1, <3>2 DEF RowType
        <4>2. rws[r] = [moved EXCEPT !.cells[name] = NoEdit]
          BY <3>1
        <4> HIDE DEF moved
        <4>3. /\ rws[r] \in RowType /\ rws[r].src = moved.src
              /\ \A k \in Key : rws[r].cells[k] = IF k = name THEN NoEdit ELSE moved.cells[k]
          BY <1>5, <3>2, <4>1, <4>2 DEF RowType
        <4> QED
          BY <4>1, <4>3
      <3> QED
        BY <1>11, <1>12, <2>1, <3>3 DEF GoodRow
    <2> QED
      BY <2>3, <2>4
  <1>15. rws \in Seq(RowType) /\ Len(rws) = Len(rows)
    <2>1. DOMAIN rws = 1 .. Len(rows) /\ rws = [r \in 1 .. Len(rows) |-> rws[r]]
      BY <1>2
    <2> HIDE DEF rws
    <2>2. rws \in [1 .. Len(rows) -> RowType]
      BY <1>14, <2>1
    <2> QED
      BY <1>2, <2>2, MappedFits
  <1> HIDE DEF rws
  <1>16. RowsFit(rws) /\ EditsUnder(rws, Names(cols))
    BY <1>14, <1>15, GoodRowsFit
  <1>17. ASSUME ~lost
         PROVE  NamesFit(Names(cols), has_headers)
    <2>1. ASSUME DistinctHeaders, NEW i \in 1 .. n, NEW j \in 1 .. n, cols[i].name = cols[j].name
          PROVE  i = j
      <3>1. \A a, b \in 1 .. n : columns[a].name = columns[b].name => a = b
        BY <1>2, <1>3, <1>17, <2>1 DEF NamesFit, IsInjective
      <3> QED
        BY <1>4, <1>6, <1>7, <1>8, <2>1, <3>1
    <2> QED
      BY <1>1, <1>9, <2>1 DEF NamesFit, IsInjective
  <1>18. Tabled(cols, rws, has_headers)
    BY <1>1, ChangedIsTabled
  <1> QED
    BY <1>1, <1>10, <1>16, <1>17, <1>18, EditStarts, TabledKeeps

----------------------------------------------------------------------------
(* The records of a file, and changing how it is read and written.         *)

\* Whatever the dialect, a reader finds a record of at least one cell for each line.
LEMMA RecordsFit ==
    ASSUME NEW file, NEW dialect, file.lines \in Seq(Record)
    PROVE  /\ RecordsIn(file, dialect) \in Seq(Record)
           /\ DOMAIN RecordsIn(file, dialect) = DOMAIN file.lines
           /\ Len(RecordsIn(file, dialect)) = Len(file.lines)
  <1> DEFINE lines == file.lines
             n == Len(lines)
  <1>1. lines \in Seq(Record) /\ n \in Nat /\ DOMAIN lines = 1 .. n
        /\ \A i \in 1 .. n : lines[i] \in Record
    BY LenProperties, ElementOfSeq
  <1> HIDE DEF lines
  <1>2. CASE file.dialect = dialect
    BY <1>1, <1>2 DEF RecordsIn, lines
  <1>3. CASE file.dialect # dialect
    <2>1. RecordsIn(file, dialect) = [i \in 1 .. n |-> <<lines[i][1]>>]
      BY <1>1, <1>3 DEF RecordsIn, lines
    <2>2. ASSUME NEW i \in 1 .. n
          PROVE  <<lines[i][1]>> \in Record
      <3>1. /\ lines[i] \in Seq(Cell) /\ Len(lines[i]) \in 1 .. MaxWidth
            /\ MaxWidth \in Nat /\ 1 <= MaxWidth
        BY <1>1, IndexedCsvAssumption, LenProperties DEF Record
      <3>2. lines[i][1] \in Cell
        BY <3>1, ElementOfSeq
      <3>3. <<lines[i][1]>> \in Seq(Cell) /\ Len(<<lines[i][1]>>) = 1
        BY <3>2
      <3> QED
        BY <3>1, <3>3 DEF Record
    <2>3. [i \in 1 .. n |-> <<lines[i][1]>>] \in [1 .. n -> Record]
      BY <2>2
    <2>4. [i \in 1 .. n |-> <<lines[i][1]>>] \in Seq(Record)
          /\ Len([i \in 1 .. n |-> <<lines[i][1]>>]) = n
      BY <1>1, <2>3, MappedFits
    <2> QED
      BY <1>1, <2>1, <2>4 DEF lines
  <1> QED
    BY <1>2, <1>3

\* A row that can be read has a record.
LEMMA SourceRecordFits ==
    ASSUME IInv, NEW row \in RowType, row.src # 0 => row.src \in DOMAIN index,
           row.src # 0 => dir[input_path] # NoFile /\ index[row.src] \in DOMAIN CurrentLines
    PROVE  SourceRecord(row, CurrentLines) \in Seq(Cell)
  <1>1. CASE row.src = 0
    BY <1>1, EmptySeq DEF SourceRecord
  <1>2. CASE row.src # 0
    <2>1. dir[input_path] \in FileType
      BY <1>2 DEF IInv, FilesFit, ScalarsFit
    <2>2. CurrentLines \in Seq(Record) /\ index[row.src] \in DOMAIN CurrentLines
      BY <1>2, <2>1, RecordsFit DEF CurrentLines, FileType
    <2>3. CurrentLines[index[row.src]] \in Record
      BY <2>2, LenProperties, ElementOfSeq
    <2> QED
      BY <1>2, <2>3 DEF SourceRecord, Record
  <1> QED
    BY <1>1, <1>2

\* Header mode off: the names become a first row, and every column a label.
LEMMA HideHeadersKeeps ==
    ASSUME IInv, NEW dialect \in Dialect, HideHeaders(dialect)
    PROVE  IInv'
  <1> DEFINE labels == SyntheticHeaders(Len(columns))
             cells == [k \in Key |-> IF k \in Range(Names(columns)) THEN k ELSE NoEdit]
             first == [src |-> 0, cells |-> cells]
             t == RelabelColumns(columns, labels)
             u == RelabelRows(<<first>> \o rows, columns, labels)
  <1>1. /\ Editable /\ columns' = t /\ headers' = labels /\ rows' = u
        /\ has_headers' = FALSE /\ output_format' = dialect /\ modified' = TRUE
        /\ steps' = steps + 1 /\ UNCHANGED <<files, status, source, order>>
    BY DEF HideHeaders
  <1>2. /\ status = "open" /\ columns \in Seq(ColumnType) /\ ColumnsFit(columns)
        /\ Len(columns) \in 1 .. MaxWidth /\ Names(columns) \in Seq(Cell)
        /\ columns \in Seq(KeyColumnType) /\ rows \in Seq(RowType) /\ Len(rows) \in Nat
        /\ \A r \in 1 .. Len(rows) : GoodRow(rows[r], Names(columns))
        /\ steps + 1 \in 0 .. MaxSteps
    BY <1>1, EditStarts, NamesOfColumns
  <1>3. Len(columns) \in 0 .. MaxWidth /\ Len(columns) <= MaxWidth /\ MaxWidth \in Nat
    BY <1>2, IndexedCsvAssumption, LenProperties
  <1>4. labels \in Seq(Cell) /\ Len(labels) = Len(columns) /\ NamesFit(labels, FALSE)
    BY <1>3, LabelsAreNames
  <1> HIDE DEF labels
  <1>5. \A i \in DOMAIN columns : columns[i].src # 0 => columns[i].default = Empty
    BY <1>2 DEF ColumnsFit
  <1>6. ColumnsFit(t) /\ Names(t) = labels /\ Len(t) = Len(columns)
    BY <1>2, <1>3, <1>4, <1>5, RelabelledColumns
  <1>7. /\ cells \in [Key -> Texts]
        /\ \A k \in Key : cells[k] # NoEdit => k \in Range(Names(columns))
    <2>1. Range(Names(columns)) \subseteq Cell
      BY <1>2, LenProperties, ElementOfSeq DEF Range
    <2> QED
      BY <2>1 DEF Texts
  <1> HIDE DEF cells
  <1>8. first \in RowType /\ GoodRow(first, Names(columns))
    BY <1>7 DEF RowType, GoodRow
  <1> HIDE DEF first
  <1>9. RowsFit(<<first>> \o rows)
    <2>1. /\ <<first>> \o rows \in Seq(RowType) /\ Len(<<first>> \o rows) = Len(rows) + 1
          /\ \A i \in 1 .. Len(rows) + 1 :
               (<<first>> \o rows)[i] = IF i = 1 THEN first ELSE rows[i - 1]
      BY <1>2, <1>8, ConsFits
    <2> DEFINE rws == <<first>> \o rows
    <2>2. ASSUME NEW i \in 1 .. Len(rws)
          PROVE  GoodRow(rws[i], Names(columns))
      <3>1. CASE i = 1
        BY <1>8, <2>1, <3>1
      <3>2. CASE i # 1
        <4>1. i - 1 \in 1 .. Len(rows) /\ rws[i] = rows[i - 1]
          BY <1>2, <2>1, <3>2
        <4> QED
          BY <1>2, <4>1
      <3> QED
        BY <3>1, <3>2
    <2> HIDE DEF rws
    <2>3. rws \in Seq(RowType)
      BY <2>1 DEF rws
    <2>4. RowsFit(rws)
      BY <2>2, <2>3, GoodRowsFit
    <2> QED
      BY <2>4 DEF rws
  <1>10. RowsFit(u) /\ EditsUnder(u, labels)
    BY <1>2, <1>4, <1>9, RelabelledRows
  <1> HIDE DEF t, u
  <1>11. t # <<>>
    BY <1>2, <1>6, EmptySeq
  <1>12. Tabled(t, u, FALSE)
    BY <1>1, <1>2, <1>6 DEF Tabled
  <1> QED
    BY <1>2, <1>4, <1>6, <1>10, <1>11, <1>12, TabledKeeps

\* Header mode on: the texts of the first row are different, and become the names.
LEMMA TakeHeadersKeeps ==
    ASSUME IInv, NEW dialect \in Dialect, TakeHeaders(dialect)
    PROVE  IInv'
  <1> DEFINE names == RowValues(rows[1], columns, SourceRecord(rows[1], CurrentLines))
             t == RelabelColumns(columns, names)
             u == RelabelRows(Tail(rows), columns, names)
  <1>1. /\ Editable /\ rows # <<>> /\ Readable(<<rows[1]>>) /\ IsInjective(names)
        /\ columns' = t /\ headers' = names /\ rows' = u
        /\ has_headers' = TRUE /\ output_format' = dialect /\ modified' = TRUE
        /\ steps' = steps + 1 /\ UNCHANGED <<files, status, source, order>>
    BY DEF TakeHeaders
  <1>2. /\ status = "open" /\ columns \in Seq(ColumnType) /\ ColumnsFit(columns)
        /\ Len(columns) \in 1 .. MaxWidth /\ columns \in Seq(KeyColumnType)
        /\ rows \in Seq(RowType) /\ Len(rows) \in Nat /\ steps + 1 \in 0 .. MaxSteps
        /\ \A r \in 1 .. Len(rows) : GoodRow(rows[r], Names(columns))
    BY <1>1, EditStarts, NamesOfColumns
  <1>3. /\ Tail(rows) \in Seq(RowType) /\ Len(Tail(rows)) = Len(rows) - 1 /\ Len(rows) # 0
        /\ rows[1] \in RowType /\ \A i \in 1 .. Len(rows) - 1 : Tail(rows)[i] = rows[i + 1]
    BY <1>1, <1>2, TailFits
  <1>4. SourceRecord(rows[1], CurrentLines) \in Seq(Cell)
    <2>1. GoodRow(rows[1], Names(columns))
      BY <1>2, <1>3
    <2>2. rows[1].src # 0 => dir[input_path] # NoFile /\ index[rows[1].src] \in DOMAIN CurrentLines
      <3>1. DOMAIN <<rows[1]>> = {1} /\ <<rows[1]>>[1] = rows[1]
        OBVIOUS
      <3> QED
        BY <1>1, <3>1 DEF Readable
    <2> QED
      BY <1>3, <2>1, <2>2, SourceRecordFits DEF GoodRow
  <1>5. names \in Seq(Cell) /\ Len(names) = Len(columns)
    BY <1>2, <1>3, <1>4, ValuesOf
  <1> HIDE DEF names
  <1>6. ColumnsFit(t) /\ Names(t) = names /\ Len(t) = Len(columns)
    <2>1. \A i \in DOMAIN columns : columns[i].src # 0 => columns[i].default = Empty
      BY <1>2 DEF ColumnsFit
    <2>2. Len(columns) <= MaxWidth
      BY <1>2, IndexedCsvAssumption, LenProperties
    <2> QED
      BY <1>2, <1>5, <2>1, <2>2, RelabelledColumns
  <1>7. RowsFit(Tail(rows))
    <2>1. ASSUME NEW i \in 1 .. Len(Tail(rows))
          PROVE  GoodRow(Tail(rows)[i], Names(columns))
      <3>1. i + 1 \in 1 .. Len(rows) /\ Tail(rows)[i] = rows[i + 1]
        BY <1>2, <1>3
      <3> QED
        BY <1>2, <3>1
    <2> QED
      BY <1>3, <2>1, GoodRowsFit
  <1>8. RowsFit(u) /\ EditsUnder(u, names)
    BY <1>2, <1>5, <1>7, RelabelledRows
  <1> HIDE DEF t, u
  <1>9. t # <<>>
    BY <1>2, <1>6, EmptySeq
  <1>10. Tabled(t, u, TRUE)
    BY <1>1, <1>2, <1>6 DEF Tabled
  <1>11. NamesFit(names, TRUE)
    BY <1>1 DEF NamesFit
  <1> QED
    BY <1>2, <1>6, <1>8, <1>9, <1>10, <1>11, TabledKeeps

\* A step that leaves the table, its source and what was lost alone keeps them fitting.
LEMMA TableStays ==
    ASSUME TableFits, UNCHANGED <<columns, headers, rows, has_headers, index, lost>>,
           status' = "closed" <=> status = "closed"
    PROVE  TableFits'
  <1> USE DEF TableFits
  <1>1. ColumnsFit(columns)' /\ (headers = Names(columns) \/ (lost /\ headers = <<>>))'
    BY DEF ColumnsFit, Names
  <1>2. RowsFit(rows)' /\ (index \in Seq(Nat))'
    BY DEF RowsFit
  <1>3. EditsUnder(rows, Names(columns))'
    BY DEF EditsUnder, Names
  <1>4. (columns # <<>> \/ status = "closed")'
    OBVIOUS
  <1>5. (status # "closed" /\ ~lost => NamesFit(headers, has_headers))'
    BY DEF NamesFit
  <1> QED
    BY <1>1, <1>2, <1>3, <1>4, <1>5

\* Another output dialect leaves the table alone.
LEMMA ConvertKeeps ==
    ASSUME IInv, NEW dialect \in Dialect, Convert(dialect)
    PROVE  IInv'
  <1>1. /\ Editable /\ output_format' = dialect /\ modified' = TRUE /\ steps' = steps + 1
        /\ UNCHANGED <<files, status, source, overlay, order>>
    BY DEF Convert
  <1>2. IInv /\ status = "open" /\ steps + 1 \in 0 .. MaxSteps
    BY <1>1, EditStarts
  <1> USE DEF IInv, files, source, overlay
  <1>3. FilesFit'
    BY <1>1 DEF FilesFit
  <1>4. ScalarsFit'
    BY <1>1, <1>2 DEF ScalarsFit
  <1>5. TableFits'
    BY <1>1, <1>2, TableStays DEF TableFits
  <1>6. OrderFits' /\ LoadedFits' /\ CheckLasts'
    BY <1>1, <1>2 DEF OrderFits, ColumnOrders, LoadedFits, CheckLasts
  <1> QED
    BY <1>3, <1>4, <1>5, <1>6

----------------------------------------------------------------------------
(* Reading a file.                                                         *)

\* The width of a file is that of its widest record.
LEMMA WidthFits ==
    ASSUME NEW lines \in Seq(Record)
    PROVE  /\ Width(lines) \in 0 .. MaxWidth
           /\ lines # <<>> => lines[1] \in Record /\ Len(lines[1]) <= Width(lines)
  <1> DEFINE lens == {Len(lines[i]) : i \in DOMAIN lines} \cup {0}
  <1>1. MaxWidth \in Nat
    BY IndexedCsvAssumption, LenProperties
  <1>2. DOMAIN lines = 1 .. Len(lines) /\ \A i \in 1 .. Len(lines) : lines[i] \in Record
    BY LenProperties, ElementOfSeq
  <1>3. lens \subseteq 0 .. MaxWidth /\ lens # {}
    BY <1>1, <1>2 DEF Record
  <1>4. Max(lens) \in lens /\ \A n \in lens : n <= Max(lens)
    BY <1>1, <1>3, MaxIsIn
  <1>5. Width(lines) = Max(lens)
    BY DEF Width
  <1>6. ASSUME lines # <<>>
        PROVE  lines[1] \in Record /\ Len(lines[1]) \in lens
    <2>1. Len(lines) \in Nat /\ Len(lines) # 0
      BY <1>6, EmptySeq, LenProperties
    <2> QED
      BY <1>2, <2>1
  <1> HIDE DEF lens
  <1> QED
    BY <1>3, <1>4, <1>5, <1>6

\* What reading a file leaves: columns named by its first record or by position,
\* a row for each record, no edit.
Freshly(file) ==
    /\ stamp' = file.stamp /\ output_format' \in Dialect
    /\ format' \in FormatType /\ has_headers' \in BOOLEAN /\ headers_disabled' \in BOOLEAN
    /\ modified' = FALSE /\ headers' = Names(columns') /\ ColumnsFit(columns') /\ columns' # <<>>
    /\ index' \in Seq(Nat) /\ \A i \in DOMAIN index' : index'[i] \in DOMAIN file.lines
    /\ rows' \in Seq(RowType)
    /\ \A r \in DOMAIN rows' : rows'[r].src \in DOMAIN index' /\ rows'[r].cells = NoCells
    /\ ~lost' => NamesFit(headers', has_headers')
    /\ loaded' \in LoadedType /\ loaded'.lines = file.lines /\ loaded'.dialect = file.dialect

\* reload, from the width of the file, its header mode and the columns there were.
LEMMA ReloadIsFresh ==
    ASSUME NEW file \in FileType, NEW fmt \in FormatType, NEW cols, Reload(file, fmt, cols),
           Len(cols) \in 0 .. MaxWidth,
           file.lines = <<>> => ~fmt.header /\ Len(cols) # 0,
           ~lost' /\ fmt.header /\ DistinctHeaders /\ file.lines # <<>> =>
              Wide(RecordsIn(file, fmt.dialect)) \/ IsInjective(RecordsIn(file, fmt.dialect)[1])
    PROVE  Freshly(file)
  <1> DEFINE lines == RecordsIn(file, fmt.dialect)
             hdr   == fmt.header /\ ~Wide(lines)
             width == IF lines = <<>> THEN Len(cols) ELSE Width(lines)
             names == IF hdr THEN lines[1] ELSE SyntheticHeaders(width)
             first == IF hdr THEN 1 ELSE 0
             n     == Len(lines)
             t     == [i \in DOMAIN names |-> Column(names[i], i, Empty)]
             u     == [i \in 1 .. n - first |-> [src |-> i, cells |-> NoCells]]
             v     == [i \in 1 .. n - first |-> i + first]
  <1>1. /\ stamp' = file.stamp /\ format' = [fmt EXCEPT !.header = hdr]
        /\ output_format' = fmt.dialect /\ has_headers' = hdr /\ headers' = names
        /\ columns' = t /\ index' = v /\ rows' = u
        /\ headers_disabled' = Wide(lines) /\ modified' = FALSE
        /\ loaded' = [lines |-> file.lines, dialect |-> file.dialect, width |-> Len(names)]
    BY DEF Reload
  <1>2. file.lines \in Seq(Record) /\ file.dialect \in Dialect
    BY DEF FileType
  <1>3. /\ lines \in Seq(Record) /\ DOMAIN lines = DOMAIN file.lines /\ n = Len(file.lines)
        /\ n \in Nat /\ DOMAIN file.lines = 1 .. n /\ DOMAIN lines = 1 .. n
    BY <1>2, RecordsFit, LenProperties
  <1>4. lines = <<>> <=> file.lines = <<>>
    BY <1>2, <1>3, EmptySeq
  <1>5. lines # <<>> => n >= 1
    BY <1>3, EmptySeq
  <1>6. fmt.header \in BOOLEAN /\ fmt.dialect \in Dialect
    BY DEF FormatType
  <1>7. hdr \in BOOLEAN /\ Wide(lines) \in BOOLEAN
    BY <1>6 DEF Wide
  <1>8. hdr => lines # <<>> /\ (DistinctHeaders /\ ~lost' => IsInjective(lines[1]))
    BY <1>4
  <1>9. MaxWidth \in Nat /\ 1 <= MaxWidth
    BY IndexedCsvAssumption, LenProperties
  <1> HIDE DEF lines
  <1>10. Width(lines) \in 0 .. MaxWidth
         /\ (lines # <<>> => lines[1] \in Record /\ Len(lines[1]) <= Width(lines))
    BY <1>3, WidthFits
  <1>11. width \in 1 .. MaxWidth
    <2>1. CASE lines = <<>>
      BY <1>4, <1>9, <2>1
    <2>2. CASE lines # <<>>
      <3>1. Len(lines[1]) \in 1 .. MaxWidth
        BY <1>10, <2>2 DEF Record
      <3> QED
        BY <1>9, <1>10, <2>2, <3>1
    <2> QED
      BY <2>1, <2>2
  <1>12. /\ names \in Seq(Cell) /\ Len(names) \in 1 .. MaxWidth
         /\ (~lost' => NamesFit(names, hdr))
    <2>1. CASE hdr
      <3>1. lines[1] \in Record /\ names = lines[1]
        BY <1>8, <1>10, <2>1
      <3>2. DistinctHeaders /\ ~lost' => IsInjective(names)
        BY <1>8, <2>1, <3>1
      <3> HIDE DEF names
      <3> QED
        BY <2>1, <3>1, <3>2 DEF Record, NamesFit
    <2>2. CASE ~hdr
      <3>1. names = SyntheticHeaders(width) /\ width \in 0 .. MaxWidth
        BY <1>9, <1>11, <2>2
      <3> HIDE DEF names, width
      <3>2. SyntheticHeaders(width) \in Seq(Cell) /\ Len(SyntheticHeaders(width)) = width
            /\ NamesFit(SyntheticHeaders(width), FALSE)
        BY <3>1, LabelsAreNames
      <3>3. NamesFit(names, FALSE) /\ hdr = FALSE
        BY <2>2, <3>1, <3>2
      <3> HIDE DEF hdr
      <3> QED
        BY <1>11, <3>1, <3>2, <3>3
    <2> QED
      BY <2>1, <2>2
  <1>13. first \in 0 .. 1 /\ n - first \in Nat
    BY <1>3, <1>5, <1>8
  <1> HIDE DEF names, first, width, hdr
  <1>14. DOMAIN names = 1 .. Len(names) /\ \A i \in 1 .. Len(names) : names[i] \in Cell
    BY <1>12, LenProperties, ElementOfSeq
  <1>15. /\ t \in Seq(ColumnType) /\ Len(t) = Len(names) /\ DOMAIN t = 1 .. Len(names)
         /\ \A i \in 1 .. Len(names) : t[i].name = names[i] /\ t[i].default = Empty
    <2>1. t = [i \in 1 .. Len(names) |-> Column(names[i], i, Empty)]
      BY <1>14
    <2>2. ASSUME NEW i \in 1 .. Len(names)
          PROVE  /\ Column(names[i], i, Empty) \in ColumnType
                 /\ Column(names[i], i, Empty).name = names[i]
                 /\ Column(names[i], i, Empty).default = Empty
      BY <1>12, <1>14, IndexedCsvAssumption DEF Column, ColumnType
    <2>3. t \in [1 .. Len(names) -> ColumnType]
      BY <2>1, <2>2
    <2>4. Len(names) \in Nat
      BY <1>12, LenProperties
    <2>5. \A i \in 1 .. Len(names) : t[i] = Column(names[i], i, Empty)
      BY <2>1
    <2> HIDE DEF t
    <2>6. t \in Seq(ColumnType) /\ Len(t) = Len(names) /\ DOMAIN t = 1 .. Len(names)
      BY <2>3, <2>4, MappedFits
    <2> QED
      BY <2>2, <2>5, <2>6
  <1> HIDE DEF t
  <1>16. Names(t) = names
    <2>1. DOMAIN Names(t) = 1 .. Len(names)
          /\ \A i \in 1 .. Len(names) : Names(t)[i] = names[i]
      BY <1>15, NamesOfColumns
    <2>2. Names(t) \in Seq(Cell) /\ Len(Names(t)) = Len(names)
      BY <1>15, NamesOfColumns
    <2> QED
      BY <1>12, <2>1, <2>2, SeqEqual
  <1>17. ColumnsFit(t) /\ t # <<>>
    BY <1>9, <1>12, <1>15, EmptySeq DEF ColumnsFit
  <1>18. /\ v \in Seq(Nat) /\ DOMAIN v = 1 .. n - first
         /\ \A i \in DOMAIN v : v[i] \in DOMAIN file.lines
    <2>1. \A i \in 1 .. n - first : i + first \in 1 .. n /\ i + first \in Nat
      BY <1>3, <1>13
    <2>2. v \in [1 .. n - first -> Nat] /\ \A i \in 1 .. n - first : v[i] = i + first
      BY <2>1
    <2> HIDE DEF v
    <2>3. v \in Seq(Nat) /\ DOMAIN v = 1 .. n - first
      BY <1>13, <2>2, MappedFits
    <2> QED
      BY <1>3, <2>1, <2>2, <2>3
  <1>19. NoCells \in [Key -> Texts]
    BY DEF NoCells, Texts
  <1>20. /\ u \in Seq(RowType)
         /\ \A r \in DOMAIN u : u[r].src \in 1 .. n - first /\ u[r].cells = NoCells
    <2>1. \A r \in 1 .. n - first : u[r] = [src |-> r, cells |-> NoCells]
      OBVIOUS
    <2>2. \A r \in 1 .. n - first : [src |-> r, cells |-> NoCells] \in RowType
      BY <1>13, <1>19 DEF RowType
    <2>3. u \in [1 .. n - first -> RowType]
      BY <2>2
    <2> HIDE DEF u
    <2>4. u \in Seq(RowType) /\ DOMAIN u = 1 .. n - first
      BY <1>13, <2>3, MappedFits
    <2> QED
      BY <2>1, <2>4
  <1> HIDE DEF u, v
  <1>21. format' \in FormatType
    BY <1>1, <1>6, <1>7 DEF FormatType, hdr
  <1>22. loaded' \in LoadedType /\ loaded'.lines = file.lines /\ loaded'.dialect = file.dialect
    BY <1>1, <1>2, <1>9, <1>12 DEF LoadedType
  <1>23. headers' = Names(columns') /\ ColumnsFit(columns') /\ columns' # <<>>
         /\ (~lost' => NamesFit(headers', has_headers'))
    BY <1>1, <1>12, <1>16, <1>17
  <1>24. /\ index' \in Seq(Nat) /\ (\A i \in DOMAIN index' : index'[i] \in DOMAIN file.lines)
         /\ rows' \in Seq(RowType)
         /\ (\A r \in DOMAIN rows' : rows'[r].src \in DOMAIN index' /\ rows'[r].cells = NoCells)
    BY <1>1, <1>18, <1>20
  <1> QED
    BY <1>1, <1>6, <1>7, <1>21, <1>22, <1>23, <1>24 DEF Freshly, hdr

\* A file is not the mark of its absence.
LEMMA FileIsAFile ==
    ASSUME NEW file \in FileType
    PROVE  file # NoFile
  <1>1. Record \subseteq Seq(Cell)
    BY DEF Record
  <1>2. file.lines \in Seq(Seq(Cell))
    <2>1. file.lines \in Seq(Record)
      BY DEF FileType
    <2> QED
      BY <1>1, <2>1
  <1>3. file \in [lines : Seq(Seq(Cell)), dialect : Dialect, stamp : Nat]
    BY <1>2, IndexedCsvAssumption DEF FileType
  <1> QED
    BY <1>3, IndexedCsvAssumption

\* After reading a file that the directory holds, the engine fits it.
LEMMA FreshKeeps ==
    ASSUME NEW file, Freshly(file), FilesFit', input_path' \in Path,
           dir'[input_path'] = file, file \in FileType,
           status' = "open", order' = <<>>, lost' \in BOOLEAN, locked' \in BOOLEAN,
           steps' \in 0 .. MaxSteps
    PROVE  IInv'
  <1> USE DEF Freshly
  <1>1. ScalarsFit'
    BY DEF ScalarsFit
  <1>2. TableFits'
    <2>1. ColumnsFit(columns)' /\ (headers = Names(columns))' /\ (columns # <<>>)'
      BY DEF ColumnsFit, Names
    <2>2. RowsFit(rows)' /\ (index \in Seq(Nat))'
      BY DEF RowsFit
    <2>3. EditsUnder(rows, Names(columns))'
      BY DEF EditsUnder, Names, NoCells
    <2>4. ~lost' => NamesFit(headers, has_headers)'
      BY DEF NamesFit
    <2> QED
      BY <2>1, <2>2, <2>3, <2>4 DEF TableFits
  <1>3. OrderFits'
    BY DEF OrderFits, ColumnOrders
  <1>4. LoadedFits'
    <2>1. \A p \in Path : dir'[p] # NoFile /\ dir'[p].stamp = stamp' => dir'[p] = file
      <3>1. file # NoFile
        BY FileIsAFile
      <3> QED
        BY <3>1 DEF FilesFit
    <2> QED
      BY <2>1 DEF LoadedFits
  <1>5. CheckLasts'
    BY DEF CheckLasts
  <1> QED
    BY <1>1, <1>2, <1>3, <1>4, <1>5 DEF IInv

----------------------------------------------------------------------------
(* Opening, reading again and closing.                                     *)

\* The directory does not change and the file is one of it.
LEMMA FilesStay ==
    ASSUME IInv, UNCHANGED files, NEW p \in Path, dir[p] # NoFile, stamp' = dir[p].stamp
    PROVE  FilesFit' /\ dir[p] \in FileType /\ locked' \in BOOLEAN
  <1> USE DEF IInv, files
  <1>1. dir[p] \in FileType /\ dir[p].stamp <= clock /\ clock \in 0 .. MaxStamp
    BY DEF FilesFit
  <1>2. MaxStamp \in Nat
    BY IndexedCsvAssumption
  <1>3. stamp' \in 0 .. clock
    BY <1>1, <1>2 DEF FileType
  <1>4. FilesFit'
    BY <1>3 DEF FilesFit
  <1> QED
    BY <1>1, <1>4 DEF ScalarsFit

\* Reading a file the directory holds.
LEMMA ReadKeeps ==
    ASSUME IInv, UNCHANGED files, NEW p \in Path, dir[p] # NoFile, input_path' = p,
           NEW fmt \in FormatType, NEW cols, Len(cols) \in 0 .. MaxWidth,
           dir[p].lines = <<>> => ~fmt.header /\ Len(cols) # 0,
           HeaderUsable(p, fmt), Reload(dir[p], fmt, cols),
           status' = "open", order' = <<>>, lost' \in BOOLEAN, steps' \in 0 .. MaxSteps
    PROVE  IInv'
  <1>1. stamp' = dir[p].stamp
    BY DEF Reload
  <1>2. FilesFit' /\ dir[p] \in FileType /\ locked' \in BOOLEAN /\ dir'[input_path'] = dir[p]
    BY <1>1, FilesStay DEF files
  <1>3. fmt.header /\ DistinctHeaders /\ dir[p].lines # <<>> =>
            Wide(RecordsIn(dir[p], fmt.dialect)) \/ IsInjective(RecordsIn(dir[p], fmt.dialect)[1])
    BY DEF HeaderUsable
  <1>4. Freshly(dir[p])
    BY <1>2, <1>3, ReloadIsFresh
  <1> QED
    BY <1>2, <1>4, FreshKeeps

\* A file opened for the first time, with a header if its first record is wide enough.
LEMMA OpenKeeps ==
    ASSUME IInv, NEW p \in Path, Open(p)
    PROVE  IInv'
  <1> DEFINE fmt == [header |-> TRUE, dialect |-> dir[p].dialect]
  <1>1. /\ status = "closed" /\ dir[p] # NoFile /\ dir[p].lines # <<>> /\ input_path' = p
        /\ HeaderUsable(p, fmt) /\ Reload(dir[p], fmt, <<>>)
        /\ status' = "open" /\ lost' = FALSE /\ UNCHANGED <<files, order, steps>>
    BY DEF Open
  <1>2. dir[p] \in FileType /\ order = <<>> /\ steps \in 0 .. MaxSteps
    BY <1>1 DEF IInv, FilesFit, OrderFits, ScalarsFit
  <1>3. fmt \in FormatType
    BY <1>2 DEF FormatType, FileType
  <1>4. Len(<<>>) \in 0 .. MaxWidth
    BY IndexedCsvAssumption, LenProperties, EmptySeq
  <1> HIDE DEF fmt
  <1> QED
    BY <1>1, <1>2, <1>3, <1>4, ReadKeeps

\* The path a moved file is recovered at holds a file.
LEMMA RecoveredFits ==
    ASSUME IInv, NEW p \in Recovered
    PROVE  p \in Path /\ dir[p] # NoFile /\ dir[p] \in FileType
  BY DEF Recovered, IInv, FilesFit, ScalarsFit

\* A file that can be read again.
LEMMA RereadKeeps ==
    ASSUME IInv, status = "open", UNCHANGED <<files, status, order, steps>>, NEW p \in Recovered,
           input_path' = p, NEW fmt \in FormatType, HeaderUsable(p, fmt),
           ~ReloadFails(p, fmt, columns), Reload(dir[p], fmt, columns), lost' = FALSE
    PROVE  IInv'
  <1>1. p \in Path /\ dir[p] # NoFile
    BY RecoveredFits
  <1>2. order = <<>> /\ steps \in 0 .. MaxSteps /\ Len(columns) \in 0 .. MaxWidth
    BY DEF IInv, OrderFits, ScalarsFit, TableFits, ColumnsFit
  <1>3. dir[p].lines = <<>> => ~fmt.header /\ columns # <<>>
    BY DEF ReloadFails
  <1>4. columns # <<>> => Len(columns) # 0
    BY OpenTable, EmptySeq
  <1> QED
    BY <1>1, <1>2, <1>3, <1>4, ReadKeeps

\* A reload that throws leaves columns, or columns without headers and rows.
LEMMA FailureKeeps ==
    ASSUME IInv, status = "open", UNCHANGED <<files, status, order, steps>>, NEW p \in Recovered,
           input_path' = p, ReloadFailure(p, format)
    PROVE  IInv'
  <1> USE DEF IInv
  <1>1. p \in Path /\ dir[p] # NoFile /\ dir[p] \in FileType
    BY RecoveredFits
  <1>2. /\ stamp' = dir[p].stamp /\ lost' = TRUE
        /\ UNCHANGED <<columns, format, headers_disabled, modified, loaded>>
    BY DEF ReloadFailure, overlay
  <1>3. \/ UNCHANGED <<headers, rows, index, has_headers, output_format>>
        \/ headers' = <<>> /\ index' = <<>> /\ rows' = <<>> /\ has_headers' = format.header
           /\ output_format' = format.dialect
    BY DEF ReloadFailure, overlay
  <1>4. FilesFit'
    BY <1>1, <1>2, FilesStay
  <1>5. ScalarsFit'
    BY <1>1, <1>2, <1>3, FilesStay DEF ScalarsFit, FormatType
  <1>6. TableFits'
    <2>1. ColumnsFit(columns)' /\ columns' # <<>>
      BY <1>2 DEF TableFits, ColumnsFit
    <2>2. (headers = Names(columns) \/ (lost /\ headers = <<>>))'
      BY <1>2, <1>3 DEF TableFits, Names
    <2>3. CASE UNCHANGED <<headers, rows, index, has_headers, output_format>>
      <3>1. RowsFit(rows)' /\ (index \in Seq(Nat))'
        BY <2>3 DEF TableFits, RowsFit
      <3>2. EditsUnder(rows, Names(columns))'
        BY <1>2, <2>3 DEF TableFits, EditsUnder, Names
      <3> QED
        BY <1>2, <2>1, <2>2, <3>1, <3>2 DEF TableFits
    <2>4. CASE headers' = <<>> /\ index' = <<>> /\ rows' = <<>>
      <3>1. RowsFit(rows)' /\ (index \in Seq(Nat))' /\ EditsUnder(rows, Names(columns))'
        BY <2>4, EmptySeq DEF RowsFit, EditsUnder
      <3> QED
        BY <1>2, <2>1, <2>2, <3>1 DEF TableFits
    <2> QED
      BY <1>3, <2>3, <2>4
  <1>7. OrderFits' /\ LoadedFits' /\ CheckLasts'
    BY <1>2 DEF OrderFits, ColumnOrders, LoadedFits, CheckLasts
  <1> QED
    BY <1>4, <1>5, <1>6, <1>7

\* reset reads the file again, or fails.
LEMMA ResetKeeps ==
    ASSUME IInv, Reset
    PROVE  IInv'
  <1>1. status = "open" /\ UNCHANGED <<files, status, order, steps>>
    BY DEF Reset
  <1>2. PICK p \in Recovered :
          /\ HeaderUsable(p, format) /\ input_path' = p
          /\ IF ReloadFails(p, format, columns) THEN ReloadFailure(p, format)
             ELSE Reload(dir[p], format, columns) /\ lost' = FALSE
    BY DEF Reset
  <1>3. format \in FormatType
    BY DEF IInv, ScalarsFit
  <1>4. CASE ReloadFails(p, format, columns)
    BY <1>1, <1>2, <1>4, FailureKeeps
  <1>5. CASE ~ReloadFails(p, format, columns)
    BY <1>1, <1>2, <1>3, <1>5, RereadKeeps
  <1> QED
    BY <1>4, <1>5

\* The path, and whether a save is under way, are all that changes.
LEMMA PathKeeps ==
    ASSUME IInv, status = "open", status' \in {"open", "saving"}, NEW p \in Recovered,
           input_path' = p, order' \in ColumnOrders, status' # "saving" => order' = <<>>,
           status' = "saving" => dir[p].stamp = stamp,
           UNCHANGED <<files, stamp, format, index, headers_disabled, loaded, lost,
                       output_format, overlay, modified, steps>>
    PROVE  IInv'
  <1> USE DEF IInv, files, overlay
  <1>1. p \in Path /\ dir[p] # NoFile
    BY RecoveredFits
  <1>2. FilesFit'
    BY DEF FilesFit
  <1>3. ScalarsFit'
    BY <1>1 DEF ScalarsFit
  <1>4. TableFits'
    BY TableStays
  <1>5. OrderFits' /\ LoadedFits' /\ CheckLasts'
    BY <1>1 DEF OrderFits, ColumnOrders, LoadedFits, CheckLasts
  <1> QED
    BY <1>2, <1>3, <1>4, <1>5

\* read_csv_options takes the other object over, or keeps this one.
LEMMA ReadCsvOptionsKeeps ==
    ASSUME IInv, NEW header \in BOOLEAN, ReadCsvOptions(header)
    PROVE  IInv'
  <1>1. status = "open" /\ UNCHANGED <<files, status, order, steps>>
    BY DEF ReadCsvOptions
  <1>2. PICK p \in Recovered :
          LET fmt == [header |-> header, dialect |-> dir[p].dialect]
          IN /\ HeaderUsable(p, fmt)
             /\ input_path' = p
             /\ IF ReloadFails(p, fmt, columns)
                THEN UNCHANGED <<stamp, format, index, headers_disabled, loaded, lost,
                                 output_format, overlay, modified, steps>>
                ELSE Reload(dir[p], fmt, columns) /\ lost' = FALSE
    BY DEF ReadCsvOptions
  <1> DEFINE fmt == [header |-> header, dialect |-> dir[p].dialect]
  <1>3. fmt \in FormatType
    BY RecoveredFits DEF FormatType, FileType
  <1> HIDE DEF fmt
  <1>4. HeaderUsable(p, fmt) /\ input_path' = p
    BY <1>2 DEF fmt
  <1>5. CASE ReloadFails(p, fmt, columns)
    <2>1. UNCHANGED <<stamp, format, index, headers_disabled, loaded, lost,
                      output_format, overlay, modified, steps>>
      BY <1>2, <1>5 DEF fmt
    <2>2. order' = <<>> /\ <<>> \in ColumnOrders
      BY <1>1 DEF IInv, OrderFits, ColumnOrders
    <2> QED
      BY <1>1, <1>4, <2>1, <2>2, PathKeeps
  <1>6. CASE ~ReloadFails(p, fmt, columns)
    <2>1. Reload(dir[p], fmt, columns) /\ lost' = FALSE
      BY <1>2, <1>6 DEF fmt
    <2> QED
      BY <1>1, <1>3, <1>4, <1>6, <2>1, RereadKeeps
  <1> QED
    BY <1>5, <1>6

\* save starts on a file of the size and mtime that were indexed.
LEMMA SaveCheckKeeps ==
    ASSUME IInv, NEW names \in ColumnOrders, SaveCheck(names)
    PROVE  IInv'
  <1>1. /\ status = "open" /\ order' = names /\ status' = "saving"
        /\ UNCHANGED <<files, stamp, format, index, headers_disabled, loaded, lost,
                       output_format, overlay, modified, steps>>
    BY DEF SaveCheck
  <1>2. PICK p \in Recovered : input_path' = p /\ dir[p].stamp = stamp
    BY DEF SaveCheck
  <1> QED
    BY <1>1, <1>2, PathKeeps

\* A save that throws leaves the table as it is.
LEMMA SaveFailKeeps ==
    ASSUME IInv, SaveFail
    PROVE  IInv'
  <1> USE DEF IInv, files, source, overlay
  <1>1. /\ status = "saving" /\ status' = "open" /\ order' = <<>>
        /\ UNCHANGED <<files, source, output_format, overlay, modified, steps>>
    BY DEF SaveFail
  <1>2. FilesFit'
    BY <1>1 DEF FilesFit
  <1>3. ScalarsFit'
    BY <1>1 DEF ScalarsFit
  <1>4. TableFits'
    BY <1>1, TableStays
  <1>5. OrderFits' /\ LoadedFits' /\ CheckLasts'
    BY <1>1 DEF OrderFits, ColumnOrders, LoadedFits, CheckLasts
  <1> QED
    BY <1>2, <1>3, <1>4, <1>5

\* The state without a document.
LEMMA NoObjectFits ==
    ASSUME Dialect # {}
    PROVE  NoObject.format \in FormatType /\ NoObject.format.dialect \in Dialect
           /\ NoObject.loaded \in LoadedType
  <1>1. (CHOOSE d \in Dialect : TRUE) \in Dialect
    OBVIOUS
  <1>2. <<>> \in Seq(Record)
    BY EmptySeq
  <1> QED
    BY <1>1, <1>2 DEF NoObject, FormatType, LoadedType

\* A viewer that ends, or is killed, leaves the directory.
LEMMA CloseKeeps ==
    ASSUME IInv, Close
    PROVE  IInv'
  <1> USE DEF IInv, files
  <1>1. /\ status' = "closed" /\ stamp' = 0
        /\ format' = NoObject.format /\ output_format' = NoObject.format.dialect
        /\ headers' = <<>> /\ columns' = <<>> /\ index' = <<>> /\ rows' = <<>>
        /\ has_headers' = TRUE /\ headers_disabled' = FALSE /\ modified' = FALSE
        /\ order' = <<>> /\ loaded' = NoObject.loaded /\ lost' = FALSE
        /\ UNCHANGED <<files, input_path, steps>>
    BY DEF Close
  <1>2. output_format \in Dialect
    BY DEF ScalarsFit
  <1>3. FilesFit'
    BY <1>1, IndexedCsvAssumption DEF FilesFit
  <1>4. ScalarsFit'
    BY <1>1, <1>2, NoObjectFits DEF ScalarsFit
  <1>5. TableFits'
    <2>1. MaxWidth \in Nat /\ Len(<<>>) = 0
      BY IndexedCsvAssumption, LenProperties
    <2>2. ColumnsFit(columns)'
      BY <1>1, <2>1, EmptySeq DEF ColumnsFit
    <2>3. RowsFit(rows)' /\ (index \in Seq(Nat))' /\ EditsUnder(rows, Names(columns))'
      BY <1>1, EmptySeq DEF RowsFit, EditsUnder
    <2>4. (headers = Names(columns))'
      BY <1>1 DEF Names
    <2> QED
      BY <1>1, <2>2, <2>3, <2>4 DEF TableFits
  <1>6. OrderFits' /\ LoadedFits' /\ CheckLasts'
    BY <1>1 DEF OrderFits, ColumnOrders, LoadedFits, CheckLasts
  <1> QED
    BY <1>3, <1>4, <1>5, <1>6

----------------------------------------------------------------------------
(* The file a save writes.                                                 *)

\* The columns in the order of a save are the columns of the table; their names
\* stay different when they were.
LEMMA OrderedFit ==
    ASSUME IInv, status = "saving"
    PROVE  /\ OrderedColumns(order) \in Seq(ColumnType)
           /\ Len(OrderedColumns(order)) \in 1 .. MaxWidth
           /\ ~lost /\ has_headers /\ DistinctHeaders => IsInjective(Names(OrderedColumns(order)))
  <1> DEFINE cols == OrderedColumns(order)
  <1>1. /\ columns \in Seq(ColumnType) /\ Len(columns) \in 1 .. MaxWidth
        /\ headers \in Seq(Cell) /\ (headers # <<>> => headers = Names(columns))
        /\ (~lost => headers = Names(columns) /\ NamesFit(headers, has_headers))
    BY OpenTable
  <1>2. order \in ColumnOrders
    BY DEF IInv, OrderFits
  <1>3. CASE order = <<>>
    BY <1>1, <1>3 DEF OrderedColumns, NamesFit
  <1>4. CASE order # <<>>
    <2>1. PICK p \in [DOMAIN headers -> DOMAIN headers] :
             IsInjective(p) /\ order = [i \in DOMAIN headers |-> headers[p[i]]]
      BY <1>2, <1>4 DEF ColumnOrders
    <2>2. Len(headers) \in Nat /\ DOMAIN headers = 1 .. Len(headers)
      BY <1>1, LenProperties
    <2>3. headers # <<>>
      <3>1. ASSUME headers = <<>>
            PROVE  order = <<>>
        BY <2>1, <3>1
      <3> QED
        BY <1>4, <3>1
    <2>4. headers = Names(columns) /\ Len(headers) = Len(columns)
      BY <1>1, <2>3, NamesOfColumns
    <2> DEFINE n == Len(headers)
    <2>5. cols = [i \in 1 .. n |-> columns[ColumnIndex(order[i])]]
      <3>1. DOMAIN order = 1 .. n
        BY <2>1, <2>2
      <3> QED
        BY <1>4, <3>1 DEF OrderedColumns
    <2>6. ASSUME NEW i \in 1 .. n
          PROVE  /\ p[i] \in 1 .. n /\ cols[i] \in ColumnType
                 /\ cols[i].name = headers[p[i]]
      <3>1. p[i] \in 1 .. n /\ order[i] = headers[p[i]]
        BY <2>1, <2>2
      <3>2. HasColumn(order[i])
        BY <2>2, <3>1 DEF HasColumn, Range
      <3>3. ColumnIndex(order[i]) \in 1 .. Len(columns)
            /\ columns[ColumnIndex(order[i])].name = order[i]
        BY <3>2, NamedColumn
      <3>4. columns[ColumnIndex(order[i])] \in ColumnType
        BY <1>1, <3>3, ElementOfSeq
      <3>5. cols[i] = columns[ColumnIndex(order[i])]
        BY <2>5
      <3> QED
        BY <3>1, <3>3, <3>4, <3>5
    <2> HIDE DEF cols
    <2>7. cols \in [1 .. n -> ColumnType]
      BY <2>5, <2>6
    <2>8. cols \in Seq(ColumnType) /\ Len(cols) = n
      BY <2>2, <2>7, MappedFits
    <2>9. ASSUME ~lost, has_headers, DistinctHeaders
          PROVE  IsInjective(Names(cols))
      <3>1. /\ DOMAIN Names(cols) = 1 .. n
            /\ \A i \in 1 .. n : Names(cols)[i] = cols[i].name
        BY <2>8, NamesOfColumns
      <3>2. \A a, b \in 1 .. n : headers[a] = headers[b] => a = b
        BY <1>1, <2>2, <2>9 DEF NamesFit, IsInjective
      <3>3. \A a, b \in 1 .. n : p[a] = p[b] => a = b
        BY <2>1, <2>2 DEF IsInjective
      <3>4. ASSUME NEW a \in 1 .. n, NEW b \in 1 .. n, Names(cols)[a] = Names(cols)[b]
            PROVE  a = b
        <4>1. /\ p[a] \in 1 .. n /\ cols[a].name = headers[p[a]]
              /\ p[b] \in 1 .. n /\ cols[b].name = headers[p[b]]
          BY <2>6
        <4>2. headers[p[a]] = headers[p[b]]
          BY <3>1, <3>4, <4>1
        <4>3. p[a] = p[b]
          BY <3>2, <4>1, <4>2
        <4> QED
          BY <3>3, <4>3
      <3> QED
        BY <3>1, <3>4 DEF IsInjective
    <2> QED
      BY <1>1, <2>4, <2>8, <2>9 DEF cols
  <1> QED
    BY <1>3, <1>4

\* Every record written has the width of the table; with headers they come first.
LEMMA WrittenFits ==
    ASSUME IInv, status = "saving", Readable(rows)
    PROVE  /\ Written \in Seq(Record)
           /\ has_headers => Written # <<>> /\ Written[1] = Names(OrderedColumns(order))
  <1> DEFINE cols == OrderedColumns(order)
             n    == Len(rows)
             data == TableOf(cols, CurrentLines)
  <1>1. cols \in Seq(ColumnType) /\ Len(cols) \in 1 .. MaxWidth
    BY OrderedFit
  <1>2. /\ n \in Nat /\ DOMAIN rows = 1 .. n /\ has_headers \in BOOLEAN
        /\ \A r \in 1 .. n : GoodRow(rows[r], Names(columns))
    BY OpenTable
  <1>3. Written = IF has_headers THEN <<Names(cols)>> \o data ELSE data
    BY DEF Written
  <1> HIDE DEF cols
  <1>4. ASSUME NEW r \in 1 .. n
        PROVE  RowValues(rows[r], cols, SourceRecord(rows[r], CurrentLines)) \in Record
    <2>1. rows[r] \in RowType /\ (rows[r].src # 0 => rows[r].src \in DOMAIN index)
      BY <1>2 DEF GoodRow
    <2>2. rows[r].src # 0 => dir[input_path] # NoFile /\ index[rows[r].src] \in DOMAIN CurrentLines
      BY <1>2 DEF Readable
    <2>3. SourceRecord(rows[r], CurrentLines) \in Seq(Cell)
      BY <2>1, <2>2, SourceRecordFits
    <2> QED
      BY <1>1, <2>1, <2>3, ValuesOf DEF Record
  <1>5. data \in Seq(Record)
    <2>1. data = [r \in 1 .. n |-> RowValues(rows[r], cols, SourceRecord(rows[r], CurrentLines))]
      BY <1>2 DEF TableOf
    <2> HIDE DEF data
    <2>2. data \in [1 .. n -> Record]
      BY <1>4, <2>1
    <2> QED
      BY <1>2, <2>2, MappedFits
  <1> HIDE DEF data
  <1>6. Names(cols) \in Record
    BY <1>1, NamesOfColumns DEF Record
  <1>7. <<Names(cols)>> \o data \in Seq(Record) /\ Len(<<Names(cols)>> \o data) = Len(data) + 1
        /\ Len(data) \in Nat /\ (<<Names(cols)>> \o data)[1] = Names(cols)
    <2>1. /\ <<Names(cols)>> \o data \in Seq(Record) /\ Len(<<Names(cols)>> \o data) = Len(data) + 1
          /\ Len(data) \in Nat
          /\ \A i \in 1 .. Len(data) + 1 :
                (<<Names(cols)>> \o data)[i] = IF i = 1 THEN Names(cols) ELSE data[i - 1]
      BY <1>5, <1>6, ConsFits
    <2>2. 1 \in 1 .. Len(data) + 1
      BY <2>1
    <2> QED
      BY <2>1, <2>2
  <1>8. <<Names(cols)>> \o data # <<>>
    BY <1>7, EmptySeq
  <1>9. CASE has_headers
    <2>1. Written = <<Names(cols)>> \o data
      BY <1>3, <1>9
    <2> QED
      BY <1>7, <1>8, <2>1 DEF cols
  <1>10. CASE ~has_headers
    BY <1>3, <1>5, <1>10
  <1> QED
    BY <1>9, <1>10

\* save replaces the file, and the engine then fits the one it wrote.
LEMMA SaveReplaceKeeps ==
    ASSUME IInv, SaveReplace
    PROVE  IInv'
  <1> DEFINE file == [lines |-> Written, dialect |-> output_format, stamp |-> clock + 1]
             fmt  == [header |-> has_headers, dialect |-> output_format]
  <1>1. /\ status = "saving" /\ clock < MaxStamp /\ Readable(rows) /\ clock' = clock + 1
        /\ dir' = [dir EXCEPT ![input_path] = file] /\ Reload(file, fmt, columns)
        /\ status' = "open" /\ order' = <<>> /\ UNCHANGED <<locked, steps, input_path, lost>>
    BY DEF SaveReplace, SaveGoesThrough
  <1>2. Written \in Seq(Record)
        /\ (has_headers => Written # <<>> /\ Written[1] = Names(OrderedColumns(order)))
    BY <1>1, WrittenFits
  <1>3. /\ clock \in Nat /\ clock + 1 \in 0 .. MaxStamp
        /\ input_path \in Path /\ output_format \in Dialect /\ has_headers \in BOOLEAN
        /\ locked \in BOOLEAN /\ lost \in BOOLEAN /\ steps \in 0 .. MaxSteps
    BY <1>1, IndexedCsvAssumption DEF IInv, FilesFit, ScalarsFit
  <1>4. file \in FileType /\ file.stamp = clock + 1
    BY <1>2, <1>3 DEF FileType
  <1>5. fmt \in FormatType
    BY <1>3 DEF FormatType
  <1>6. Len(columns) \in 1 .. MaxWidth /\ Len(columns) \in 0 .. MaxWidth
    BY <1>1, OpenTable, IndexedCsvAssumption
  <1>7. file.lines = <<>> => ~fmt.header /\ Len(columns) # 0
    BY <1>2, <1>6
  <1>8. ~lost' /\ fmt.header /\ DistinctHeaders /\ file.lines # <<>> =>
           Wide(RecordsIn(file, fmt.dialect)) \/ IsInjective(RecordsIn(file, fmt.dialect)[1])
    <2>1. RecordsIn(file, fmt.dialect) = Written
      BY DEF RecordsIn
    <2>2. ~lost /\ has_headers /\ DistinctHeaders => IsInjective(Written[1])
      BY <1>1, <1>2, OrderedFit
    <2> QED
      BY <1>1, <2>1, <2>2
  <1> HIDE DEF file, fmt
  <1>9. Freshly(file)
    BY <1>1, <1>4, <1>5, <1>6, <1>7, <1>8, ReloadIsFresh
  <1>10. stamp' = clock + 1
    BY <1>4, <1>9 DEF Freshly
  <1>11. FilesFit'
    <2>1. \A p \in Path : dir'[p] = IF p = input_path THEN file ELSE dir[p]
      BY <1>1 DEF IInv, FilesFit
    <2>2. \A p \in Path : dir[p] # NoFile => dir[p].stamp <= clock /\ dir[p].stamp \in Nat
      BY DEF IInv, FilesFit, FileType
    <2>3. dir' \in [Path -> FileType \cup {NoFile}]
      BY <1>1, <1>4 DEF IInv, FilesFit
    <2>4. \A p \in Path : dir'[p] # NoFile => dir'[p].stamp <= clock'
      BY <1>1, <1>3, <1>4, <2>1, <2>2
    <2>5. \A p, q \in Path : dir'[p] # NoFile /\ dir'[q] # NoFile /\ dir'[p].stamp = dir'[q].stamp
                             => dir'[p] = dir'[q]
      <3>1. \A p \in Path : dir[p] # NoFile => dir[p].stamp # clock + 1
        BY <1>3, <2>2
      <3> QED
        BY <1>4, <2>1, <3>1 DEF IInv, FilesFit
    <2> QED
      BY <1>1, <1>3, <1>10, <2>3, <2>4, <2>5 DEF FilesFit
  <1>12. dir'[input_path'] = file /\ input_path' \in Path
    BY <1>1, <1>3 DEF IInv, FilesFit
  <1> QED
    BY <1>1, <1>3, <1>4, <1>9, <1>11, <1>12, FreshKeeps

----------------------------------------------------------------------------
(* Other programs.                                                         *)

\* A step of another program that writes, if it writes, with a new size or mtime.
LEMMA OutsideKeeps ==
    ASSUME IInv, Outside, FilesFit', locked' \in BOOLEAN,
           \A p \in Path : dir'[p] # NoFile /\ dir'[p].stamp = stamp =>
              \E q \in Path : dir[q] # NoFile /\ dir[q] = dir'[p]
    PROVE  IInv'
  <1> USE DEF IInv, source, overlay
  <1>1. /\ status = "saving" => MidSaveChanges
        /\ steps < MaxSteps /\ steps' = steps + 1
        /\ UNCHANGED <<status, source, output_format, overlay, modified, order>>
    BY DEF Outside
  <1>2. ScalarsFit'
    BY <1>1, IndexedCsvAssumption DEF ScalarsFit
  <1>3. TableFits'
    BY <1>1, TableStays
  <1>4. OrderFits'
    BY <1>1 DEF OrderFits, ColumnOrders
  <1>5. LoadedFits'
    BY <1>1 DEF LoadedFits
  <1>6. CheckLasts'
    BY <1>1 DEF CheckLasts
  <1> QED
    BY <1>2, <1>3, <1>4, <1>5, <1>6

\* What other programs write are records of at least a cell and at most MaxWidth.
LEMMA ContentFits ==
    ASSUME NEW lines \in Content
    PROVE  lines \in Seq(Record)
  <1>1. lines \in Seq(Seq(Cell)) /\ \A i \in DOMAIN lines : Len(lines[i]) \in 1 .. MaxWidth
    BY IndexedCsvAssumption
  <1>2. /\ Len(lines) \in Nat /\ DOMAIN lines = 1 .. Len(lines)
        /\ lines = [i \in 1 .. Len(lines) |-> lines[i]]
        /\ \A i \in 1 .. Len(lines) : lines[i] \in Seq(Cell)
    BY <1>1, LenProperties, ElementOfSeq
  <1>3. \A i \in 1 .. Len(lines) : lines[i] \in Record
    BY <1>1, <1>2 DEF Record
  <1>4. lines \in [1 .. Len(lines) -> Record]
    BY <1>2, <1>3
  <1> QED
    BY <1>2, <1>4, MappedFits

\* Another program writes a file: a new size or mtime tells it from the one indexed.
LEMMA WriteFileKeeps ==
    ASSUME IInv, NEW p \in Path, NEW lines \in Content, NEW dialect \in Dialect,
           WriteFile(p, lines, dialect)
    PROVE  IInv'
  <1> DEFINE file == [lines |-> lines, dialect |-> dialect, stamp |-> clock + 1]
  <1>1. /\ Outside /\ clock < MaxStamp /\ clock' = clock + 1
        /\ dir' = [dir EXCEPT ![p] = file] /\ UNCHANGED locked /\ UNCHANGED stamp
    BY DEF WriteFile, Outside, source
  <1>2. clock \in Nat /\ stamp \in 0 .. clock /\ clock + 1 \in 0 .. MaxStamp /\ locked \in BOOLEAN
    BY <1>1, IndexedCsvAssumption DEF IInv, FilesFit, ScalarsFit
  <1>3. lines \in Seq(Record)
    BY ContentFits
  <1>4. file \in FileType /\ file.stamp = clock + 1
    BY <1>2, <1>3 DEF FileType
  <1> HIDE DEF file
  <1>5. \A q \in Path : dir'[q] = IF q = p THEN file ELSE dir[q]
    BY <1>1 DEF IInv, FilesFit
  <1>6. \A q \in Path : dir[q] # NoFile => dir[q].stamp <= clock /\ dir[q].stamp \in Nat
    BY DEF IInv, FilesFit, FileType
  <1>7. dir' \in [Path -> FileType \cup {NoFile}]
    BY <1>1, <1>4 DEF IInv, FilesFit
  <1>8. \A q \in Path : dir'[q] # NoFile => dir'[q].stamp <= clock'
    BY <1>1, <1>2, <1>4, <1>5, <1>6
  <1>9. \A q \in Path : dir[q] # NoFile => dir[q].stamp # clock + 1
    BY <1>2, <1>6
  <1>10. \A q, r \in Path : dir'[q] # NoFile /\ dir'[r] # NoFile /\ dir'[q].stamp = dir'[r].stamp
                            => dir'[q] = dir'[r]
    BY <1>4, <1>5, <1>9 DEF IInv, FilesFit
  <1>11. clock' \in 0 .. MaxStamp /\ stamp' \in 0 .. clock'
    BY <1>1, <1>2
  <1>12. FilesFit'
    BY <1>7, <1>8, <1>10, <1>11 DEF FilesFit
  <1>13. stamp # clock + 1
    BY <1>2
  <1>14. \A q \in Path : dir'[q] # NoFile /\ dir'[q].stamp = stamp =>
              \E r \in Path : dir[r] # NoFile /\ dir[r] = dir'[q]
    BY <1>4, <1>5, <1>13
  <1> QED
    BY <1>1, <1>2, <1>12, <1>14, OutsideKeeps

\* Whatever is moved or copied where, every file is one there was.
LEMMA OldFilesKeep ==
    ASSUME IInv, Outside, UNCHANGED clock, locked' \in BOOLEAN,
           dir' \in [Path -> FileType \cup {NoFile}],
           \A p \in Path : dir'[p] # NoFile => \E q \in Path : dir[q] # NoFile /\ dir[q] = dir'[p]
    PROVE  IInv'
  <1>1. UNCHANGED stamp
    BY DEF Outside, source
  <1>2. FilesFit'
    BY <1>1 DEF IInv, FilesFit
  <1> QED
    BY <1>2, OutsideKeeps

\* Writing, moving, copying and locking files, each as far as the engine can tell.
LEMMA OtherProgramsKeep ==
    ASSUME IInv, OtherPrograms
    PROVE  IInv'
  <1>1. dir \in [Path -> FileType \cup {NoFile}] /\ locked \in BOOLEAN
    BY DEF IInv, FilesFit, ScalarsFit
  <1>2. ASSUME NEW p \in Path, NEW lines \in Content, NEW d \in Dialect, WriteFile(p, lines, d)
        PROVE  IInv'
    BY <1>2, WriteFileKeeps
  <1>3. ASSUME NEW p \in Path, NEW q \in Path, MoveFile(p, q)
        PROVE  IInv'
    <2>1. /\ Outside /\ UNCHANGED <<clock, locked>> /\ dir[p] # NoFile
          /\ dir' = [dir EXCEPT ![q] = dir[p], ![p] = NoFile]
      BY <1>3 DEF MoveFile
    <2>2. \A r \in Path : dir'[r] = IF r = p THEN NoFile ELSE IF r = q THEN dir[p] ELSE dir[r]
      BY <1>1, <2>1
    <2>3. dir' \in [Path -> FileType \cup {NoFile}]
      BY <1>1, <2>1
    <2> QED
      BY <1>1, <2>1, <2>2, <2>3, OldFilesKeep
  <1>4. ASSUME NEW p \in Path, NEW q \in Path, CopyFile(p, q)
        PROVE  IInv'
    <2>1. /\ Outside /\ UNCHANGED <<clock, locked>> /\ dir[p] # NoFile
          /\ dir' = [dir EXCEPT ![q] = dir[p]]
      BY <1>4 DEF CopyFile
    <2>2. \A r \in Path : dir'[r] = IF r = q THEN dir[p] ELSE dir[r]
      BY <1>1, <2>1
    <2>3. dir' \in [Path -> FileType \cup {NoFile}]
      BY <1>1, <2>1
    <2> QED
      BY <1>1, <2>1, <2>2, <2>3, OldFilesKeep
  <1>5. ASSUME LockFile
        PROVE  IInv'
    BY <1>1, <1>5, OldFilesKeep DEF LockFile
  <1> QED
    BY <1>2, <1>3, <1>4, <1>5 DEF OtherPrograms

----------------------------------------------------------------------------
(* Every step.                                                             *)

\* One file and no document.
LEMMA IInvInit ==
    ASSUME Init
    PROVE  IInv
  <1> USE DEF Init
  <1>1. PICK p \in Path, lines \in Content \ {<<>>}, dialect \in Dialect \ Unquoted :
          /\ dir = [q \in Path |-> IF q = p
                                   THEN [lines |-> lines, dialect |-> dialect, stamp |-> 0]
                                   ELSE NoFile]
          /\ input_path = p
    OBVIOUS
  <1>2. Dialect # {} /\ MaxWidth \in Nat /\ MaxStamp \in Nat /\ MaxSteps \in Nat /\ Len(<<>>) = 0
    BY <1>1, IndexedCsvAssumption, LenProperties
  <1> DEFINE file == [lines |-> lines, dialect |-> dialect, stamp |-> 0]
  <1>3. lines \in Seq(Record)
    BY ContentFits
  <1>4. file \in FileType /\ file.stamp = 0
    BY <1>2, <1>3 DEF FileType
  <1>5. \A q \in Path : dir[q] = IF q = p THEN file ELSE NoFile
    BY <1>1
  <1>6. dir \in [Path -> FileType \cup {NoFile}]
    BY <1>1, <1>4
  <1> HIDE DEF file
  <1>7. FilesFit
    BY <1>2, <1>4, <1>5, <1>6 DEF FilesFit
  <1>8. ScalarsFit
    <2>1. format \in FormatType /\ output_format \in Dialect /\ loaded \in LoadedType
      BY <1>2, NoObjectFits
    <2>2. steps \in 0 .. MaxSteps
      BY <1>2
    <2>3. input_path \in Path
      BY <1>1
    <2> QED
      BY <2>1, <2>2, <2>3 DEF ScalarsFit
  <1>9. TableFits
    <2>1. ColumnsFit(columns)
      BY <1>2, EmptySeq DEF ColumnsFit
    <2>2. RowsFit(rows) /\ index \in Seq(Nat) /\ EditsUnder(rows, Names(columns))
      BY EmptySeq DEF RowsFit, EditsUnder
    <2>3. headers = Names(columns)
      BY DEF Names
    <2> QED
      BY <2>1, <2>2, <2>3 DEF TableFits
  <1>10. OrderFits /\ LoadedFits /\ CheckLasts
    BY DEF OrderFits, ColumnOrders, LoadedFits, CheckLasts
  <1> QED
    BY <1>7, <1>8, <1>9, <1>10 DEF IInv

\* Every edit of the user.
LEMMA EditsKeep ==
    ASSUME IInv, Edit
    PROVE  IInv'
  <1>1. ASSUME NEW r \in RowIndex, NEW name \in Range(headers), NEW value \in Typed,
               EditCell(r, name, value)
        PROVE  IInv'
    BY <1>1, EditCellKeeps
  <1>2. ASSUME NEW r \in RowIndex, DeleteRow(r)
        PROVE  IInv'
    BY <1>2, DeleteRowKeeps
  <1>3. ASSUME NEW r \in 1 .. Len(rows) + 1, NEW values \in [DOMAIN headers -> Typed],
               InsertRow(r, values)
        PROVE  IInv'
    BY <1>3, InsertRowKeeps
  <1>4. ASSUME NEW r \in RowIndex, NEW s \in RowIndex, SwapRows(r, s)
        PROVE  IInv'
    BY <1>4, SwapRowsKeeps
  <1>5. ASSUME NEW c \in 1 .. Len(columns) + 1, NEW name \in Named, NEW value \in Typed,
               InsertColumn(c, name, value)
        PROVE  IInv'
    BY <1>5, InsertColumnKeeps
  <1>6. ASSUME NEW name \in Range(headers), NEW new \in Named, RenameColumn(name, new)
        PROVE  IInv'
    BY <1>6, RenameColumnKeeps
  <1>7. ASSUME NEW name \in Range(headers), DeleteColumn(name)
        PROVE  IInv'
    BY <1>7, DeleteColumnKeeps
  <1>8. ASSUME NEW d \in Dialect, HideHeaders(d) \/ TakeHeaders(d) \/ Convert(d)
        PROVE  IInv'
    BY <1>8, HideHeadersKeeps, TakeHeadersKeeps, ConvertKeeps
  <1> QED
    BY <1>1, <1>2, <1>3, <1>4, <1>5, <1>6, <1>7, <1>8 DEF Edit

\* Every command of the session.
LEMMA SessionKeeps ==
    ASSUME IInv, Session
    PROVE  IInv'
  <1>1. ASSUME NEW p \in Path, Open(p)
        PROVE  IInv'
    BY <1>1, OpenKeeps
  <1>2. ASSUME NEW h \in BOOLEAN, ReadCsvOptions(h)
        PROVE  IInv'
    BY <1>2, ReadCsvOptionsKeeps
  <1>3. ASSUME NEW names \in ColumnOrders, SaveCheck(names)
        PROVE  IInv'
    BY <1>3, SaveCheckKeeps
  <1> QED
    BY <1>1, <1>2, <1>3, ResetKeeps, SaveReplaceKeeps, SaveFailKeeps, CloseKeeps DEF Session

\* Nothing happens.
LEMMA StutterKeeps ==
    ASSUME IInv, UNCHANGED vars
    PROVE  IInv'
  <1> USE DEF IInv, vars, files, source, overlay
  <1>1. FilesFit'
    BY DEF FilesFit
  <1>2. ScalarsFit'
    BY DEF ScalarsFit
  <1>3. TableFits'
    BY TableStays
  <1>4. OrderFits' /\ LoadedFits' /\ CheckLasts'
    BY DEF OrderFits, ColumnOrders, LoadedFits, CheckLasts
  <1> QED
    BY <1>1, <1>2, <1>3, <1>4

\* Every edit, command of the session and step of another program keeps the
\* engine's parts in step with each other and with the file.
THEOREM EngineInvariant == Spec => []IInv
  <1>1. Init => IInv
    BY IInvInit
  <1>2. ASSUME IInv, [Next]_vars
        PROVE  IInv'
    BY <1>2, EditsKeep, SessionKeeps, OtherProgramsKeep, StutterKeeps DEF Next
  <1> QED
    BY <1>1, <1>2, PTL DEF Spec

\* The types, edits under the names of columns, and lookups by the names shown.
LEMMA IInvConsistent ==
    ASSUME IInv
    PROVE  TypeOK /\ EditsNameColumns /\ HeadersFollowColumns
  <1> USE DEF IInv
  <1>1. Record \subseteq Seq(Cell) /\ MaxStamp \in Nat
    BY IndexedCsvAssumption DEF Record
  <1>2. Seq(Record) \subseteq Seq(Seq(Cell))
    BY <1>1
  <1>3. FileType \subseteq File
    BY <1>2 DEF FileType, File
  <1>4. dir \in [Path -> File \cup {NoFile}] /\ clock \in 0 .. MaxStamp /\ stamp \in 0 .. MaxStamp
    BY <1>1, <1>3 DEF FilesFit
  <1>5. /\ locked \in BOOLEAN /\ has_headers \in BOOLEAN /\ headers_disabled \in BOOLEAN
        /\ modified \in BOOLEAN /\ lost \in BOOLEAN
        /\ status \in {"closed", "open", "saving"} /\ input_path \in Path
        /\ format \in [header : BOOLEAN, dialect : Dialect] /\ output_format \in Dialect
        /\ steps \in 0 .. MaxSteps
    BY DEF ScalarsFit, FormatType
  <1>6. columns \in Seq([name : Cell, src : Nat, default : Cell])
    BY DEF TableFits, ColumnsFit, ColumnType
  <1>7. headers \in Seq(Cell)
    BY <1>6, NamesOfColumns, EmptySeq DEF TableFits, ColumnType
  <1>8. rows \in Seq([src : Nat, cells : [Key -> Texts]]) /\ index \in Seq(Nat)
    BY DEF TableFits, RowsFit, RowType
  <1>9. order \in Seq(Cell)
    <2>1. CASE order = <<>>
      BY <2>1, EmptySeq
    <2>2. CASE order # <<>>
      <3>1. PICK p \in [DOMAIN headers -> DOMAIN headers] :
                order = [i \in DOMAIN headers |-> headers[p[i]]]
        BY <2>2 DEF OrderFits, ColumnOrders
      <3>2. Len(headers) \in Nat /\ DOMAIN headers = 1 .. Len(headers)
            /\ \A i \in 1 .. Len(headers) : headers[i] \in Cell
        BY <1>7, LenProperties, ElementOfSeq
      <3>3. order \in [1 .. Len(headers) -> Cell]
        BY <3>1, <3>2
      <3> QED
        BY <3>2, <3>3, MappedFits
    <2> QED
      BY <2>1, <2>2
  <1>10. TypeOK
    BY <1>4, <1>5, <1>6, <1>7, <1>8, <1>9 DEF TypeOK
  <1>11. EditsNameColumns
    BY DEF TableFits, EditsUnder, EditsNameColumns
  <1>12. HeadersFollowColumns
    <2>1. ASSUME status # "closed", ~lost
          PROVE  headers = Names(columns) /\ NamesFit(headers, has_headers)
                 /\ Len(headers) = Len(columns)
      BY <1>6, <2>1, NamesOfColumns DEF TableFits, ColumnType
    <2> QED
      BY <2>1 DEF HeadersFollowColumns, NamesFit
  <1> QED
    BY <1>10, <1>11, <1>12

\* The file with the size and mtime that were indexed holds every record indexed.
LEMMA IndexedRecordsAreThere ==
    ASSUME IInv, status # "closed", ~lost, dir[input_path] # NoFile, dir[input_path].stamp = stamp
    PROVE  /\ CurrentLines \in Seq(Record)
           /\ \A i \in DOMAIN index : index[i] \in DOMAIN CurrentLines
  <1>1. input_path \in Path /\ dir[input_path] \in FileType
    BY DEF IInv, ScalarsFit, FilesFit
  <1>2. /\ dir[input_path].lines = loaded.lines
        /\ \A i \in DOMAIN index : index[i] \in DOMAIN loaded.lines
    BY <1>1 DEF IInv, LoadedFits
  <1>3. CurrentLines \in Seq(Record) /\ DOMAIN CurrentLines = DOMAIN dir[input_path].lines
    BY <1>1, RecordsFit DEF CurrentLines, FileType
  <1> QED
    BY <1>2, <1>3

\* While the file is the one indexed and can be opened, every row can be read.
LEMMA RowsAreReadable ==
    ASSUME IInv, status # "closed", ~lost, ~locked,
           dir[input_path] # NoFile, dir[input_path].stamp = stamp
    PROVE  Readable(rows)
  BY IndexedRecordsAreThere DEF Readable, IInv, TableFits, RowsFit

\* Types; edits are kept under names of columns; lookups use the names shown.  This
\* holds whatever other programs write, and whenever they write it.
THEOREM EngineStaysTyped == Spec => [](TypeOK /\ EditsNameColumns /\ HeadersFollowColumns)
  BY EngineInvariant, IInvConsistent, PTL

\* A save that passed the check of size and mtime finds every record it is to
\* write, as long as other programs leave the file alone until it is replaced.
THEOREM EngineStaysConsistent ==
    ASSUME ~MidSaveChanges
    PROVE  Spec => []EngineIsConsistent
  <1>1. ASSUME IInv
        PROVE  EngineIsConsistent
    <2>1. SaveFindsItsRows
      BY <1>1, RowsAreReadable DEF SaveFindsItsRows, IInv, CheckLasts
    <2> QED
      BY <1>1, <2>1, IInvConsistent DEF EngineIsConsistent
  <1> QED
    BY <1>1, EngineInvariant, PTL

----------------------------------------------------------------------------
(* Pages.                                                                  *)

\* The first items of a sequence, and all of them.
LEMMA SubSeqFromOne ==
    ASSUME NEW S, NEW s \in Seq(S), NEW n \in 0 .. Len(s)
    PROVE  SubSeq(s, 1, n) = [i \in 1 .. n |-> s[i]]
  <1>1. Len(s) \in Nat /\ n \in Nat
    BY LenProperties
  <1>2. SubSeq(s, 1, n) = [i \in 1 .. (n - 1 + 1) |-> s[i + 1 - 1]]
    OBVIOUS
  <1>3. n - 1 + 1 = n /\ \A i \in 1 .. n : i + 1 - 1 = i
    BY <1>1
  <1> QED
    BY <1>2, <1>3

\* All items of a sequence are the sequence.
LEMMA SubSeqWhole ==
    ASSUME NEW S, NEW s \in Seq(S)
    PROVE  SubSeq(s, 1, Len(s)) = s
  <1>1. Len(s) \in 0 .. Len(s) /\ DOMAIN s = 1 .. Len(s) /\ s = [i \in 1 .. Len(s) |-> s[i]]
    BY LenProperties
  <1> QED
    BY <1>1, SubSeqFromOne

\* A record of the file, cut or filled to the columns there are, is what the row
\* without edits shows in the file's own columns.
LEMMA DirectRow ==
    ASSUME IInv, status # "closed", NEW row \in RowType, row.cells = NoCells,
           NEW record \in Record, \A i \in DOMAIN columns : columns[i].src = i
    PROVE  SubSeq(PaddedTo(Len(columns), record), 1, Len(columns)) = RowValues(row, columns, record)
  <1> DEFINE n == Len(columns)
             m == Max({n, Len(record)})
             padded == PaddedTo(n, record)
             values == RowValues(row, columns, record)
  <1>1. columns \in Seq(ColumnType) /\ n \in 1 .. MaxWidth /\ DOMAIN columns = 1 .. n
        /\ ColumnsFit(columns) /\ MaxWidth \in Nat
    BY OpenTable, IndexedCsvAssumption, LenProperties
  <1>2. record \in Seq(Cell) /\ Len(record) \in 1 .. MaxWidth /\ DOMAIN record = 1 .. Len(record)
        /\ \A i \in 1 .. Len(record) : record[i] \in Cell
    BY LenProperties, ElementOfSeq DEF Record
  <1>3. m \in 1 .. MaxWidth /\ n <= m
    <2>1. {n, Len(record)} \subseteq 0 .. MaxWidth /\ {n, Len(record)} # {}
      BY <1>1, <1>2
    <2>2. m \in {n, Len(record)} /\ \A k \in {n, Len(record)} : k <= m
      BY <1>1, <2>1, MaxIsIn
    <2> QED
      BY <1>1, <1>2, <2>2
  <1>4. padded = [i \in 1 .. m |-> IF i <= Len(record) THEN record[i] ELSE Empty]
    BY DEF PaddedTo
  <1> HIDE DEF padded, m
  <1>5. ASSUME NEW i \in 1 .. m
        PROVE  /\ padded[i] = IF i <= Len(record) THEN record[i] ELSE Empty
               /\ padded[i] \in Cell
    <2>1. padded[i] = IF i <= Len(record) THEN record[i] ELSE Empty
      BY <1>4
    <2>2. CASE i <= Len(record)
      <3>1. i \in 1 .. Len(record)
        BY <1>2, <1>3, <2>2
      <3> QED
        BY <1>2, <2>1, <2>2, <3>1
    <2>3. CASE ~(i <= Len(record))
      BY <2>1, <2>3, IndexedCsvAssumption
    <2> QED
      BY <2>1, <2>2, <2>3
  <1>6. padded \in Seq(Cell) /\ Len(padded) = m
    <2>1. padded \in [1 .. m -> Cell]
      BY <1>4, <1>5
    <2>2. m \in Nat
      BY <1>3
    <2> QED
      BY <2>1, <2>2, MappedFits
  <1>7. /\ SubSeq(padded, 1, n) \in Seq(Cell) /\ Len(SubSeq(padded, 1, n)) = n
        /\ \A i \in 1 .. n : SubSeq(padded, 1, n)[i] = padded[i]
    <2>1. n \in 0 .. m /\ n \in Nat /\ 1 \in 1 .. n
      BY <1>1, <1>3
    <2>2. SubSeq(padded, 1, n) = [i \in 1 .. n |-> padded[i]]
      BY <1>6, <2>1, SubSeqFromOne
    <2>3. \A i \in 1 .. n : i \in 1 .. m
      BY <1>3, <2>1
    <2>4. [i \in 1 .. n |-> padded[i]] \in [1 .. n -> Cell]
      BY <1>5, <2>3
    <2>5. [i \in 1 .. n |-> padded[i]] \in Seq(Cell) /\ Len([i \in 1 .. n |-> padded[i]]) = n
      BY <2>1, <2>4, MappedFits
    <2> QED
      BY <2>2, <2>5
  <1>8. values \in Seq(Cell) /\ Len(values) = n /\ DOMAIN values = 1 .. n
    BY <1>1, <1>2, ValuesOf
  <1>9. ASSUME NEW i \in 1 .. n
        PROVE  values[i] = padded[i]
    <2>1. columns[i] \in ColumnType /\ columns[i].src = i /\ columns[i].default = Empty
      BY <1>1, ElementOfSeq DEF ColumnsFit
    <2>2. row.cells[columns[i].name] = NoEdit
      BY <2>1 DEF NoCells, Key, ColumnType
    <2>3. values[i] = IF row.cells[columns[i].name] # NoEdit THEN row.cells[columns[i].name]
                      ELSE IF columns[i].src \in DOMAIN record THEN record[columns[i].src]
                      ELSE columns[i].default
      BY <1>1 DEF RowValues
    <2>4. values[i] = IF i \in DOMAIN record THEN record[i] ELSE Empty
      BY <2>1, <2>2, <2>3
    <2>5. i \in 1 .. m /\ (i \in DOMAIN record <=> i <= Len(record))
      BY <1>1, <1>2, <1>3
    <2> QED
      BY <1>5, <2>4, <2>5
  <1> HIDE DEF values, padded
  <1>10. SubSeq(padded, 1, n) = values
    BY <1>1, <1>7, <1>8, <1>9, SeqEqual
  <1> QED
    BY <1>10 DEF padded, values

\* A page read straight from the file, and a page rendered row by row, show the
\* rows of the table, while the file is the one that was indexed.
LEMMA PageRow ==
    ASSUME IInv, Undisturbed, NEW offset \in 0 .. Len(rows), NEW count \in 1 .. Len(rows),
           offset + count <= Len(rows), NEW i \in 1 .. count
    PROVE  SubSeq(ReadRows(offset, count)[i], 1, Len(columns))
              = TableOf(columns, CurrentLines)[offset + i]
  <1> DEFINE n == Len(columns)
             table == TableOf(columns, CurrentLines)
             row == rows[offset + i]
  <1>1. /\ status = "open" /\ ~lost /\ ~locked
        /\ dir[input_path] # NoFile /\ dir[input_path].stamp = stamp
    BY DEF Undisturbed
  <1>2. /\ columns \in Seq(ColumnType) /\ n \in 1 .. MaxWidth /\ MaxWidth \in Nat
        /\ rows \in Seq(RowType) /\ Len(rows) \in Nat /\ DOMAIN rows = 1 .. Len(rows)
        /\ \A r \in 1 .. Len(rows) : GoodRow(rows[r], Names(columns))
    BY <1>1, OpenTable, IndexedCsvAssumption, LenProperties
  <1>3. /\ CurrentLines \in Seq(Record)
        /\ \A k \in DOMAIN index : index[k] \in DOMAIN CurrentLines
    BY <1>1, IndexedRecordsAreThere
  <1>4. ASSUME NEW r \in 1 .. Len(rows)
        PROVE  /\ table[r] = RowValues(rows[r], columns, SourceRecord(rows[r], CurrentLines))
               /\ table[r] \in Seq(Cell) /\ Len(table[r]) = n
    <2>1. rows[r] \in RowType /\ (rows[r].src # 0 => rows[r].src \in DOMAIN index)
      BY <1>2 DEF GoodRow
    <2>2. SourceRecord(rows[r], CurrentLines) \in Seq(Cell)
      BY <1>1, <1>3, <2>1, SourceRecordFits
    <2>3. table[r] = RowValues(rows[r], columns, SourceRecord(rows[r], CurrentLines))
      BY <1>2 DEF TableOf
    <2> QED
      BY <1>2, <2>1, <2>2, <2>3, ValuesOf
  <1>5. offset + i \in 1 .. Len(rows) /\ offset \in Nat /\ count \in Nat /\ i \in Nat
    BY <1>2
  <1>6. CASE DirectPage(offset, count)
    <2>1. /\ \A k \in DOMAIN columns : columns[k].src = k
          /\ row.src = rows[offset + 1].src + i - 1 /\ rows[offset + 1].src # 0
          /\ row.cells = NoCells
      BY <1>6 DEF DirectPage
    <2>2. row \in RowType /\ (row.src # 0 => row.src \in DOMAIN index)
      BY <1>2, <1>5 DEF GoodRow
    <2>3. rows[offset + 1] \in RowType
      <3>1. offset + 1 \in 1 .. Len(rows)
        BY <1>2, <1>5
      <3> QED
        BY <1>2, <3>1 DEF GoodRow
    <2>4. row.src # 0
      <3>1. rows[offset + 1].src \in Nat
        BY <2>3 DEF RowType
      <3> QED
        BY <1>5, <2>1, <3>1
    <2> DEFINE record == CurrentLines[index[row.src]]
    <2>5. record \in Record
      BY <1>3, <2>2, <2>4, LenProperties, ElementOfSeq
    <2>6. SourceRecord(row, CurrentLines) = record
      BY <2>4 DEF SourceRecord
    <2>7. ReadRows(offset, count)[i] = PaddedTo(n, record)
      BY <1>6 DEF ReadRows
    <2> HIDE DEF record
    <2>8. SubSeq(PaddedTo(n, record), 1, n) = RowValues(row, columns, record)
      BY <1>1, <2>1, <2>2, <2>5, DirectRow
    <2>9. table[offset + i] = RowValues(row, columns, record)
      BY <1>4, <1>5, <2>6
    <2> HIDE DEF table, row
    <2>10. SubSeq(ReadRows(offset, count)[i], 1, n) = table[offset + i]
      BY <2>7, <2>8, <2>9
    <2> QED
      BY <2>10 DEF table
  <1>7. CASE ~DirectPage(offset, count)
    <2>1. ReadRows(offset, count) = SubSeq(table, offset + 1, offset + count)
      BY <1>7 DEF ReadRows
    <2>2. table \in Seq(Seq(Cell)) /\ Len(table) = Len(rows)
      <3>1. DOMAIN table = 1 .. Len(rows) /\ table = [r \in 1 .. Len(rows) |-> table[r]]
        BY <1>2 DEF TableOf
      <3> HIDE DEF table
      <3>2. table \in [1 .. Len(rows) -> Seq(Cell)]
        BY <1>4, <3>1
      <3> QED
        BY <1>2, <3>2, MappedFits
    <2> HIDE DEF table
    <2>3. SubSeq(table, offset + 1, offset + count)[i] = table[offset + i]
      <3>1. offset + 1 \in 1 .. Len(table) + 1 /\ offset + count \in offset + 1 - 1 .. Len(table)
        BY <1>2, <1>5, <2>2
      <3>2. SubSeq(table, offset + 1, offset + count)
              = [k \in 1 .. (offset + count - (offset + 1) + 1) |-> table[k + (offset + 1) - 1]]
        OBVIOUS
      <3>3. i \in 1 .. (offset + count - (offset + 1) + 1) /\ i + (offset + 1) - 1 = offset + i
        BY <1>5
      <3> QED
        BY <3>2, <3>3
    <2>4. SubSeq(table[offset + i], 1, n) = table[offset + i]
      <3>1. table[offset + i] \in Seq(Cell) /\ Len(table[offset + i]) = n
        BY <1>4, <1>5
      <3> QED
        BY <3>1, SubSeqWhole
    <2>5. ReadRows(offset, count)[i] = table[offset + i]
      BY <2>1, <2>3
    <2>6. SubSeq(ReadRows(offset, count)[i], 1, n) = table[offset + i]
      BY <2>4, <2>5
    <2> QED
      BY <2>6 DEF table
  <1> QED
    BY <1>6, <1>7

\* Scrolling shows the table: a page the engine takes straight from the file, without
\* looking at the overlay row by row, is the page the overlay shows.
THEOREM PagesAlwaysShowTheTable == Spec => []PagesShowTheTable
  <1>1. ASSUME IInv
        PROVE  PagesShowTheTable
    <2>1. SUFFICES ASSUME Undisturbed, NEW page \in Pages
                   PROVE  \A i \in 1 .. page[2] :
                             SubSeq(ReadRows(page[1], page[2])[i], 1, Len(columns))
                                = TableOf(columns, CurrentLines)[page[1] + i]
      BY DEF PagesShowTheTable
    <2>2. page[1] \in 0 .. Len(rows) /\ page[2] \in 1 .. Len(rows) /\ page[1] + page[2] <= Len(rows)
      BY DEF Pages
    <2> QED
      BY <1>1, <2>1, <2>2, PageRow
  <1> QED
    BY <1>1, EngineInvariant, PTL

----------------------------------------------------------------------------
(* What a save replaces.                                                   *)

\* README: "Save refuses if the source file size or mtime changed after the viewer
\* opened".  With no failed reset before it, what it replaces is what was read.
SaveReplacesWhatWasRead ==
    status = "saving" /\ status' = "open" /\ dir' # dir /\ ~lost =>
        /\ dir[input_path].lines = loaded.lines
        /\ dir[input_path].dialect = loaded.dialect

\* A save replaces the file that was read, as long as other programs leave it alone
\* between the check of size and mtime and the rename.
THEOREM SavesReplaceWhatWasRead ==
    ASSUME ~MidSaveChanges
    PROVE  Spec => [][SaveReplacesWhatWasRead]_vars
  <1>1. ASSUME IInv
        PROVE  SaveReplacesWhatWasRead
    BY <1>1 DEF IInv, CheckLasts, LoadedFits, ScalarsFit, SaveReplacesWhatWasRead
  <1> QED
    BY <1>1, EngineInvariant, PTL

----------------------------------------------------------------------------
(* The operators of the document, on a table that is given by its parts.   *)

\* CsvDocument has its operators on sequences from the same modules, and its
\* labels and widths are those of the engine.
LEMMA SameInsertAt ==
    ASSUME NEW s, NEW i, NEW e
    PROVE  Document!InsertAt(s, i, e) = InsertAt(s, i, e)
  BY DEF Document!InsertAt, InsertAt

\* Removing an item, in the document and in the engine.
LEMMA SameRemoveAt ==
    ASSUME NEW s, NEW i
    PROVE  Document!RemoveAt(s, i) = RemoveAt(s, i)
  BY DEF Document!RemoveAt, RemoveAt

\* What sequences hold, the widest record and the labels are the same in both.
LEMMA SameOperators ==
    ASSUME NEW s
    PROVE  /\ Document!Range(s) = Range(s)
           /\ Document!IsInjective(s) = IsInjective(s)
           /\ Document!Width(s) = Width(s)
           /\ Document!Labels(s) = SyntheticHeaders(s)
  <1>1. Document!Range(s) = Range(s) /\ Document!IsInjective(s) = IsInjective(s)
    BY DEF Document!Range, Range, Document!IsInjective, IsInjective
  <1>2. Document!Width(s) = Width(s)
    BY DEF Document!Width, Width, Document!Max, Max
  <1>3. Document!Labels(s) = SyntheticHeaders(s)
    BY DEF Document!Labels, SyntheticHeaders
  <1> QED
    BY <1>1, <1>2, <1>3

Table(hdr, names, rws) == [header |-> hdr, names |-> names, rows |-> rws]

\* Changes of rows: a cell of a table.
LEMMA WithCellIs ==
    ASSUME NEW h, NEW n, NEW rs, NEW r, NEW name, NEW value
    PROVE  Document!WithCell(Table(h, n, rs), r, name, value)
             = Table(h, n, [rs EXCEPT ![r] = [c \in DOMAIN @ |-> IF n[c] = name THEN value
                                                                 ELSE @[c]]])
  BY DEF Document!WithCell, Table

\* A row added to a table.
LEMMA WithRowIs ==
    ASSUME NEW h, NEW n, NEW rs, NEW r, NEW values
    PROVE  Document!WithRow(Table(h, n, rs), r, values) = Table(h, n, InsertAt(rs, r, values))
  BY SameInsertAt DEF Document!WithRow, Table

\* A row taken from a table.
LEMMA WithoutRowIs ==
    ASSUME NEW h, NEW n, NEW rs, NEW r
    PROVE  Document!WithoutRow(Table(h, n, rs), r) = Table(h, n, RemoveAt(rs, r))
  BY SameRemoveAt DEF Document!WithoutRow, Table

\* Two rows of a table exchanged.
LEMMA SwappedRowsIs ==
    ASSUME NEW h, NEW n, NEW rs, NEW r, NEW s
    PROVE  Document!SwappedRows(Table(h, n, rs), r, s)
             = Table(h, n, [rs EXCEPT ![r] = rs[s], ![s] = rs[r]])
  <1> USE DEF Table
  <1> DEFINE t == Table(h, n, rs)
             a == [rs EXCEPT ![r] = rs[s]]
  <1>1. [t EXCEPT !.rows[r] = t.rows[s]] = Table(h, n, a)
    OBVIOUS
  <1>2. [Table(h, n, a) EXCEPT !.rows[s] = rs[r]] = Table(h, n, [a EXCEPT ![s] = rs[r]])
    OBVIOUS
  <1>3. Document!SwappedRows(t, r, s)
          = [[t EXCEPT !.rows[r] = t.rows[s]] EXCEPT !.rows[s] = t.rows[r]]
    BY DEF Document!SwappedRows
  <1>4. [rs EXCEPT ![r] = rs[s], ![s] = rs[r]] = [a EXCEPT ![s] = rs[r]]
    OBVIOUS
  <1> QED
    BY <1>1, <1>2, <1>3, <1>4

\* Changes of columns.
LEMMA WithColumnIs ==
    ASSUME NEW h \in BOOLEAN, NEW n, NEW rs, NEW c, NEW name, NEW value
    PROVE  Document!WithColumn(Table(h, n, rs), c, name, value)
             = Table(h, IF h THEN InsertAt(n, c, name)
                        ELSE SyntheticHeaders(Len(InsertAt(n, c, name))),
                     [i \in DOMAIN rs |-> InsertAt(rs[i], c, value)])
  BY SameOperators, SameInsertAt DEF Document!WithColumn, Document!Relabelled, Table

\* A column taken from a table: its name and its text in each row.
LEMMA WithoutColumnIs ==
    ASSUME NEW h \in BOOLEAN, NEW n, NEW rs, NEW c
    PROVE  Document!WithoutColumn(Table(h, n, rs), c)
             = Table(h, IF h THEN RemoveAt(n, c) ELSE SyntheticHeaders(Len(RemoveAt(n, c))),
                     [i \in DOMAIN rs |-> RemoveAt(rs[i], c)])
  BY SameOperators, SameRemoveAt DEF Document!WithoutColumn, Document!Relabelled, Table

\* A column of a table renamed: the rows keep their texts.
LEMMA RenamedIs ==
    ASSUME NEW h, NEW n, NEW rs, NEW c, NEW name
    PROVE  [Table(h, n, rs) EXCEPT !.names[c] = name] = Table(h, [n EXCEPT ![c] = name], rs)
  BY DEF Table

\* Changes of the header, and the columns in another order.
LEMMA HeaderShownIs ==
    ASSUME NEW h, NEW n, NEW rs
    PROVE  Document!HeaderShown(Table(h, n, rs))
             = Table(FALSE, SyntheticHeaders(Len(n)), <<n>> \o rs)
  BY SameOperators DEF Document!HeaderShown, Table

\* The first row of a table made its header.
LEMMA HeaderTakenIs ==
    ASSUME NEW h, NEW n, NEW rs, NEW names
    PROVE  Document!HeaderTaken(Table(h, n, rs), names) = Table(TRUE, names, Tail(rs))
  BY DEF Document!HeaderTaken, Table

\* The columns of a table in another order; labels stay A, B, C, ... without a header.
LEMMA OrderedIs ==
    ASSUME NEW h \in BOOLEAN, NEW n, NEW rs, NEW perm
    PROVE  Document!Ordered(Table(h, n, rs), perm)
             = Table(h, IF h THEN [c \in DOMAIN n |-> n[perm[c]]]
                        ELSE SyntheticHeaders(Len([c \in DOMAIN n |-> n[perm[c]]])),
                     [i \in DOMAIN rs |-> [c \in DOMAIN perm |-> rs[i][perm[c]]]])
  BY SameOperators DEF Document!Ordered, Document!Relabelled, Table

\* A table as the records a save writes.
LEMMA LinesIs ==
    ASSUME NEW h, NEW n, NEW rs
    PROVE  Document!Lines(Table(h, n, rs)) = IF h THEN <<n>> \o rs ELSE rs
  BY DEF Document!Lines, Table

----------------------------------------------------------------------------
(* The document the engine stands for.                                     *)

\* The records that were indexed, as they were read.
BaseLines == RecordsIn(loaded, format.dialect)

\* Rows rendered through columns over records of which the index has the numbers.
SourceIn(row, idx, lines) == IF row.src = 0 THEN <<>> ELSE lines[idx[row.src]]

Render(rws, cols, idx, lines) ==
    [r \in DOMAIN rws |-> RowValues(rws[r], cols, SourceIn(rws[r], idx, lines))]

Shown == [header |-> has_headers, names |-> Names(columns),
          rows |-> TableOf(columns, BaseLines)]

Base == [file |-> loaded.lines, lines |-> BaseLines, header |-> format.header,
         width |-> loaded.width]

Disk == [p \in Path |-> IF dir[p] = NoFile THEN NoFile ELSE dir[p].lines]

Phase == IF lost THEN "lost" ELSE status

\* An operation that leaves the file and what was read alone is a command.
LEMMA CommandStep ==
    ASSUME ~lost, status = "open", UNCHANGED <<dir, status, source>>, NEW t, Shown' = t
    PROVE  Document!Command(t)
  <1>1. (IF lost THEN "lost" ELSE status) = "open"
    OBVIOUS
  <1>2. UNCHANGED <<Disk, Phase, Base>>
    BY DEF source, Disk, Phase, Base, BaseLines, RecordsIn
  <1> QED
    BY <1>1, <1>2 DEF Document!Command, Shown, Disk, Phase, Base, BaseLines

\* The table that is shown, by its parts, before and after such an operation.
LEMMA ShownParts ==
    Shown = Table(has_headers, Names(columns), Render(rows, columns, index, BaseLines))
  BY DEF Shown, Table, Render, TableOf, SourceIn, SourceRecord

\* The table shown after an operation that leaves what was read alone.
LEMMA ShownNext ==
    ASSUME UNCHANGED source, NEW hdr, has_headers' = hdr, NEW cols, columns' = cols,
           NEW rws, rows' = rws
    PROVE  Shown' = Table(hdr, Names(cols), Render(rws, cols, index, BaseLines))
  BY DEF source, Shown, Table, Render, TableOf, RowValues, SourceIn, SourceRecord, Names,
         BaseLines, RecordsIn

\* The document's commands, on the table that is shown.
RowCommand ==
    \E r \in DOMAIN Shown.rows :
        \/ Document!Command(Document!WithoutRow(Shown, r))
        \/ \E s \in DOMAIN Shown.rows : Document!Command(Document!SwappedRows(Shown, r, s))
        \/ \E name \in Document!Range(Shown.names), value \in Cell :
              Document!Command(Document!WithCell(Shown, r, name, value))

NewRowCommand ==
    \E r \in 1 .. Len(Shown.rows) + 1 :
        \E values \in [DOMAIN Shown.names -> Cell] :
            Document!Command(Document!WithRow(Shown, r, values))

NewColumnCommand ==
    \E c \in 1 .. Len(Shown.names) + 1, name \in Cell, value \in Cell :
        /\ Len(Shown.names) < Len(Label)
        /\ Shown.header => name # Empty /\ name \notin Document!Range(Shown.names)
        /\ Document!Command(Document!WithColumn(Shown, c, name, value))

ColumnCommand ==
    \E c \in DOMAIN Shown.names :
        \/ Len(Shown.names) > 1 /\ Document!Command(Document!WithoutColumn(Shown, c))
        \/ \E name \in Cell \ (Document!Range(Shown.names) \cup {Empty}) :
              Shown.header /\ Document!Command([Shown EXCEPT !.names[c] = name])

HideCommand == Shown.header /\ Document!Command(Document!HeaderShown(Shown))

TakeCommand ==
    /\ ~Shown.header
    /\ Shown.rows # <<>>
    /\ \E names \in [DOMAIN Shown.names -> Cell] :
          /\ \A c \in DOMAIN names : names[c] \in Document!MayRead(Shown.rows[1][c])
          /\ Document!Distinct(names) /\ Document!Command(Document!HeaderTaken(Shown, names))

\* Each of these commands is one of the document's edits.
LEMMA CommandIsEdit ==
    ASSUME \/ RowCommand \/ NewRowCommand \/ NewColumnCommand \/ ColumnCommand
           \/ HideCommand \/ TakeCommand
    PROVE  Document!Edit
  BY DEF Document!Edit, Shown, BaseLines, RowCommand, NewRowCommand, NewColumnCommand,
         ColumnCommand, HideCommand, TakeCommand

----------------------------------------------------------------------------
(* Rows rendered.                                                          *)

\* What a row shows in a column: its edit, or the field of its record, or the default.
Field(row, c, record) ==
    IF row.cells[c.name] # NoEdit THEN row.cells[c.name]
    ELSE IF c.src \in DOMAIN record THEN record[c.src]
    ELSE c.default

\* A row has a text for each column, the one of that field.
LEMMA RowRendered ==
    ASSUME NEW row \in RowType, NEW cols \in Seq(KeyColumnType), NEW record \in Seq(Cell)
    PROVE  /\ RowValues(row, cols, record) \in Seq(Cell)
           /\ Len(RowValues(row, cols, record)) = Len(cols) /\ Len(cols) \in Nat
           /\ DOMAIN RowValues(row, cols, record) = 1 .. Len(cols)
           /\ \A i \in 1 .. Len(cols) :
                 /\ RowValues(row, cols, record)[i] = Field(row, cols[i], record)
                 /\ Field(row, cols[i], record) \in Cell
  <1> DEFINE n == Len(cols)
             t == RowValues(row, cols, record)
  <1>1. /\ n \in Nat /\ DOMAIN cols = 1 .. n /\ \A i \in 1 .. n : cols[i] \in KeyColumnType
        /\ \A i \in DOMAIN record : record[i] \in Cell
    BY LenProperties, ElementOfSeq
  <1>2. t = [i \in 1 .. n |-> Field(row, cols[i], record)]
    BY <1>1 DEF RowValues, Field
  <1>3. \A i \in 1 .. n : Field(row, cols[i], record) \in Cell
    <2> TAKE i \in 1 .. n
    <2>1. cols[i].name \in Key /\ cols[i].default \in Cell
      BY <1>1 DEF KeyColumnType
    <2>2. row.cells[cols[i].name] \in Cell \cup {NoEdit}
      BY <2>1 DEF RowType, Texts
    <2> QED
      BY <1>1, <2>1, <2>2 DEF Field
  <1>4. t \in [1 .. n -> Cell] /\ \A i \in 1 .. n : t[i] = Field(row, cols[i], record)
    BY <1>2, <1>3
  <1> HIDE DEF t
  <1> QED
    BY <1>1, <1>3, <1>4, MappedFits DEF t

\* Rows whose records are there are rendered one by one.
LEMMA RowsRendered ==
    ASSUME NEW rws \in Seq(RowType), NEW cols \in Seq(KeyColumnType), NEW idx, NEW lines,
           \A r \in 1 .. Len(rws) : SourceIn(rws[r], idx, lines) \in Seq(Cell)
    PROVE  /\ Render(rws, cols, idx, lines) \in Seq(Seq(Cell))
           /\ Len(Render(rws, cols, idx, lines)) = Len(rws) /\ Len(rws) \in Nat
           /\ DOMAIN Render(rws, cols, idx, lines) = 1 .. Len(rws)
           /\ \A r \in 1 .. Len(rws) :
                 Render(rws, cols, idx, lines)[r]
                   = RowValues(rws[r], cols, SourceIn(rws[r], idx, lines))
  <1> DEFINE n == Len(rws)
             t == Render(rws, cols, idx, lines)
  <1>1. n \in Nat /\ DOMAIN rws = 1 .. n /\ \A r \in 1 .. n : rws[r] \in RowType
    BY LenProperties, ElementOfSeq
  <1>2. t = [r \in 1 .. n |-> RowValues(rws[r], cols, SourceIn(rws[r], idx, lines))]
    BY <1>1 DEF Render
  <1>3. \A r \in 1 .. n : RowValues(rws[r], cols, SourceIn(rws[r], idx, lines)) \in Seq(Cell)
    BY <1>1, RowRendered
  <1>4. /\ t \in [1 .. n -> Seq(Cell)]
        /\ \A r \in 1 .. n : t[r] = RowValues(rws[r], cols, SourceIn(rws[r], idx, lines))
    BY <1>2, <1>3
  <1> HIDE DEF t
  <1> QED
    BY <1>1, <1>4, MappedFits DEF t

\* Texts that are those of the fields are what is rendered.
Shows(t, rws, cols, idx, lines) ==
    /\ t \in Seq(Seq(Cell)) /\ Len(t) = Len(rws)
    /\ \A r \in 1 .. Len(rws) :
          /\ SourceIn(rws[r], idx, lines) \in Seq(Cell)
          /\ Len(t[r]) = Len(cols)
          /\ \A i \in 1 .. Len(cols) :
                t[r][i] = Field(rws[r], cols[i], SourceIn(rws[r], idx, lines))

\* There is one table of texts that are those of the fields: the one rendered.
LEMMA RenderedIs ==
    ASSUME NEW rws \in Seq(RowType), NEW cols \in Seq(KeyColumnType), NEW idx, NEW lines, NEW t,
           Shows(t, rws, cols, idx, lines)
    PROVE  Render(rws, cols, idx, lines) = t
  <1> USE DEF Shows
  <1> DEFINE s == Render(rws, cols, idx, lines)
  <1>1. /\ s \in Seq(Seq(Cell)) /\ Len(s) = Len(rws) /\ Len(rws) \in Nat
        /\ \A r \in 1 .. Len(rws) : s[r] = RowValues(rws[r], cols, SourceIn(rws[r], idx, lines))
    BY RowsRendered
  <1>2. /\ \A r \in 1 .. Len(rws) : rws[r] \in RowType
        /\ \A r \in 1 .. Len(t) : t[r] \in Seq(Cell)
    BY LenProperties, ElementOfSeq
  <1> HIDE DEF s
  <1>3. ASSUME NEW r \in 1 .. Len(rws) PROVE s[r] = t[r]
    <2> DEFINE v == RowValues(rws[r], cols, SourceIn(rws[r], idx, lines))
    <2>1. /\ v \in Seq(Cell) /\ Len(v) = Len(cols) /\ Len(cols) \in Nat
          /\ \A i \in 1 .. Len(cols) :
                v[i] = Field(rws[r], cols[i], SourceIn(rws[r], idx, lines))
      BY <1>2, RowRendered
    <2>2. t[r] \in Seq(Cell)
      BY <1>2
    <2> HIDE DEF v
    <2>3. v = t[r]
      BY <2>1, <2>2, SeqEqual
    <2> QED
      BY <1>1, <2>3 DEF v
  <1>4. s = t
    BY <1>1, <1>3, SeqEqual
  <1> QED
    BY <1>4 DEF s

\* The record of a row that was indexed is there, as it was read.
LEMMA SourceFits ==
    ASSUME IInv, status # "closed", ~lost, NEW row \in RowType,
           row.src # 0 => row.src \in DOMAIN index
    PROVE  /\ SourceIn(row, index, BaseLines) \in Seq(Cell)
           /\ BaseLines \in Seq(Record)
           /\ row.src # 0 => index[row.src] \in DOMAIN BaseLines
  <1>1. loaded.lines \in Seq(Record)
    BY DEF IInv, ScalarsFit, LoadedType
  <1>2. BaseLines \in Seq(Record) /\ DOMAIN BaseLines = DOMAIN loaded.lines
    BY <1>1, RecordsFit DEF BaseLines
  <1>3. CASE row.src = 0
    BY <1>2, <1>3, EmptySeq DEF SourceIn
  <1>4. CASE row.src # 0
    <2>1. index[row.src] \in DOMAIN BaseLines
      BY <1>2, <1>4 DEF IInv, LoadedFits
    <2>2. BaseLines[index[row.src]] \in Record
      BY <1>2, <2>1, LenProperties, ElementOfSeq
    <2> QED
      BY <1>2, <1>4, <2>1, <2>2 DEF SourceIn, Record
  <1> QED
    BY <1>3, <1>4

\* The table that is shown has a row for each of rows and a text for each of columns.
LEMMA ShownFits ==
    ASSUME IInv, status # "closed", ~lost
    PROVE  /\ Shown.header = has_headers /\ Shown.names = Names(columns)
           /\ Shown.rows = Render(rows, columns, index, BaseLines)
           /\ Shown.rows \in Seq(Seq(Cell)) /\ Len(Shown.rows) = Len(rows)
           /\ DOMAIN Shown.rows = 1 .. Len(rows)
           /\ \A r \in 1 .. Len(rows) :
                 /\ SourceIn(rows[r], index, BaseLines) \in Seq(Cell)
                 /\ Shown.rows[r] \in Seq(Cell) /\ Len(Shown.rows[r]) = Len(columns)
                 /\ DOMAIN Shown.rows[r] = 1 .. Len(columns)
                 /\ \A i \in 1 .. Len(columns) :
                       /\ Shown.rows[r][i]
                            = Field(rows[r], columns[i], SourceIn(rows[r], index, BaseLines))
                       /\ Shown.rows[r][i] \in Cell
  <1>1. Shown = Table(has_headers, Names(columns), Render(rows, columns, index, BaseLines))
    BY ShownParts
  <1>2. /\ columns \in Seq(KeyColumnType) /\ rows \in Seq(RowType)
        /\ \A r \in 1 .. Len(rows) : GoodRow(rows[r], Names(columns))
    BY OpenTable, NamesOfColumns
  <1>3. \A r \in 1 .. Len(rows) :
           rows[r] \in RowType /\ SourceIn(rows[r], index, BaseLines) \in Seq(Cell)
    BY <1>2, SourceFits DEF GoodRow
  <1>4. /\ Shown.header = has_headers /\ Shown.names = Names(columns)
        /\ Shown.rows = Render(rows, columns, index, BaseLines)
    BY <1>1 DEF Table
  <1>5. /\ Shown.rows \in Seq(Seq(Cell)) /\ Len(Shown.rows) = Len(rows)
        /\ DOMAIN Shown.rows = 1 .. Len(rows)
        /\ \A r \in 1 .. Len(rows) :
              Shown.rows[r] = RowValues(rows[r], columns, SourceIn(rows[r], index, BaseLines))
    BY <1>2, <1>3, <1>4, RowsRendered
  <1> QED
    BY <1>2, <1>3, <1>4, <1>5, RowRendered

----------------------------------------------------------------------------
(* Commands on rows.                                                       *)

\* A change of columns and rows is the command that leaves what they render.
LEMMA ChangedIsCommand ==
    ASSUME ~lost, Editable, NEW cols, NEW rws, Changed(cols, rws)
    PROVE  Document!Command(Table(has_headers, Names(cols), Render(rws, cols, index, BaseLines)))
  <1>1. /\ UNCHANGED <<dir, status, source>> /\ columns' = cols /\ rows' = rws
        /\ has_headers' = has_headers /\ status = "open"
    BY DEF Changed, files, Editable
  <1>2. Shown' = Table(has_headers, Names(cols), Render(rws, cols, index, BaseLines))
    BY <1>1, ShownNext
  <1> QED
    BY <1>1, <1>2, CommandStep

\* The same for rows whose fields are known.
LEMMA RowsChangedAre ==
    ASSUME IInv, ~lost, Editable, NEW rws \in Seq(RowType), Changed(columns, rws),
           NEW t, Shows(t, rws, columns, index, BaseLines)
    PROVE  Document!Command(Table(has_headers, Names(columns), t))
  <1>1. columns \in Seq(KeyColumnType)
    BY OpenTable, NamesOfColumns DEF Editable
  <1>2. Render(rws, columns, index, BaseLines) = t
    BY <1>1, RenderedIs
  <1> QED
    BY <1>2, ChangedIsCommand

\* An edit is under the name of the column, whatever the row was read from.
LEMMA EditCellStep ==
    ASSUME IInv, ~lost, NEW r \in RowIndex, NEW name \in Range(headers), NEW value \in Typed,
           EditCell(r, name, value)
    PROVE  Document!Edit
  <1> DEFINE rws == [rows EXCEPT ![r].cells[name] = value]
             n == Names(columns)
             t == [Shown.rows EXCEPT ![r] = [c \in DOMAIN @ |-> IF n[c] = name THEN value ELSE @[c]]]
  <1>1. /\ Editable /\ status # "closed" /\ Changed(columns, rws)
    BY DEF EditCell, Editable
  <1>2. /\ columns \in Seq(ColumnType) /\ rows \in Seq(RowType) /\ Len(rows) \in Nat
        /\ DOMAIN rows = 1 .. Len(rows) /\ headers = n
        /\ \A q \in 1 .. Len(rows) : rows[q] \in RowType
    BY <1>1, OpenTable DEF GoodRow
  <1>3. /\ value \in Cell /\ value # NoEdit /\ name \in Cell /\ r \in 1 .. Len(rows)
    <2>1. name \in Cell
      BY <1>2, NamesOfColumns DEF Range
    <2> QED
      BY <1>2, <2>1, IndexedCsvAssumption DEF RowIndex
  <1>4. /\ rws \in Seq(RowType) /\ Len(rws) = Len(rows)
        /\ \A q \in 1 .. Len(rows) : rws[q].src = rows[q].src /\ (q # r => rws[q] = rows[q])
        /\ \A k \in Key : rws[r].cells[k] = IF k = name THEN value ELSE rows[r].cells[k]
    <2>1. /\ rows[r].cells \in [Key -> Texts] /\ rows[r].src \in Nat
          /\ name \in Key /\ value \in Texts
      BY <1>2, <1>3 DEF RowType, Key, Texts
    <2> DEFINE cells == [rows[r].cells EXCEPT ![name] = value]
               row == [rows[r] EXCEPT !.cells = cells]
    <2>2. /\ cells \in [Key -> Texts]
          /\ \A k \in Key : cells[k] = IF k = name THEN value ELSE rows[r].cells[k]
      BY <2>1
    <2>3. rws = [rows EXCEPT ![r] = row]
      OBVIOUS
    <2> HIDE DEF cells
    <2>4. row \in RowType /\ row.src = rows[r].src /\ row.cells = cells
      BY <1>2, <1>3, <2>2 DEF RowType
    <2> HIDE DEF row, rws
    <2>5. rws \in Seq(RowType) /\ Len(rws) = Len(rows)
      BY <1>2, <1>3, <2>3, <2>4, ExceptSeq
    <2> QED
      BY <1>2, <1>3, <2>2, <2>3, <2>4, <2>5
  <1> HIDE DEF rws
  <1>5. \A q \in 1 .. Len(rows) : SourceIn(rws[q], index, BaseLines)
                                    = SourceIn(rows[q], index, BaseLines)
    BY <1>4 DEF SourceIn
  <1>6. /\ t \in Seq(Seq(Cell)) /\ Len(t) = Len(rows)
        /\ \A q \in 1 .. Len(rows) :
              /\ Len(t[q]) = Len(columns)
              /\ \A i \in 1 .. Len(columns) :
                    t[q][i] = IF q = r /\ n[i] = name THEN value ELSE Shown.rows[q][i]
    <2> DEFINE s == Shown.rows
               v == [c \in DOMAIN s[r] |-> IF n[c] = name THEN value ELSE s[r][c]]
    <2>1. /\ s \in Seq(Seq(Cell)) /\ Len(s) = Len(rows) /\ DOMAIN s = 1 .. Len(rows)
          /\ \A q \in 1 .. Len(rows) : Len(s[q]) = Len(columns) /\ DOMAIN s[q] = 1 .. Len(columns)
          /\ \A i \in 1 .. Len(columns) : s[r][i] \in Cell
      BY <1>1, <1>3, ShownFits
    <2>2. Len(columns) \in Nat
      BY <1>2, NamesOfColumns
    <2> HIDE DEF s
    <2>3. v \in [1 .. Len(columns) -> Cell]
          /\ \A i \in 1 .. Len(columns) : v[i] = IF n[i] = name THEN value ELSE s[r][i]
      BY <1>3, <2>1
    <2>4. t = [s EXCEPT ![r] = v]
      BY DEF s
    <2> HIDE DEF v
    <2>5. v \in Seq(Cell) /\ Len(v) = Len(columns)
      BY <2>2, <2>3, MappedFits
    <2> HIDE DEF t
    <2>6. t \in Seq(Seq(Cell)) /\ Len(t) = Len(s)
      BY <1>3, <2>1, <2>4, <2>5, ExceptSeq
    <2>7. \A q \in 1 .. Len(rows) : t[q] = IF q = r THEN v ELSE s[q]
      BY <2>1, <2>4
    <2> QED
      BY <2>1, <2>3, <2>5, <2>6, <2>7 DEF s
  <1> HIDE DEF t
  <1>7. \A q \in 1 .. Len(rows) : \A i \in 1 .. Len(columns) :
           t[q][i] = Field(rws[q], columns[i], SourceIn(rws[q], index, BaseLines))
    <2> TAKE q \in 1 .. Len(rows)
    <2> TAKE i \in 1 .. Len(columns)
    <2>1. columns[i].name \in Key /\ n[i] = columns[i].name
      <3>1. columns \in Seq(ColumnType) /\ n[i] = columns[i].name
        BY <1>2, NamesOfColumns
      <3>2. columns[i] \in ColumnType
        BY <3>1, ElementOfSeq
      <3> QED
        BY <3>1, <3>2 DEF ColumnType, Key
    <2>2. Shown.rows[q][i] = Field(rows[q], columns[i], SourceIn(rows[q], index, BaseLines))
      BY <1>1, ShownFits
    <2>3. CASE q = r
      BY <1>3, <1>4, <1>5, <1>6, <2>1, <2>2, <2>3 DEF Field
    <2>4. CASE q # r
      BY <1>4, <1>6, <2>2, <2>4
    <2> QED
      BY <2>3, <2>4
  <1>8. \A q \in 1 .. Len(rws) : SourceIn(rws[q], index, BaseLines) \in Seq(Cell)
    BY <1>1, <1>4, <1>5, ShownFits
  <1>9. Document!Command(Table(has_headers, n, t))
    BY <1>1, <1>4, <1>6, <1>7, <1>8, RowsChangedAre DEF Shows
  <1>10. Document!WithCell(Shown, r, name, value) = Table(has_headers, n, t)
    <2>1. Shown = Table(has_headers, n, Shown.rows)
      BY ShownParts DEF Table
    <2> QED
      BY <2>1, WithCellIs DEF t
  <1>11. r \in DOMAIN Shown.rows /\ name \in Document!Range(Shown.names) /\ value \in Cell
    BY <1>1, <1>2, <1>3, ShownFits, SameOperators
  <1> QED
    BY <1>9, <1>10, <1>11, CommandIsEdit DEF RowCommand

\* The rows behind a deleted one move up.
LEMMA DeleteRowStep ==
    ASSUME IInv, ~lost, NEW r \in RowIndex, DeleteRow(r)
    PROVE  Document!Edit
  <1> DEFINE rws == RemoveAt(rows, r)
             t == RemoveAt(Shown.rows, r)
  <1>1. /\ Editable /\ status # "closed" /\ Changed(columns, rws)
    BY DEF DeleteRow, Editable
  <1>2. rows \in Seq(RowType) /\ r \in 1 .. Len(rows) /\ Len(rows) \in Nat
    BY <1>1, OpenTable DEF RowIndex
  <1>3. /\ rws \in Seq(RowType) /\ Len(rws) = Len(rows) - 1
        /\ \A q \in 1 .. Len(rows) - 1 : rws[q] = IF q < r THEN rows[q] ELSE rows[q + 1]
    BY <1>2, RemoveAtFits
  <1>4. /\ t \in Seq(Seq(Cell)) /\ Len(t) = Len(rows) - 1
        /\ \A q \in 1 .. Len(rows) - 1 : t[q] = IF q < r THEN Shown.rows[q] ELSE Shown.rows[q + 1]
    <2> DEFINE u == Shown.rows
    <2>1. u \in Seq(Seq(Cell)) /\ Len(u) = Len(rows)
      BY <1>1, ShownFits
    <2> HIDE DEF u
    <2>2. r \in 1 .. Len(u)
      BY <1>2, <2>1
    <2>3. /\ RemoveAt(u, r) \in Seq(Seq(Cell)) /\ Len(RemoveAt(u, r)) = Len(u) - 1
          /\ \A q \in 1 .. Len(u) - 1 :
                RemoveAt(u, r)[q] = IF q < r THEN u[q] ELSE u[q + 1]
      BY <2>1, <2>2, RemoveAtFits
    <2> QED
      BY <2>1, <2>3 DEF u
  <1> HIDE DEF rws, t
  <1>5. ASSUME NEW q \in 1 .. Len(rws)
        PROVE  /\ SourceIn(rws[q], index, BaseLines) \in Seq(Cell)
               /\ Len(t[q]) = Len(columns)
               /\ \A i \in 1 .. Len(columns) :
                     t[q][i] = Field(rws[q], columns[i], SourceIn(rws[q], index, BaseLines))
    <2> DEFINE p == IF q < r THEN q ELSE q + 1
    <2>0. q \in 1 .. Len(rows) - 1
      BY <1>3
    <2>1. p \in 1 .. Len(rows) /\ rws[q] = rows[p] /\ t[q] = Shown.rows[p]
      <3>1. CASE q < r
        <4>1. p = q /\ q \in 1 .. Len(rows)
          BY <1>2, <2>0, <3>1
        <4>2. rws[q] = rows[q] /\ t[q] = Shown.rows[q]
          BY <1>3, <1>4, <2>0, <3>1
        <4> QED
          BY <4>1, <4>2
      <3>2. CASE ~(q < r)
        <4>1. p = q + 1 /\ q + 1 \in 1 .. Len(rows)
          BY <1>2, <2>0, <3>2
        <4>2. rws[q] = rows[q + 1] /\ t[q] = Shown.rows[q + 1]
          BY <1>3, <1>4, <2>0, <3>2
        <4> QED
          BY <4>1, <4>2
      <3> QED
        BY <3>1, <3>2
    <2> HIDE DEF p
    <2> QED
      BY <1>1, <2>1, ShownFits
  <1>6. Document!Command(Table(has_headers, Names(columns), t))
    BY <1>1, <1>3, <1>4, <1>5, RowsChangedAre DEF Shows
  <1>7. Document!WithoutRow(Shown, r) = Table(has_headers, Names(columns), t)
    <2>1. Shown = Table(has_headers, Names(columns), Shown.rows)
      BY ShownParts DEF Table
    <2> QED
      BY <2>1, WithoutRowIs DEF t
  <1>8. r \in DOMAIN Shown.rows
    BY <1>1, <1>2, ShownFits
  <1> QED
    BY <1>6, <1>7, <1>8, CommandIsEdit DEF RowCommand

\* Two rows change places.
LEMMA SwapRowsStep ==
    ASSUME IInv, ~lost, NEW r \in RowIndex, NEW s \in RowIndex, SwapRows(r, s)
    PROVE  Document!Edit
  <1> DEFINE rws == [rows EXCEPT ![r] = rows[s], ![s] = rows[r]]
             t == [Shown.rows EXCEPT ![r] = Shown.rows[s], ![s] = Shown.rows[r]]
  <1>1. /\ Editable /\ status # "closed" /\ Changed(columns, rws)
    BY DEF SwapRows, Editable
  <1>2. /\ rows \in Seq(RowType) /\ r \in 1 .. Len(rows) /\ s \in 1 .. Len(rows)
        /\ Len(rows) \in Nat /\ DOMAIN rows = 1 .. Len(rows)
    BY <1>1, OpenTable DEF RowIndex
  <1> DEFINE at == [q \in 1 .. Len(rows) |-> IF q = s THEN r ELSE IF q = r THEN s ELSE q]
  <1>3. \A q \in 1 .. Len(rows) : at[q] \in 1 .. Len(rows)
    BY <1>2
  <1>4. /\ rws \in Seq(RowType) /\ Len(rws) = Len(rows)
        /\ \A q \in 1 .. Len(rows) : rws[q] = rows[at[q]]
    <2>1. \A q \in 1 .. Len(rows) : rws[q] = rows[at[q]] /\ rows[q] \in RowType
      BY <1>2, ElementOfSeq
    <2>2. rws = [q \in 1 .. Len(rows) |-> rws[q]]
      BY <1>2
    <2> HIDE DEF rws, at
    <2>3. rws \in [1 .. Len(rows) -> RowType]
      BY <1>3, <2>1, <2>2
    <2> QED
      BY <1>2, <2>1, <2>3, MappedFits
  <1>5. /\ t \in Seq(Seq(Cell)) /\ Len(t) = Len(rows)
        /\ \A q \in 1 .. Len(rows) : t[q] = Shown.rows[at[q]]
    <2> DEFINE u == Shown.rows
    <2>1. /\ u \in Seq(Seq(Cell)) /\ DOMAIN u = 1 .. Len(rows)
          /\ \A q \in 1 .. Len(rows) : u[q] \in Seq(Cell)
      BY <1>1, ShownFits
    <2> HIDE DEF u
    <2>2. t = [u EXCEPT ![r] = u[s], ![s] = u[r]]
      BY DEF u
    <2> HIDE DEF t
    <2>3. \A q \in 1 .. Len(rows) : t[q] = u[at[q]]
      BY <1>2, <2>1, <2>2
    <2>4. t = [q \in 1 .. Len(rows) |-> t[q]]
      BY <2>1, <2>2
    <2> HIDE DEF at
    <2>5. t \in [1 .. Len(rows) -> Seq(Cell)]
      BY <1>3, <2>1, <2>3, <2>4
    <2> QED
      BY <1>2, <2>3, <2>5, MappedFits DEF u
  <1> HIDE DEF rws, t, at
  <1>6. ASSUME NEW q \in 1 .. Len(rws)
        PROVE  /\ SourceIn(rws[q], index, BaseLines) \in Seq(Cell)
               /\ Len(t[q]) = Len(columns)
               /\ \A i \in 1 .. Len(columns) :
                     t[q][i] = Field(rws[q], columns[i], SourceIn(rws[q], index, BaseLines))
    <2>1. at[q] \in 1 .. Len(rows) /\ rws[q] = rows[at[q]] /\ t[q] = Shown.rows[at[q]]
      BY <1>3, <1>4, <1>5
    <2> QED
      BY <1>1, <2>1, ShownFits
  <1>7. Document!Command(Table(has_headers, Names(columns), t))
    BY <1>1, <1>4, <1>5, <1>6, RowsChangedAre DEF Shows
  <1>8. Document!SwappedRows(Shown, r, s) = Table(has_headers, Names(columns), t)
    <2>1. Shown = Table(has_headers, Names(columns), Shown.rows)
      BY ShownParts DEF Table
    <2> QED
      BY <2>1, SwappedRowsIs DEF t
  <1>9. r \in DOMAIN Shown.rows /\ s \in DOMAIN Shown.rows
    BY <1>1, <1>2, ShownFits
  <1> QED
    BY <1>7, <1>8, <1>9, CommandIsEdit DEF RowCommand

\* A new row shows what was typed, or, under a name that several columns have, what
\* was typed for the last of them.
LEMMA InsertRowStep ==
    ASSUME IInv, ~lost, NEW r \in 1 .. Len(rows) + 1, NEW values \in [DOMAIN headers -> Typed],
           InsertRow(r, values)
    PROVE  Document!Edit
  <1> DEFINE Of(k) == {i \in DOMAIN headers : headers[i] = k}
             cells == [k \in Key |-> IF k \in Range(headers) THEN values[Max(Of(k))] ELSE NoEdit]
             row == [src |-> 0, cells |-> cells]
             rws == InsertAt(rows, r, row)
             v == [i \in 1 .. Len(columns) |-> cells[headers[i]]]
             t == InsertAt(Shown.rows, r, v)
  <1>1. /\ Editable /\ status # "closed" /\ Changed(columns, rws)
    BY DEF InsertRow, Editable
  <1>2. /\ columns \in Seq(ColumnType) /\ rows \in Seq(RowType) /\ Len(rows) \in Nat
        /\ headers = Names(columns)
    BY <1>1, OpenTable
  <1>3. /\ headers \in Seq(Cell) /\ DOMAIN headers = 1 .. Len(columns) /\ Len(columns) \in Nat
        /\ \A i \in 1 .. Len(columns) : headers[i] = columns[i].name /\ headers[i] \in Cell
        /\ DOMAIN columns = 1 .. Len(columns)
    BY <1>2, NamesOfColumns, ElementOfSeq
  <1>4. \A k \in Range(headers) : values[Max(Of(k))] \in Cell
    <2> TAKE k \in Range(headers)
    <2> DEFINE S == Of(k)
    <2>1. S \subseteq 0 .. Len(columns) /\ S # {} /\ S \subseteq DOMAIN headers
      BY <1>3 DEF Range
    <2>2. Max(S) \in S
      <3> HIDE DEF S
      <3> QED
        BY <1>3, <2>1, MaxIsIn
    <2> HIDE DEF S
    <2>3. Max(S) \in DOMAIN headers
      BY <2>1, <2>2
    <2> QED
      BY <2>3, IndexedCsvAssumption DEF S
  <1> HIDE DEF Of
  <1>5. /\ cells \in [Key -> Texts]
        /\ \A i \in 1 .. Len(columns) : cells[headers[i]] \in Cell
    <2>1. \A i \in 1 .. Len(columns) : headers[i] \in Range(headers) /\ headers[i] \in Key
      BY <1>3 DEF Range, Key
    <2> QED
      BY <1>4, <2>1 DEF Texts
  <1> HIDE DEF cells
  <1>6. row \in RowType /\ row.src = 0 /\ row.cells = cells
    BY <1>5 DEF RowType
  <1>7. v \in Seq(Cell) /\ Len(v) = Len(columns)
        /\ \A i \in 1 .. Len(columns) : v[i] = cells[columns[i].name] /\ v[i] # NoEdit
    <2>1. v \in [1 .. Len(columns) -> Cell]
      BY <1>5
    <2>2. \A i \in 1 .. Len(columns) : v[i] = cells[columns[i].name] /\ v[i] # NoEdit
      BY <1>3, <1>5, IndexedCsvAssumption
    <2> HIDE DEF v
    <2> QED
      BY <1>3, <2>1, <2>2, MappedFits
  <1> HIDE DEF row, v
  <1>8. /\ rws \in Seq(RowType) /\ Len(rws) = Len(rows) + 1
        /\ \A q \in 1 .. Len(rows) + 1 :
              rws[q] = IF q < r THEN rows[q] ELSE IF q = r THEN row ELSE rows[q - 1]
    BY <1>2, <1>6, InsertAtFits
  <1>9. /\ t \in Seq(Seq(Cell)) /\ Len(t) = Len(rows) + 1
        /\ \A q \in 1 .. Len(rows) + 1 :
              t[q] = IF q < r THEN Shown.rows[q] ELSE IF q = r THEN v ELSE Shown.rows[q - 1]
    <2> DEFINE u == Shown.rows
    <2>1. u \in Seq(Seq(Cell)) /\ Len(u) = Len(rows)
      BY <1>1, ShownFits
    <2> HIDE DEF u
    <2>2. /\ InsertAt(u, r, v) \in Seq(Seq(Cell)) /\ Len(InsertAt(u, r, v)) = Len(rows) + 1
          /\ \A q \in 1 .. Len(rows) + 1 :
                InsertAt(u, r, v)[q] = IF q < r THEN u[q] ELSE IF q = r THEN v ELSE u[q - 1]
      BY <1>7, <2>1, InsertAtFits
    <2> QED
      BY <2>2 DEF u
  <1> HIDE DEF rws, t
  <1>10. ASSUME NEW q \in 1 .. Len(rws)
         PROVE  /\ SourceIn(rws[q], index, BaseLines) \in Seq(Cell)
                /\ Len(t[q]) = Len(columns)
                /\ \A i \in 1 .. Len(columns) :
                      t[q][i] = Field(rws[q], columns[i], SourceIn(rws[q], index, BaseLines))
    <2>1. CASE q = r
      <3>1. rws[q] = row /\ t[q] = v
        BY <1>8, <1>9, <2>1
      <3>2. SourceIn(row, index, BaseLines) \in Seq(Cell)
        BY <1>6, EmptySeq DEF SourceIn
      <3>3. \A i \in 1 .. Len(columns) :
               v[i] = Field(row, columns[i], SourceIn(row, index, BaseLines))
        BY <1>6, <1>7 DEF Field
      <3> QED
        BY <1>7, <3>1, <3>2, <3>3
    <2>2. CASE q # r
      <3> DEFINE p == IF q < r THEN q ELSE q - 1
      <3>1. p \in 1 .. Len(rows) /\ rws[q] = rows[p] /\ t[q] = Shown.rows[p]
        BY <1>2, <1>8, <1>9, <2>2
      <3> HIDE DEF p
      <3> QED
        BY <1>1, <3>1, ShownFits
    <2> QED
      BY <2>1, <2>2
  <1>11. Document!Command(Table(has_headers, Names(columns), t))
    BY <1>1, <1>8, <1>9, <1>10, RowsChangedAre DEF Shows
  <1>12. Document!WithRow(Shown, r, v) = Table(has_headers, Names(columns), t)
    <2>1. Shown = Table(has_headers, Names(columns), Shown.rows)
      BY ShownParts DEF Table
    <2> QED
      BY <2>1, WithRowIs DEF t
  <1>13. r \in 1 .. Len(Shown.rows) + 1 /\ v \in [DOMAIN Shown.names -> Cell]
    <2>1. v \in [1 .. Len(columns) -> Cell]
      BY <1>3, <1>5 DEF v
    <2> QED
      BY <1>1, <1>2, <1>3, <2>1, ShownFits
  <1> QED
    BY <1>11, <1>12, <1>13, CommandIsEdit DEF NewRowCommand

----------------------------------------------------------------------------
(* Commands on columns.                                                    *)

\* The edits of a row, moved to the names the columns get.
CellsFollow(row, cols, names) ==
    [k \in Key |->
       LET from == {j \in DOMAIN cols : names[j] = k /\ row.cells[cols[j].name] # NoEdit}
       IN IF from = {} THEN NoEdit ELSE row.cells[cols[Max(from)].name]]

\* A row whose edits follow the columns to different names shows what it showed.
LEMMA RelabelledField ==
    ASSUME NEW row \in RowType, NEW cols \in Seq(KeyColumnType), NEW names \in Seq(Cell),
           Len(names) = Len(cols), IsInjective(names), NEW i \in 1 .. Len(cols)
    PROVE  CellsFollow(row, cols, names)[names[i]] = row.cells[cols[i].name]
  <1> DEFINE From == {j \in DOMAIN cols :
                         names[j] = names[i] /\ row.cells[cols[j].name] # NoEdit}
  <1>1. /\ Len(cols) \in Nat /\ DOMAIN cols = 1 .. Len(cols) /\ DOMAIN names = 1 .. Len(cols)
        /\ names[i] \in Key
    BY LenProperties, ElementOfSeq DEF Key
  <1>2. \A j \in 1 .. Len(cols) : names[j] = names[i] => j = i
    BY <1>1 DEF IsInjective
  <1>3. CellsFollow(row, cols, names)[names[i]]
          = IF From = {} THEN NoEdit ELSE row.cells[cols[Max(From)].name]
    BY <1>1 DEF CellsFollow
  <1>4. From \subseteq {i} /\ (From # {} => row.cells[cols[i].name] # NoEdit)
        /\ (row.cells[cols[i].name] # NoEdit => i \in From)
    BY <1>1, <1>2
  <1>5. From \subseteq 0 .. Len(cols)
    <2>1. From \subseteq 1 .. Len(cols)
      BY <1>1
    <2> HIDE DEF From
    <2> QED
      BY <1>1, <2>1
  <1> HIDE DEF From
  <1>6. CASE From = {}
    BY <1>3, <1>4, <1>6
  <1>7. CASE From # {}
    <2>1. Max(From) \in From
      BY <1>1, <1>5, <1>7, MaxIsIn
    <2>2. Max(From) = i
      BY <1>4, <2>1
    <2> QED
      BY <1>3, <1>7, <2>2
  <1> QED
    BY <1>6, <1>7

\* relabel_columns with different names changes no text of the table.
LEMMA RelabelledShows ==
    ASSUME NEW rws \in Seq(RowType), NEW cols \in Seq(KeyColumnType), NEW names \in Seq(Cell),
           Len(names) = Len(cols), IsInjective(names), NEW idx, NEW lines, NEW t,
           Shows(t, rws, cols, idx, lines)
    PROVE  Shows(t, RelabelRows(rws, cols, names), RelabelColumns(cols, names), idx, lines)
  <1> DEFINE rs == RelabelRows(rws, cols, names)
             cs == RelabelColumns(cols, names)
             Cells(row) == CellsFollow(row, cols, names)
  <1>1. /\ Len(cols) \in Nat /\ DOMAIN cols = 1 .. Len(cols) /\ DOMAIN names = 1 .. Len(cols)
        /\ Len(rws) \in Nat /\ DOMAIN rws = 1 .. Len(rws)
        /\ \A r \in 1 .. Len(rws) : rws[r] \in RowType
        /\ \A i \in 1 .. Len(cols) : cols[i] \in KeyColumnType
    BY LenProperties, ElementOfSeq
  <1>2. rs = [r \in 1 .. Len(rws) |-> [rws[r] EXCEPT !.cells = Cells(rws[r])]]
    BY <1>1 DEF RelabelRows, CellsFollow
  <1>3. cs = [i \in 1 .. Len(cols) |-> [cols[i] EXCEPT !.name = names[i]]]
    BY <1>1 DEF RelabelColumns
  <1>4. Len(rs) = Len(rws) /\ Len(cs) = Len(cols)
    <2> HIDE DEF rs, cs, Cells
    <2> QED
      BY <1>1, <1>2, <1>3, LenProperties
  <1>5. \A r \in 1 .. Len(rws) : rs[r].src = rws[r].src /\ rs[r].cells = Cells(rws[r])
    <2> TAKE r \in 1 .. Len(rws)
    <2>1. rws[r] \in RowType /\ rs[r] = [rws[r] EXCEPT !.cells = Cells(rws[r])]
      BY <1>1, <1>2
    <2> HIDE DEF rs, Cells
    <2> QED
      BY <2>1 DEF RowType
  <1>6. \A i \in 1 .. Len(cols) : /\ cs[i].name = names[i] /\ cs[i].src = cols[i].src
                                  /\ cs[i].default = cols[i].default
    BY <1>1, <1>3 DEF KeyColumnType
  <1> HIDE DEF rs, cs
  <1>7. \A r \in 1 .. Len(rws) : \A i \in 1 .. Len(cols) :
           Cells(rws[r])[names[i]] = rws[r].cells[cols[i].name]
    BY <1>1, RelabelledField
  <1> HIDE DEF Cells
  <1>8. ASSUME NEW r \in 1 .. Len(rs)
        PROVE  /\ SourceIn(rs[r], idx, lines) \in Seq(Cell)
               /\ Len(t[r]) = Len(cs)
               /\ \A i \in 1 .. Len(cs) :
                     t[r][i] = Field(rs[r], cs[i], SourceIn(rs[r], idx, lines))
    <2>1. r \in 1 .. Len(rws)
      BY <1>4
    <2>2. SourceIn(rs[r], idx, lines) = SourceIn(rws[r], idx, lines)
      BY <1>5, <2>1 DEF SourceIn
    <2>3. \A i \in 1 .. Len(cols) : t[r][i] = Field(rws[r], cols[i], SourceIn(rws[r], idx, lines))
      BY <2>1 DEF Shows
    <2>4. \A i \in 1 .. Len(cols) : Field(rs[r], cs[i], SourceIn(rws[r], idx, lines))
                                      = Field(rws[r], cols[i], SourceIn(rws[r], idx, lines))
      BY <1>5, <1>6, <1>7, <2>1 DEF Field
    <2> QED
      BY <1>4, <2>1, <2>2, <2>3, <2>4 DEF Shows
  <1> QED
    BY <1>4, <1>8 DEF Shows, rs, cs

\* A change of columns that relabels them is the command that leaves the texts t.
LEMMA RelabelledIsCommand ==
    ASSUME ~lost, Editable, ~has_headers, NEW cols \in Seq(KeyColumnType), NEW rws, RowsFit(rws),
           Len(cols) \in 1 .. MaxWidth,
           \A i \in DOMAIN cols : cols[i].src # 0 => cols[i].default = Empty,
           Changed(RelabelColumns(cols, SyntheticHeaders(Len(cols))),
                   RelabelRows(rws, cols, SyntheticHeaders(Len(cols)))),
           NEW t, Shows(t, rws, cols, index, BaseLines)
    PROVE  Document!Command(Table(has_headers, SyntheticHeaders(Len(cols)), t))
  <1> DEFINE names == SyntheticHeaders(Len(cols))
             cs == RelabelColumns(cols, names)
             rs == RelabelRows(rws, cols, names)
  <1>1. Len(cols) \in 0 .. MaxWidth /\ Len(cols) <= MaxWidth
    BY IndexedCsvAssumption, LenProperties
  <1>2. names \in Seq(Cell) /\ Len(names) = Len(cols) /\ IsInjective(names)
    BY <1>1, LabelsAreNames
  <1> HIDE DEF names
  <1>3. ColumnsFit(cs) /\ Names(cs) = names
    BY <1>1, <1>2, RelabelledColumns
  <1>4. RowsFit(rs) /\ rws \in Seq(RowType)
    BY <1>2, RelabelledRows DEF RowsFit
  <1>5. Shows(t, rs, cs, index, BaseLines)
    BY <1>2, <1>4, RelabelledShows
  <1>6. cs \in Seq(KeyColumnType) /\ rs \in Seq(RowType)
    BY <1>3, <1>4, NamesOfColumns DEF ColumnsFit, RowsFit
  <1>7. Changed(cs, rs)
    BY DEF names
  <1> HIDE DEF cs, rs
  <1>8. Render(rs, cs, index, BaseLines) = t
    BY <1>5, <1>6, RenderedIs
  <1>9. Document!Command(Table(has_headers, Names(cs), Render(rs, cs, index, BaseLines)))
    BY <1>7, ChangedIsCommand
  <1> QED
    BY <1>3, <1>8, <1>9 DEF names

\* The same when the names stay those of the columns.
LEMMA ColumnsChangedAre ==
    ASSUME ~lost, Editable, NEW cols \in Seq(KeyColumnType), NEW rws \in Seq(RowType),
           Changed(cols, rws), NEW t, Shows(t, rws, cols, index, BaseLines)
    PROVE  Document!Command(Table(has_headers, Names(cols), t))
  <1>1. Render(rws, cols, index, BaseLines) = t
    BY RenderedIs
  <1> QED
    BY <1>1, ChangedIsCommand

\* A new column shows what was typed in every row: no row has an edit under its key.
LEMMA InsertColumnStep ==
    ASSUME IInv, ~lost, NEW c \in 1 .. Len(columns) + 1, NEW name \in Named, NEW value \in Typed,
           InsertColumn(c, name, value)
    PROVE  Document!Edit
  <1> DEFINE key  == IF has_headers THEN name ELSE NewKey
             new  == Column(key, 0, value)
             cols == InsertAt(columns, c, new)
             n    == Len(columns)
             s    == Shown.rows
             t    == [i \in DOMAIN s |-> InsertAt(s[i], c, value)]
  <1>1. /\ Editable /\ n < MaxWidth /\ status # "closed"
        /\ has_headers => name # Empty /\ ~HasColumn(name) /\ Changed(cols, rows)
        /\ ~has_headers => Changed(RelabelColumns(cols, SyntheticHeaders(Len(cols))),
                                   RelabelRows(rows, cols, SyntheticHeaders(Len(cols))))
    BY DEF InsertColumn, Editable
  <1>2. /\ columns \in Seq(ColumnType) /\ ColumnsFit(columns) /\ n \in 1 .. MaxWidth
        /\ DOMAIN columns = 1 .. n /\ headers = Names(columns) /\ RowsFit(rows)
        /\ rows \in Seq(RowType) /\ Len(rows) \in Nat /\ has_headers \in BOOLEAN
        /\ \A r \in 1 .. Len(rows) : GoodRow(rows[r], Names(columns))
    BY <1>1, OpenTable
  <1>3. /\ name \in Cell /\ value \in Cell /\ Cell \subseteq Key /\ NewKey \in Key
        /\ MaxWidth \in Nat /\ MaxWidth <= Len(Label) /\ Len(Label) \in Nat /\ NewKey \notin Cell
    BY IndexedCsvAssumption, LenProperties DEF Key
  <1>4. /\ columns \in Seq(KeyColumnType) /\ Names(columns) \in Seq(Cell) /\ n \in Nat
        /\ Len(Names(columns)) = n /\ DOMAIN Names(columns) = 1 .. n
        /\ \A j \in 1 .. n : Names(columns)[j] = columns[j].name /\ Names(columns)[j] \in Cell
    <2>1. /\ columns \in Seq(KeyColumnType) /\ Names(columns) \in Seq(Cell) /\ n \in Nat
          /\ Len(Names(columns)) = n /\ DOMAIN Names(columns) = 1 .. n
          /\ \A j \in 1 .. n : Names(columns)[j] = columns[j].name
      BY <1>2, NamesOfColumns
    <2> QED
      BY <2>1, ElementOfSeq
  <1>5. key \in Key /\ key \notin Range(Names(columns))
    BY <1>1, <1>2, <1>3, <1>4 DEF HasColumn, Range
  <1>6. new \in KeyColumnType /\ new.name = key /\ new.src = 0 /\ new.default = value
    BY <1>3, <1>5 DEF Column, KeyColumnType
  <1>7. \A r \in 1 .. Len(rows) : rows[r].cells[key] = NoEdit
    BY <1>2, <1>5 DEF GoodRow
  <1> HIDE DEF new, key
  <1>8. /\ cols \in Seq(KeyColumnType) /\ Len(cols) = n + 1 /\ DOMAIN cols = 1 .. n + 1
        /\ \A j \in 1 .. n + 1 :
             cols[j] = IF j < c THEN columns[j] ELSE IF j = c THEN new ELSE columns[j - 1]
    BY <1>4, <1>6, InsertAtFits
  <1> HIDE DEF cols
  <1>9. ASSUME NEW j \in 1 .. n + 1
        PROVE  \/ j < c /\ j \in 1 .. n /\ cols[j] = columns[j]
               \/ j = c /\ cols[j] = new
               \/ j > c /\ j - 1 \in 1 .. n /\ cols[j] = columns[j - 1]
    BY <1>2, <1>8
  <1>10. /\ s \in Seq(Seq(Cell)) /\ Len(s) = Len(rows) /\ DOMAIN s = 1 .. Len(rows)
         /\ \A r \in 1 .. Len(rows) :
               /\ s[r] \in Seq(Cell) /\ Len(s[r]) = n
               /\ SourceIn(rows[r], index, BaseLines) \in Seq(Cell)
               /\ \A i \in 1 .. n :
                     s[r][i] = Field(rows[r], columns[i], SourceIn(rows[r], index, BaseLines))
    BY <1>1, ShownFits
  <1> HIDE DEF s
  <1>11. /\ t \in Seq(Seq(Cell)) /\ Len(t) = Len(rows)
         /\ \A r \in 1 .. Len(rows) :
               /\ Len(t[r]) = n + 1
               /\ \A j \in 1 .. n + 1 :
                     t[r][j] = IF j < c THEN s[r][j] ELSE IF j = c THEN value ELSE s[r][j - 1]
    <2>1. ASSUME NEW r \in 1 .. Len(rows)
          PROVE  /\ InsertAt(s[r], c, value) \in Seq(Cell)
                 /\ Len(InsertAt(s[r], c, value)) = n + 1
                 /\ \A j \in 1 .. n + 1 :
                       InsertAt(s[r], c, value)[j]
                         = IF j < c THEN s[r][j] ELSE IF j = c THEN value ELSE s[r][j - 1]
      <3> DEFINE u == s[r]
      <3>1. u \in Seq(Cell) /\ Len(u) = n /\ value \in Cell
        BY <1>3, <1>10
      <3> HIDE DEF u
      <3>2. c \in 1 .. Len(u) + 1
        BY <3>1
      <3>3. /\ InsertAt(u, c, value) \in Seq(Cell) /\ Len(InsertAt(u, c, value)) = Len(u) + 1
            /\ \A j \in 1 .. Len(u) + 1 :
                  InsertAt(u, c, value)[j]
                    = IF j < c THEN u[j] ELSE IF j = c THEN value ELSE u[j - 1]
        BY <3>1, <3>2, InsertAtFits
      <3> QED
        BY <3>1, <3>3 DEF u
    <2>2. t = [r \in 1 .. Len(rows) |-> InsertAt(s[r], c, value)]
      BY <1>10
    <2>3. /\ t \in [1 .. Len(rows) -> Seq(Cell)]
          /\ \A r \in 1 .. Len(rows) : t[r] = InsertAt(s[r], c, value)
      BY <2>1, <2>2
    <2> HIDE DEF t
    <2> QED
      BY <1>2, <2>1, <2>3, MappedFits
  <1> HIDE DEF t
  <1>12. \A r \in 1 .. Len(rows) : \A j \in 1 .. n + 1 :
            t[r][j] = Field(rows[r], cols[j], SourceIn(rows[r], index, BaseLines))
    <2> TAKE r \in 1 .. Len(rows)
    <2> TAKE j \in 1 .. n + 1
    <2>1. CASE j < c /\ j \in 1 .. n /\ cols[j] = columns[j]
      BY <1>10, <1>11, <2>1
    <2>2. CASE j = c /\ cols[j] = new
      <3>1. 0 \notin DOMAIN SourceIn(rows[r], index, BaseLines)
        BY <1>10, LenProperties
      <3> QED
        BY <1>6, <1>7, <1>11, <2>2, <3>1 DEF Field
    <2>3. CASE j > c /\ j - 1 \in 1 .. n /\ cols[j] = columns[j - 1]
      <3>1. ~(j < c) /\ j # c
        BY <1>4, <2>3
      <3>2. t[r][j] = s[r][j - 1]
        BY <1>11, <3>1
      <3> QED
        BY <1>10, <2>3, <3>2
    <2> QED
      BY <1>9, <2>1, <2>2, <2>3
  <1>13. Shows(t, rows, cols, index, BaseLines)
    BY <1>8, <1>10, <1>11, <1>12 DEF Shows
  <1>14. ASSUME NEW j \in DOMAIN cols, cols[j].src # 0
         PROVE  cols[j].default = Empty
    <2>1. j \in 1 .. n + 1 /\ \A i \in 1 .. n : columns[i].src # 0 => columns[i].default = Empty
      BY <1>2, <1>8 DEF ColumnsFit
    <2>2. CASE j = c /\ cols[j] = new
      BY <1>6, <1>14, <2>2
    <2>3. CASE \E i \in 1 .. n : cols[j] = columns[i]
      BY <1>14, <2>1, <2>3
    <2> QED
      BY <1>9, <2>1, <2>2, <2>3
  <1> DEFINE labelled == IF has_headers THEN InsertAt(Names(columns), c, name)
                         ELSE SyntheticHeaders(Len(InsertAt(Names(columns), c, name)))
  <1>15. /\ InsertAt(Names(columns), c, name) \in Seq(Cell)
         /\ Len(InsertAt(Names(columns), c, name)) = n + 1
         /\ \A j \in 1 .. n + 1 :
               InsertAt(Names(columns), c, name)[j]
                 = IF j < c THEN Names(columns)[j] ELSE IF j = c THEN name
                   ELSE Names(columns)[j - 1]
    <2> DEFINE u == Names(columns)
    <2>1. u \in Seq(Cell) /\ Len(u) = n /\ name \in Cell
      BY <1>3, <1>4
    <2> HIDE DEF u
    <2>2. c \in 1 .. Len(u) + 1
      BY <2>1
    <2>3. /\ InsertAt(u, c, name) \in Seq(Cell) /\ Len(InsertAt(u, c, name)) = Len(u) + 1
          /\ \A j \in 1 .. Len(u) + 1 :
                InsertAt(u, c, name)[j] = IF j < c THEN u[j] ELSE IF j = c THEN name ELSE u[j - 1]
      BY <2>1, <2>2, InsertAtFits
    <2> QED
      BY <2>1, <2>3 DEF u
  <1>16. Document!Command(Table(has_headers, labelled, t))
    <2>1. CASE ~has_headers
      <3>1. Len(cols) \in 1 .. MaxWidth
        BY <1>1, <1>2, <1>3, <1>8
      <3>2. Document!Command(Table(has_headers, SyntheticHeaders(Len(cols)), t))
        BY <1>1, <1>2, <1>8, <1>13, <1>14, <2>1, <3>1, RelabelledIsCommand
      <3> QED
        BY <1>8, <1>15, <2>1, <3>2
    <2>2. CASE has_headers
      <3>1. /\ Names(cols) \in Seq(Key) /\ Len(Names(cols)) = n + 1
            /\ \A j \in 1 .. n + 1 : Names(cols)[j] = cols[j].name
        BY <1>8, NamesOf
      <3> DEFINE u == InsertAt(Names(columns), c, name)
                 v == Names(columns)
      <3>2. \A j \in 1 .. n : v[j] = columns[j].name
        BY <1>4
      <3>3. /\ u \in Seq(Cell) /\ Len(u) = n + 1
            /\ \A j \in 1 .. n + 1 :
                  u[j] = IF j < c THEN v[j] ELSE IF j = c THEN name ELSE v[j - 1]
        BY <1>15
      <3>4. new.name = name
        BY <1>6, <2>2 DEF key
      <3> HIDE DEF u, v
      <3>5. ASSUME NEW j \in 1 .. n + 1
            PROVE  Names(cols)[j] = u[j]
        <4>1. CASE j < c /\ j \in 1 .. n /\ cols[j] = columns[j]
          BY <3>1, <3>2, <3>3, <4>1
        <4>2. CASE j = c /\ cols[j] = new
          BY <3>1, <3>3, <3>4, <4>2
        <4>3. CASE j > c /\ j - 1 \in 1 .. n /\ cols[j] = columns[j - 1]
          <5>1. ~(j < c) /\ j # c
            BY <1>4, <4>3
          <5> QED
            BY <3>1, <3>2, <3>3, <4>3, <5>1
        <4> QED
          BY <1>9, <4>1, <4>2, <4>3
      <3>6. u \in Seq(Key)
        <4>1. u \in [1 .. n + 1 -> Key]
          BY <1>3, <3>3, LenProperties, ElementOfSeq
        <4> QED
          BY <1>4, <4>1, MappedFits
      <3>7. Names(cols) = u
        BY <3>1, <3>3, <3>5, <3>6, SeqEqual
      <3> QED
        BY <1>1, <1>2, <1>8, <1>13, <2>2, <3>7, ColumnsChangedAre DEF u
    <2> QED
      BY <2>1, <2>2
  <1>17. Document!WithColumn(Shown, c, name, value) = Table(has_headers, labelled, t)
    <2>1. Shown = Table(has_headers, Names(columns), s)
      BY ShownParts DEF Table, s
    <2> HIDE DEF s
    <2> QED
      BY <1>2, <2>1, WithColumnIs DEF t
  <1>18. /\ Shown.names = Names(columns) /\ Shown.header = has_headers
         /\ Len(Shown.names) = n /\ n < Len(Label)
    BY <1>1, <1>2, <1>3, <1>4, ShownFits
  <1>19. Shown.header => name # Empty /\ name \notin Document!Range(Shown.names)
    BY <1>1, <1>2, <1>18, SameOperators DEF HasColumn
  <1> QED
    BY <1>3, <1>16, <1>17, <1>18, <1>19, CommandIsEdit DEF NewColumnCommand

\* With distinct names no other column shows the edits of the one that is deleted.
LEMMA DeleteColumnStep ==
    ASSUME IInv, ~lost, DistinctHeaders, NEW name \in Range(headers), DeleteColumn(name)
    PROVE  Document!Edit
  <1> DEFINE d == ColumnIndex(name)
             cols == RemoveAt(columns, d)
             n == Len(columns)
             rws == [r \in DOMAIN rows |-> [rows[r] EXCEPT !.cells[name] = NoEdit]]
             s == Shown.rows
             t == [i \in DOMAIN s |-> RemoveAt(s[i], d)]
  <1>1. /\ Editable /\ n > 1 /\ HasColumn(name) /\ status # "closed"
        /\ has_headers => Changed(cols, rws)
        /\ ~has_headers => Changed(RelabelColumns(cols, SyntheticHeaders(Len(cols))),
                                   RelabelRows(rws, cols, SyntheticHeaders(Len(cols))))
    BY DEF DeleteColumn, Editable
  <1>2. /\ columns \in Seq(ColumnType) /\ ColumnsFit(columns) /\ n \in 1 .. MaxWidth
        /\ headers = Names(columns) /\ NamesFit(headers, has_headers)
        /\ rows \in Seq(RowType) /\ Len(rows) \in Nat /\ DOMAIN rows = 1 .. Len(rows)
        /\ \A r \in 1 .. Len(rows) : GoodRow(rows[r], Names(columns)) /\ rows[r] \in RowType
        /\ has_headers \in BOOLEAN
    BY <1>1, OpenTable DEF GoodRow
  <1>3. /\ DOMAIN Names(columns) = 1 .. n /\ Len(Names(columns)) = n /\ n \in Nat
        /\ Names(columns) \in Seq(Cell)
        /\ \A j \in 1 .. n : Names(columns)[j] = columns[j].name
    BY <1>2, NamesOfColumns
  <1>4. d \in 1 .. n /\ columns[d].name = name
    BY <1>1, NamedColumn
  <1> HIDE DEF d
  <1>5. \A j \in 1 .. n : columns[j].name = name => j = d
    BY <1>2, <1>3, <1>4 DEF NamesFit, IsInjective
  <1>6. /\ cols \in Seq(ColumnType) /\ Len(cols) = n - 1 /\ DOMAIN cols = 1 .. n - 1
        /\ \A j \in 1 .. n - 1 : cols[j] = IF j < d THEN columns[j] ELSE columns[j + 1]
    BY <1>2, <1>4, RemoveAtFits
  <1> HIDE DEF cols
  <1>7. ASSUME NEW j \in 1 .. n - 1
        PROVE  \/ j < d /\ j \in 1 .. n /\ j # d /\ cols[j] = columns[j]
               \/ ~(j < d) /\ j + 1 \in 1 .. n /\ j + 1 # d /\ cols[j] = columns[j + 1]
    BY <1>3, <1>4, <1>6
  <1>8. Len(cols) \in 1 .. MaxWidth
    <2>1. MaxWidth \in Nat
      BY IndexedCsvAssumption, LenProperties
    <2> QED
      BY <1>1, <1>2, <1>3, <1>6, <2>1
  <1>9. ASSUME NEW j \in DOMAIN cols, cols[j].src # 0
        PROVE  cols[j].default = Empty
    <2>1. j \in 1 .. n - 1 /\ \A i \in 1 .. n : columns[i].src # 0 => columns[i].default = Empty
      BY <1>2, <1>6, LenProperties DEF ColumnsFit
    <2>2. PICK i \in 1 .. n : cols[j] = columns[i]
      BY <1>7, <2>1
    <2> QED
      BY <1>9, <2>1, <2>2
  <1>10. name \in Key
    <2>1. columns[d] \in ColumnType
      BY <1>2, <1>4, ElementOfSeq
    <2> QED
      BY <1>4, <2>1 DEF ColumnType, Key
  <1>11. ASSUME NEW r \in 1 .. Len(rows)
         PROVE  /\ rws[r] \in RowType /\ rws[r].src = rows[r].src
                /\ \A k \in Key : rws[r].cells[k] = IF k = name THEN NoEdit ELSE rows[r].cells[k]
    <2>1. rows[r] \in RowType /\ rws[r] = [rows[r] EXCEPT !.cells[name] = NoEdit]
      BY <1>2
    <2> HIDE DEF rws
    <2> QED
      BY <1>10, <2>1 DEF RowType, Texts
  <1>12. rws \in Seq(RowType) /\ Len(rws) = Len(rows) /\ DOMAIN rws = 1 .. Len(rows)
    <2>1. rws \in [1 .. Len(rows) -> RowType]
      BY <1>2, <1>11
    <2> HIDE DEF rws
    <2> QED
      BY <1>2, <2>1, MappedFits
  <1> HIDE DEF rws
  <1>13. RowsFit(rws)
    BY <1>2, <1>11, <1>12 DEF RowsFit, GoodRow
  <1>14. /\ s \in Seq(Seq(Cell)) /\ Len(s) = Len(rows) /\ DOMAIN s = 1 .. Len(rows)
         /\ \A r \in 1 .. Len(rows) :
               /\ s[r] \in Seq(Cell) /\ Len(s[r]) = n
               /\ SourceIn(rows[r], index, BaseLines) \in Seq(Cell)
               /\ \A i \in 1 .. n :
                     s[r][i] = Field(rows[r], columns[i], SourceIn(rows[r], index, BaseLines))
    BY <1>1, ShownFits
  <1> HIDE DEF s
  <1>15. /\ t \in Seq(Seq(Cell)) /\ Len(t) = Len(rows)
         /\ \A r \in 1 .. Len(rows) :
               /\ Len(t[r]) = n - 1
               /\ \A j \in 1 .. n - 1 : t[r][j] = IF j < d THEN s[r][j] ELSE s[r][j + 1]
    <2>1. ASSUME NEW r \in 1 .. Len(rows)
          PROVE  /\ RemoveAt(s[r], d) \in Seq(Cell) /\ Len(RemoveAt(s[r], d)) = n - 1
                 /\ \A j \in 1 .. n - 1 :
                       RemoveAt(s[r], d)[j] = IF j < d THEN s[r][j] ELSE s[r][j + 1]
      <3> DEFINE u == s[r]
      <3>1. u \in Seq(Cell) /\ Len(u) = n
        BY <1>14
      <3> HIDE DEF u
      <3>2. d \in 1 .. Len(u)
        BY <1>4, <3>1
      <3>3. /\ RemoveAt(u, d) \in Seq(Cell) /\ Len(RemoveAt(u, d)) = Len(u) - 1
            /\ \A j \in 1 .. Len(u) - 1 : RemoveAt(u, d)[j] = IF j < d THEN u[j] ELSE u[j + 1]
        BY <3>1, <3>2, RemoveAtFits
      <3> QED
        BY <3>1, <3>3 DEF u
    <2>2. t = [r \in 1 .. Len(rows) |-> RemoveAt(s[r], d)]
      BY <1>14
    <2>3. /\ t \in [1 .. Len(rows) -> Seq(Cell)]
          /\ \A r \in 1 .. Len(rows) : t[r] = RemoveAt(s[r], d)
      BY <2>1, <2>2
    <2> HIDE DEF t
    <2> QED
      BY <1>2, <2>1, <2>3, MappedFits
  <1> HIDE DEF t
  <1>16. ASSUME NEW r \in 1 .. Len(rows), NEW i \in 1 .. n, i # d
         PROVE  s[r][i] = Field(rws[r], columns[i], SourceIn(rws[r], index, BaseLines))
    <2>1. columns[i].name # name
      BY <1>5, <1>16
    <2>2. columns[i].name \in Key
      <3>1. columns[i] \in ColumnType
        BY <1>2, ElementOfSeq
      <3> QED
        BY <3>1 DEF ColumnType, Key
    <2>3. SourceIn(rws[r], index, BaseLines) = SourceIn(rows[r], index, BaseLines)
      BY <1>11 DEF SourceIn
    <2>4. rws[r].cells[columns[i].name] = rows[r].cells[columns[i].name]
      BY <1>11, <2>1, <2>2
    <2> QED
      BY <1>14, <2>3, <2>4 DEF Field
  <1>17. ASSUME NEW r \in 1 .. Len(rows), NEW j \in 1 .. n - 1
         PROVE  t[r][j] = Field(rws[r], cols[j], SourceIn(rws[r], index, BaseLines))
    <2>1. CASE j < d /\ j \in 1 .. n /\ j # d /\ cols[j] = columns[j]
      BY <1>15, <1>16, <2>1
    <2>2. CASE ~(j < d) /\ j + 1 \in 1 .. n /\ j + 1 # d /\ cols[j] = columns[j + 1]
      <3>1. t[r][j] = s[r][j + 1]
        BY <1>15, <2>2
      <3> QED
        BY <1>16, <2>2, <3>1
    <2> QED
      BY <1>7, <2>1, <2>2
  <1>18. ASSUME NEW r \in 1 .. Len(rows)
         PROVE  SourceIn(rws[r], index, BaseLines) \in Seq(Cell)
    BY <1>11, <1>14 DEF SourceIn
  <1>19. Shows(t, rws, cols, index, BaseLines)
    BY <1>6, <1>12, <1>15, <1>17, <1>18 DEF Shows
  <1>20. cols \in Seq(KeyColumnType)
    BY <1>6, NamesOfColumns
  <1> DEFINE labelled == IF has_headers THEN RemoveAt(Names(columns), d)
                         ELSE SyntheticHeaders(Len(RemoveAt(Names(columns), d)))
  <1>21. /\ RemoveAt(Names(columns), d) \in Seq(Cell)
         /\ Len(RemoveAt(Names(columns), d)) = n - 1
         /\ \A j \in 1 .. n - 1 :
               RemoveAt(Names(columns), d)[j]
                 = IF j < d THEN Names(columns)[j] ELSE Names(columns)[j + 1]
    <2> DEFINE u == Names(columns)
    <2>1. u \in Seq(Cell) /\ Len(u) = n
      BY <1>3
    <2> HIDE DEF u
    <2>2. d \in 1 .. Len(u)
      BY <1>4, <2>1
    <2>3. /\ RemoveAt(u, d) \in Seq(Cell) /\ Len(RemoveAt(u, d)) = Len(u) - 1
          /\ \A j \in 1 .. Len(u) - 1 : RemoveAt(u, d)[j] = IF j < d THEN u[j] ELSE u[j + 1]
      BY <2>1, <2>2, RemoveAtFits
    <2> QED
      BY <2>1, <2>3 DEF u
  <1>22. Document!Command(Table(has_headers, labelled, t))
    <2>1. CASE ~has_headers
      <3>1. Document!Command(Table(has_headers, SyntheticHeaders(Len(cols)), t))
        BY <1>1, <1>8, <1>9, <1>13, <1>19, <1>20, <2>1, RelabelledIsCommand
      <3> QED
        BY <1>6, <1>21, <2>1, <3>1
    <2>2. CASE has_headers
      <3>1. /\ Names(cols) \in Seq(Cell) /\ Len(Names(cols)) = n - 1
            /\ \A j \in 1 .. n - 1 : Names(cols)[j] = cols[j].name
        BY <1>6, NamesOfColumns
      <3> DEFINE u == RemoveAt(Names(columns), d)
                 v == Names(columns)
      <3>2. \A j \in 1 .. n : v[j] = columns[j].name
        BY <1>3
      <3>3. /\ u \in Seq(Cell) /\ Len(u) = n - 1
            /\ \A j \in 1 .. n - 1 : u[j] = IF j < d THEN v[j] ELSE v[j + 1]
        BY <1>21
      <3> HIDE DEF u, v
      <3>4. ASSUME NEW j \in 1 .. n - 1
            PROVE  Names(cols)[j] = u[j]
        <4>1. CASE j < d /\ j \in 1 .. n /\ cols[j] = columns[j]
          BY <3>1, <3>2, <3>3, <4>1
        <4>2. CASE ~(j < d) /\ j + 1 \in 1 .. n /\ cols[j] = columns[j + 1]
          BY <3>1, <3>2, <3>3, <4>2
        <4> QED
          BY <1>7, <4>1, <4>2
      <3>5. Names(cols) = u
        BY <3>1, <3>3, <3>4, SeqEqual
      <3> QED
        BY <1>1, <1>12, <1>19, <1>20, <2>2, <3>5, ColumnsChangedAre DEF u
    <2> QED
      BY <2>1, <2>2
  <1>23. Document!WithoutColumn(Shown, d) = Table(has_headers, labelled, t)
    <2>1. Shown = Table(has_headers, Names(columns), s)
      BY ShownParts DEF Table, s
    <2> HIDE DEF s
    <2> QED
      BY <1>2, <2>1, WithoutColumnIs DEF t
  <1>24. Shown.names = Names(columns) /\ d \in DOMAIN Shown.names /\ Len(Shown.names) > 1
    BY <1>1, <1>3, <1>4, ShownFits
  <1> QED
    BY <1>22, <1>23, <1>24, CommandIsEdit DEF ColumnCommand

\* With distinct names the edits of a renamed column are shown in it, and only there.
LEMMA RenameColumnStep ==
    ASSUME IInv, ~lost, DistinctHeaders, NEW name \in Range(headers), NEW new \in Named,
           RenameColumn(name, new)
    PROVE  Document!Edit
  <1> DEFINE d == ColumnIndex(name)
             column == [columns[d] EXCEPT !.name = new]
             cols == [columns EXCEPT ![d] = column]
             n == Len(columns)
             rws == [r \in DOMAIN rows |->
                       IF rows[r].cells[name] = NoEdit THEN rows[r]
                       ELSE [rows[r] EXCEPT !.cells[new] = rows[r].cells[name],
                                            !.cells[name] = NoEdit]]
             s == Shown.rows
  <1>1. /\ Editable /\ has_headers /\ HasColumn(name) /\ ~HasColumn(new) /\ new # Empty
        /\ status # "closed" /\ Changed(cols, rws)
    BY DEF RenameColumn, Editable
  <1>2. /\ columns \in Seq(ColumnType) /\ n \in 1 .. MaxWidth
        /\ headers = Names(columns) /\ NamesFit(headers, has_headers)
        /\ rows \in Seq(RowType) /\ Len(rows) \in Nat /\ DOMAIN rows = 1 .. Len(rows)
        /\ \A r \in 1 .. Len(rows) : GoodRow(rows[r], Names(columns)) /\ rows[r] \in RowType
    BY <1>1, OpenTable DEF GoodRow
  <1>3. /\ DOMAIN Names(columns) = 1 .. n /\ Len(Names(columns)) = n /\ n \in Nat
        /\ Names(columns) \in Seq(Cell)
        /\ \A j \in 1 .. n : Names(columns)[j] = columns[j].name /\ columns[j] \in ColumnType
    BY <1>2, NamesOfColumns, ElementOfSeq
  <1>4. d \in 1 .. n /\ columns[d].name = name
    BY <1>1, NamedColumn
  <1> HIDE DEF d
  <1>5. new \in Cell /\ new \in Key /\ name \in Key
    BY <1>3, <1>4, IndexedCsvAssumption DEF Key, ColumnType
  <1>6. /\ \A j \in 1 .. n : columns[j].name # new
        /\ \A j \in 1 .. n : columns[j].name = name => j = d
        /\ new \notin Range(Names(columns))
    <2>1. \A j \in 1 .. n : columns[j].name # new
      BY <1>1, <1>2, <1>3 DEF HasColumn, Range
    <2>2. \A j \in 1 .. n : columns[j].name = name => j = d
      BY <1>2, <1>3, <1>4 DEF NamesFit, IsInjective
    <2>3. new \notin Range(Names(columns))
      BY <1>1, <1>2 DEF HasColumn
    <2> QED
      BY <2>1, <2>2, <2>3
  <1>7. /\ column \in ColumnType /\ column.name = new /\ column.src = columns[d].src
        /\ column.default = columns[d].default
    BY <1>3, <1>4, <1>5 DEF ColumnType
  <1> HIDE DEF column
  <1>8. cols \in Seq(ColumnType) /\ Len(cols) = n
        /\ \A j \in 1 .. n : cols[j] = IF j = d THEN column ELSE columns[j]
    BY <1>2, <1>4, <1>7, ExceptSeq
  <1> HIDE DEF cols
  <1>9. name # new
    BY <1>4, <1>6
  <1>10. ASSUME NEW r \in 1 .. Len(rows)
         PROVE  /\ rws[r] \in RowType /\ rws[r].src = rows[r].src
                /\ rws[r].cells[new] = rows[r].cells[name]
                /\ \A k \in Key \ {name, new} : rws[r].cells[k] = rows[r].cells[k]
    <2>1. GoodRow(rows[r], Names(columns)) /\ rows[r] \in RowType
      BY <1>2
    <2>2. rws[r] = IF rows[r].cells[name] = NoEdit THEN rows[r]
                   ELSE [rows[r] EXCEPT !.cells[new] = rows[r].cells[name],
                                        !.cells[name] = NoEdit]
      BY <1>2
    <2> HIDE DEF rws
    <2>3. rows[r].cells[new] = NoEdit
      BY <1>5, <1>6, <2>1 DEF GoodRow
    <2>4. CASE rows[r].cells[name] = NoEdit
      BY <2>1, <2>2, <2>3, <2>4
    <2>5. CASE rows[r].cells[name] # NoEdit
      <3>1. rws[r] = [rows[r] EXCEPT !.cells[new] = rows[r].cells[name], !.cells[name] = NoEdit]
        BY <2>2, <2>5
      <3>2. rows[r].cells[name] \in Texts /\ NoEdit \in Texts
        BY <1>5, <2>1 DEF RowType, Texts
      <3> DEFINE moved == [rows[r] EXCEPT !.cells[new] = rows[r].cells[name]]
      <3>3. /\ moved \in RowType /\ moved.src = rows[r].src
            /\ \A k \in Key : moved.cells[k] = IF k = new THEN rows[r].cells[name]
                                               ELSE rows[r].cells[k]
        BY <1>5, <2>1, <3>2 DEF RowType
      <3>4. rws[r] = [moved EXCEPT !.cells[name] = NoEdit]
        BY <3>1
      <3> HIDE DEF moved
      <3>5. /\ rws[r] \in RowType /\ rws[r].src = moved.src
            /\ \A k \in Key : rws[r].cells[k] = IF k = name THEN NoEdit ELSE moved.cells[k]
        BY <1>5, <3>2, <3>3, <3>4 DEF RowType
      <3> QED
        BY <1>5, <1>9, <3>3, <3>5
    <2> QED
      BY <2>4, <2>5
  <1>11. rws \in Seq(RowType) /\ Len(rws) = Len(rows)
    <2>1. DOMAIN rws = 1 .. Len(rows) /\ rws = [r \in 1 .. Len(rows) |-> rws[r]]
      BY <1>2
    <2> HIDE DEF rws
    <2>2. rws \in [1 .. Len(rows) -> RowType]
      BY <1>10, <2>1
    <2> QED
      BY <1>2, <2>2, MappedFits
  <1> HIDE DEF rws
  <1>12. /\ s \in Seq(Seq(Cell)) /\ Len(s) = Len(rows)
         /\ \A r \in 1 .. Len(rows) :
               /\ Len(s[r]) = n
               /\ SourceIn(rows[r], index, BaseLines) \in Seq(Cell)
               /\ \A i \in 1 .. n :
                     s[r][i] = Field(rows[r], columns[i], SourceIn(rows[r], index, BaseLines))
    BY <1>1, ShownFits
  <1> HIDE DEF s
  <1>13. ASSUME NEW r \in 1 .. Len(rows)
         PROVE  SourceIn(rws[r], index, BaseLines) = SourceIn(rows[r], index, BaseLines)
    BY <1>10 DEF SourceIn
  <1>14. ASSUME NEW r \in 1 .. Len(rows), NEW i \in 1 .. n
         PROVE  s[r][i] = Field(rws[r], cols[i], SourceIn(rows[r], index, BaseLines))
    <2>1. s[r][i] = Field(rows[r], columns[i], SourceIn(rows[r], index, BaseLines))
      BY <1>12
    <2>2. CASE i = d
      <3>1. cols[i] = column /\ rws[r].cells[column.name] = rows[r].cells[columns[i].name]
        BY <1>4, <1>7, <1>8, <1>10, <2>2
      <3>2. column.src = columns[i].src /\ column.default = columns[i].default
        BY <1>7, <2>2
      <3> QED
        BY <2>1, <3>1, <3>2 DEF Field
    <2>3. CASE i # d
      <3>1. columns[i].name \in Key \ {name, new}
        BY <1>3, <1>6, <2>3 DEF ColumnType, Key
      <3>2. rws[r].cells[columns[i].name] = rows[r].cells[columns[i].name]
        BY <1>10, <3>1
      <3> QED
        BY <1>8, <2>1, <2>3, <3>2 DEF Field
    <2> QED
      BY <2>2, <2>3
  <1>15. Shows(s, rws, cols, index, BaseLines)
    BY <1>8, <1>11, <1>12, <1>13, <1>14 DEF Shows
  <1>16. cols \in Seq(KeyColumnType)
    BY <1>8, NamesOfColumns
  <1>17. Names(cols) = [Names(columns) EXCEPT ![d] = new]
    <2>1. /\ Names(cols) \in Seq(Cell) /\ Len(Names(cols)) = n
          /\ \A j \in 1 .. n : Names(cols)[j] = cols[j].name
      BY <1>8, NamesOfColumns
    <2> DEFINE u == Names(columns)
               v == [u EXCEPT ![d] = new]
    <2>2. u \in Seq(Cell) /\ Len(u) = n /\ \A j \in 1 .. n : u[j] = columns[j].name
      BY <1>3
    <2> HIDE DEF u
    <2>3. v \in Seq(Cell) /\ Len(v) = n /\ \A j \in 1 .. n : v[j] = IF j = d THEN new ELSE u[j]
      BY <1>4, <1>5, <2>2, ExceptSeq
    <2> HIDE DEF v
    <2>4. \A j \in 1 .. n : Names(cols)[j] = v[j]
      BY <1>7, <1>8, <2>1, <2>2, <2>3
    <2>5. Names(cols) = v
      BY <2>1, <2>3, <2>4, SeqEqual
    <2> QED
      BY <2>5 DEF u, v
  <1>18. Document!Command(Table(has_headers, Names(cols), s))
    BY <1>1, <1>11, <1>15, <1>16, ColumnsChangedAre
  <1>19. [Shown EXCEPT !.names[d] = new] = Table(has_headers, Names(cols), s)
    <2>1. Shown = Table(has_headers, Names(columns), s)
      BY ShownParts DEF Table, s
    <2>2. [Table(has_headers, Names(columns), s) EXCEPT !.names[d] = new]
            = Table(has_headers, [Names(columns) EXCEPT ![d] = new], s)
      BY RenamedIs
    <2> QED
      BY <1>17, <2>1, <2>2
  <1>20. /\ Shown.names = Names(columns) /\ Shown.header = has_headers
         /\ d \in DOMAIN Shown.names
    BY <1>1, <1>3, <1>4, ShownFits
  <1>21. new \in Cell \ (Document!Range(Shown.names) \cup {Empty})
    BY <1>1, <1>5, <1>6, <1>20, SameOperators
  <1>22. Document!Command([Shown EXCEPT !.names[d] = new])
    BY <1>18, <1>19
  <1> QED
    BY <1>1, <1>20, <1>21, <1>22, CommandIsEdit DEF ColumnCommand

----------------------------------------------------------------------------
(* Commands on the header.                                                 *)

\* Another header, with its edits and columns relabelled, leaves the texts t.
LEMMA HeaderChangedIs ==
    ASSUME ~lost, Editable, UNCHANGED <<dir, status, source>>, columns \in Seq(KeyColumnType),
           ColumnsFit(columns), Len(columns) <= MaxWidth, NEW rws, RowsFit(rws),
           NEW names \in Seq(Cell), Len(names) = Len(columns), IsInjective(names), NEW hdr,
           columns' = RelabelColumns(columns, names), rows' = RelabelRows(rws, columns, names),
           has_headers' = hdr, NEW t, Shows(t, rws, columns, index, BaseLines)
    PROVE  Document!Command(Table(hdr, names, t))
  <1> DEFINE cs == RelabelColumns(columns, names)
             rs == RelabelRows(rws, columns, names)
  <1>1. ColumnsFit(cs) /\ Names(cs) = names
    <2>1. \A i \in DOMAIN columns : columns[i].src # 0 => columns[i].default = Empty
      BY DEF ColumnsFit
    <2> QED
      BY <2>1, RelabelledColumns
  <1>2. RowsFit(rs) /\ rws \in Seq(RowType)
    BY RelabelledRows DEF RowsFit
  <1>3. Shows(t, rs, cs, index, BaseLines)
    BY <1>2, RelabelledShows
  <1>4. cs \in Seq(KeyColumnType) /\ rs \in Seq(RowType)
    BY <1>1, <1>2, NamesOfColumns DEF ColumnsFit, RowsFit
  <1>5. columns' = cs /\ rows' = rs
    OBVIOUS
  <1> HIDE DEF cs, rs
  <1>6. Render(rs, cs, index, BaseLines) = t
    BY <1>3, <1>4, RenderedIs
  <1>7. Shown' = Table(hdr, Names(cs), Render(rs, cs, index, BaseLines))
    BY <1>5, ShownNext
  <1> QED
    BY <1>1, <1>6, <1>7, CommandStep DEF Editable

\* Header mode off: the first row is one of edits, the names.
LEMMA HideHeadersStep ==
    ASSUME IInv, ~lost, NEW dialect \in Dialect, HideHeaders(dialect)
    PROVE  Document!Edit
  <1> DEFINE n == Len(columns)
             names == Names(columns)
             labels == SyntheticHeaders(n)
             cells == [k \in Key |-> IF k \in Range(names) THEN k ELSE NoEdit]
             first == [src |-> 0, cells |-> cells]
             rws == <<first>> \o rows
             s == Shown.rows
             t == <<names>> \o s
  <1>1. /\ Editable /\ status # "closed" /\ has_headers
        /\ columns' = RelabelColumns(columns, labels) /\ has_headers' = FALSE
        /\ rows' = RelabelRows(rws, columns, labels) /\ UNCHANGED <<dir, status, source>>
    BY DEF HideHeaders, Editable, files
  <1>2. /\ columns \in Seq(ColumnType) /\ ColumnsFit(columns) /\ n \in 1 .. MaxWidth
        /\ rows \in Seq(RowType) /\ Len(rows) \in Nat
        /\ \A r \in 1 .. Len(rows) : GoodRow(rows[r], names)
    BY <1>1, OpenTable
  <1>3. /\ names \in Seq(Cell) /\ Len(names) = n /\ n \in Nat /\ columns \in Seq(KeyColumnType)
        /\ DOMAIN names = 1 .. n
        /\ \A j \in 1 .. n : names[j] = columns[j].name /\ names[j] \in Cell
    <2>1. /\ names \in Seq(Cell) /\ Len(names) = n /\ n \in Nat /\ columns \in Seq(KeyColumnType)
          /\ DOMAIN names = 1 .. n /\ \A j \in 1 .. n : names[j] = columns[j].name
      BY <1>2, NamesOfColumns
    <2> QED
      BY <2>1, ElementOfSeq
  <1>4. n \in 0 .. MaxWidth /\ n <= MaxWidth /\ MaxWidth \in Nat
    BY <1>2, IndexedCsvAssumption, LenProperties
  <1>5. labels \in Seq(Cell) /\ Len(labels) = n /\ IsInjective(labels)
    BY <1>4, LabelsAreNames
  <1> HIDE DEF labels
  <1>6. /\ cells \in [Key -> Texts] /\ \A k \in Key : cells[k] # NoEdit => k \in Range(names)
        /\ \A j \in 1 .. n : cells[columns[j].name] = names[j]
    <2>1. Range(names) \subseteq Cell /\ \A j \in 1 .. n : names[j] \in Range(names) \cap Key
      BY <1>3 DEF Range, Key
    <2> QED
      BY <1>3, <2>1 DEF Texts
  <1> HIDE DEF cells
  <1>7. first \in RowType /\ GoodRow(first, names) /\ first.src = 0 /\ first.cells = cells
    BY <1>6 DEF RowType, GoodRow
  <1> HIDE DEF first
  <1>8. /\ rws \in Seq(RowType) /\ Len(rws) = Len(rows) + 1
        /\ \A q \in 1 .. Len(rows) + 1 : rws[q] = IF q = 1 THEN first ELSE rows[q - 1]
    BY <1>2, <1>7, ConsFits
  <1> HIDE DEF rws
  <1>9. RowsFit(rws)
    <2>1. ASSUME NEW q \in 1 .. Len(rws)
          PROVE  GoodRow(rws[q], names)
      <3>1. CASE q = 1
        BY <1>7, <1>8, <3>1
      <3>2. CASE q # 1
        <4>1. q - 1 \in 1 .. Len(rows) /\ rws[q] = rows[q - 1]
          BY <1>2, <1>8, <3>2
        <4> QED
          BY <1>2, <4>1
      <3> QED
        BY <3>1, <3>2
    <2> QED
      BY <1>8, <2>1, GoodRowsFit
  <1>10. /\ s \in Seq(Seq(Cell)) /\ Len(s) = Len(rows)
         /\ \A r \in 1 .. Len(rows) :
               /\ Len(s[r]) = n
               /\ SourceIn(rows[r], index, BaseLines) \in Seq(Cell)
               /\ \A i \in 1 .. n :
                     s[r][i] = Field(rows[r], columns[i], SourceIn(rows[r], index, BaseLines))
    BY <1>1, ShownFits
  <1> HIDE DEF s
  <1>11. /\ t \in Seq(Seq(Cell)) /\ Len(t) = Len(rows) + 1
         /\ \A q \in 1 .. Len(rows) + 1 : t[q] = IF q = 1 THEN names ELSE s[q - 1]
    <2> DEFINE u == names
    <2>1. u \in Seq(Cell)
      BY <1>3
    <2> HIDE DEF u
    <2>2. /\ <<u>> \o s \in Seq(Seq(Cell)) /\ Len(<<u>> \o s) = Len(s) + 1
          /\ \A q \in 1 .. Len(s) + 1 : (<<u>> \o s)[q] = IF q = 1 THEN u ELSE s[q - 1]
      BY <1>10, <2>1, ConsFits
    <2> QED
      BY <1>10, <2>2 DEF u
  <1> HIDE DEF t
  <1>12. ASSUME NEW q \in 1 .. Len(rws)
         PROVE  /\ SourceIn(rws[q], index, BaseLines) \in Seq(Cell)
                /\ Len(t[q]) = n
                /\ \A i \in 1 .. n :
                      t[q][i] = Field(rws[q], columns[i], SourceIn(rws[q], index, BaseLines))
    <2>1. CASE q = 1
      <3>1. rws[q] = first /\ t[q] = names
        BY <1>8, <1>11, <2>1
      <3>2. SourceIn(first, index, BaseLines) \in Seq(Cell)
        BY <1>7, EmptySeq DEF SourceIn
      <3>3. \A i \in 1 .. n : names[i] = Field(first, columns[i], SourceIn(first, index, BaseLines))
        BY <1>3, <1>6, <1>7, IndexedCsvAssumption DEF Field
      <3> QED
        BY <1>3, <3>1, <3>2, <3>3
    <2>2. CASE q # 1
      <3> DEFINE p == q - 1
      <3>1. p \in 1 .. Len(rows) /\ rws[q] = rows[p] /\ t[q] = s[p]
        BY <1>2, <1>8, <1>11, <2>2
      <3> HIDE DEF p
      <3> QED
        BY <1>10, <3>1
    <2> QED
      BY <2>1, <2>2
  <1>13. Shows(t, rws, columns, index, BaseLines)
    BY <1>8, <1>11, <1>12 DEF Shows
  <1>14. Document!Command(Table(FALSE, labels, t))
    BY <1>1, <1>2, <1>3, <1>4, <1>5, <1>9, <1>13, HeaderChangedIs
  <1>15. Document!HeaderShown(Shown) = Table(FALSE, labels, t)
    <2>1. Shown = Table(has_headers, names, s)
      BY ShownParts DEF Table, s
    <2> HIDE DEF s
    <2> QED
      BY <1>3, <2>1, HeaderShownIs DEF t, labels
  <1> QED
    BY <1>1, <1>14, <1>15, CommandIsEdit, ShownFits DEF HideCommand

\* Every column that was read is one the indexed records have.
SourcesFit == BaseLines # <<>> => \A i \in DOMAIN columns : columns[i].src <= Width(BaseLines)

\* A record in the dialect it was written in, or in another, begins with the same text.
FirstTextKept(file, dialect, j) ==
    /\ file.lines[j] \in Record
    /\ RecordsIn(file, dialect)[j] = IF file.dialect = dialect THEN file.lines[j]
                                     ELSE <<file.lines[j][1]>>
    /\ 1 \in DOMAIN file.lines[j] /\ 1 \in DOMAIN RecordsIn(file, dialect)[j]
    /\ RecordsIn(file, dialect)[j][1] = file.lines[j][1]

\* Every record of a file does.
LEMMA RecordInAnyDialect ==
    ASSUME NEW file, NEW dialect, file.lines \in Seq(Record), NEW j \in DOMAIN file.lines
    PROVE  FirstTextKept(file, dialect, j)
  <1>1. file.lines[j] \in Record
    BY LenProperties, ElementOfSeq
  <1>2. file.lines[j] \in Seq(Cell) /\ Len(file.lines[j]) >= 1
        /\ DOMAIN file.lines[j] = 1 .. Len(file.lines[j]) /\ Len(file.lines[j]) \in Nat
    <2>1. MaxWidth \in Nat
      BY IndexedCsvAssumption, LenProperties
    <2> QED
      BY <1>1, <2>1, LenProperties DEF Record
  <1>3. 1 \in DOMAIN file.lines[j]
    BY <1>2
  <1>4. RecordsIn(file, dialect)[j] = IF file.dialect = dialect THEN file.lines[j]
                                      ELSE <<file.lines[j][1]>>
    BY DEF RecordsIn
  <1>5. file.lines[j][1] \in Cell
    BY <1>2, <1>3, ElementOfSeq
  <1> DEFINE first == file.lines[j][1]
  <1>6. <<first>> \in Seq(Cell) /\ DOMAIN <<first>> = {1} /\ <<first>>[1] = first
    <2> HIDE DEF first
    <2>1. first \in Cell
      BY <1>5 DEF first
    <2> QED
      BY <2>1
  <1> QED
    BY <1>1, <1>2, <1>3, <1>4, <1>6 DEF FirstTextKept

\* Records that are single fields are one wide.
LEMMA SingleFieldsWidth ==
    ASSUME NEW lines, \A i \in DOMAIN lines : Len(lines[i]) = 1
    PROVE  Width(lines) \in {0, 1}
  <1> DEFINE S == {Len(lines[i]) : i \in DOMAIN lines} \cup {0}
  <1>1. S \subseteq 0 .. 1 /\ S # {}
    OBVIOUS
  <1> HIDE DEF S
  <1>2. Max(S) \in S
    BY <1>1, MaxIsIn
  <1> QED
    BY <1>1, <1>2 DEF Width, S

\* A field of a row that is read again is the one that is shown, or one of a file that
\* holds other records, as long as it is not empty.
LEMMA FieldReread ==
    ASSUME IInv, ~lost, status # "closed", SourcesFit, NEW row \in RowType,
           row.src # 0 => row.src \in DOMAIN index,
           row.src # 0 => dir[input_path] # NoFile /\ index[row.src] \in DOMAIN CurrentLines,
           NEW c \in 1 .. Len(columns),
           Field(row, columns[c], SourceRecord(row, CurrentLines)) # Empty
    PROVE  Field(row, columns[c], SourceRecord(row, CurrentLines))
             \in Document!MayRead(Field(row, columns[c], SourceIn(row, index, BaseLines)))
  <1> DEFINE rec == SourceRecord(row, CurrentLines)
             old == SourceIn(row, index, BaseLines)
             text == Field(row, columns[c], rec)
             shown == Field(row, columns[c], old)
             src == columns[c].src
             file == dir[input_path]
             j == index[row.src]
  <1>1. shown \in Document!MayRead(shown)
    BY DEF Document!MayRead
  <1>2. /\ columns[c] \in ColumnType /\ (src # 0 => columns[c].default = Empty) /\ src \in Nat
        /\ Len(columns) \in Nat /\ DOMAIN columns = 1 .. Len(columns)
    <2>1. columns \in Seq(ColumnType) /\ ColumnsFit(columns)
      BY OpenTable
    <2>2. columns[c] \in ColumnType /\ DOMAIN columns = 1 .. Len(columns) /\ Len(columns) \in Nat
      BY <2>1, LenProperties, ElementOfSeq
    <2> QED
      BY <2>1, <2>2 DEF ColumnsFit, ColumnType
  <1>3. rec \in Seq(Cell) /\ old \in Seq(Cell)
    BY SourceRecordFits, SourceFits
  <1>4. 0 \notin DOMAIN rec /\ 0 \notin DOMAIN old
    BY <1>3, LenProperties
  <1>5. CASE row.cells[columns[c].name] # NoEdit
    BY <1>1, <1>5 DEF Field
  <1>6. CASE row.cells[columns[c].name] = NoEdit /\ src \notin DOMAIN rec
    <2>1. text = columns[c].default
      BY <1>6 DEF Field
    <2>2. src = 0
      BY <1>2, <2>1
    <2>3. shown = text
      BY <1>4, <1>6, <2>1, <2>2 DEF Field
    <2> QED
      BY <1>1, <2>3
  <1>7. CASE row.cells[columns[c].name] = NoEdit /\ src \in DOMAIN rec
    <2>1. text = rec[src]
      BY <1>7 DEF Field
    <2>2. row.src # 0
      BY <1>7 DEF SourceRecord
    <2>3. /\ file # NoFile /\ file \in FileType /\ loaded \in LoadedType /\ input_path \in Path
          /\ j \in DOMAIN CurrentLines
      BY <2>2 DEF IInv, FilesFit, ScalarsFit
    <2>4. /\ file.lines \in Seq(Record) /\ loaded.lines \in Seq(Record)
          /\ j \in DOMAIN file.lines /\ j \in DOMAIN loaded.lines
          /\ BaseLines \in Seq(Record) /\ DOMAIN BaseLines = DOMAIN loaded.lines
      <3>1. file.lines \in Seq(Record) /\ loaded.lines \in Seq(Record)
        BY <2>3 DEF FileType, LoadedType
      <3>2. j \in DOMAIN file.lines
        BY <2>3, <3>1, RecordsFit DEF CurrentLines
      <3>3. DOMAIN BaseLines = DOMAIN loaded.lines /\ BaseLines \in Seq(Record)
        BY <3>1, RecordsFit DEF BaseLines
      <3> QED
        BY <2>2, <3>1, <3>2, <3>3, SourceFits
    <2>5. rec = RecordsIn(file, format.dialect)[j] /\ old = RecordsIn(loaded, format.dialect)[j]
      BY <2>2 DEF SourceRecord, SourceIn, CurrentLines, BaseLines
    <2>6. /\ file.lines[j] \in Record
          /\ rec = IF file.dialect = format.dialect THEN file.lines[j] ELSE <<file.lines[j][1]>>
          /\ 1 \in DOMAIN file.lines[j] /\ rec[1] = file.lines[j][1]
      <3> HIDE DEF file, j, rec, old, text, shown, src
      <3>1. file.lines \in Seq(Record) /\ j \in DOMAIN file.lines
        BY <2>4
      <3>2. FirstTextKept(file, format.dialect, j)
        BY <3>1, RecordInAnyDialect
      <3> QED
        BY <2>5, <3>2 DEF FirstTextKept
    <2>7. /\ old = IF loaded.dialect = format.dialect THEN loaded.lines[j]
                   ELSE <<loaded.lines[j][1]>>
          /\ 1 \in DOMAIN old /\ old[1] = loaded.lines[j][1]
      <3> HIDE DEF file, j, rec, old, text, shown, src
      <3>1. loaded.lines \in Seq(Record) /\ j \in DOMAIN loaded.lines
        BY <2>4
      <3>2. FirstTextKept(loaded, format.dialect, j)
        BY <3>1, RecordInAnyDialect
      <3> QED
        BY <2>5, <3>2 DEF FirstTextKept
    <2>8. src \in DOMAIN file.lines[j] /\ text = file.lines[j][src]
      <3>1. CASE file.dialect = format.dialect
        BY <1>7, <2>1, <2>6, <3>1
      <3>2. CASE file.dialect # format.dialect
        <4>1. rec = <<file.lines[j][1]>>
          BY <2>6, <3>2
        <4>2. src = 1
          BY <1>7, <4>1
        <4> QED
          BY <2>1, <2>6, <4>2
      <3> QED
        BY <3>1, <3>2
    <2>9. CASE file.lines # loaded.lines
      <3>1. file.lines # NoFile
        <4>1. file.lines \in Seq(Seq(Cell))
          BY <2>4, LenProperties, ElementOfSeq, SeqDef DEF Record
        <4> QED
          BY <4>1, IndexedCsvAssumption
      <3> DEFINE disk == Disk
      <3>2. Disk[input_path] = file.lines
        BY <2>3 DEF Disk
      <3>3. Disk[input_path] \notin {Base.file, NoFile}
        BY <2>9, <3>1, <3>2 DEF Base
      <3>4. text \in Range(file.lines[j]) /\ file.lines[j] \in Range(file.lines)
        BY <2>4, <2>8 DEF Range
      <3>5. /\ text \in Document!Range(file.lines[j])
            /\ file.lines[j] \in Document!Range(Disk[input_path])
        BY <3>2, <3>4, SameOperators
      <3> QED
        BY <2>3, <3>3, <3>5 DEF Document!MayRead, Disk, Base
    <2>10. CASE file.lines = loaded.lines
      <3>1. src = 1 \/ rec = old
        <4>1. CASE file.dialect # format.dialect
          BY <1>7, <2>6, <4>1
        <4>2. CASE file.dialect = format.dialect /\ loaded.dialect = format.dialect
          BY <2>6, <2>7, <2>10, <4>2
        <4>3. CASE file.dialect = format.dialect /\ loaded.dialect # format.dialect
          <5>1. \A i \in DOMAIN BaseLines : BaseLines[i] = <<loaded.lines[i][1]>>
            BY <4>3 DEF BaseLines, RecordsIn
          <5>2. \A i \in DOMAIN BaseLines : Len(BaseLines[i]) = 1
            BY <5>1
          <5>3. Width(BaseLines) \in {0, 1}
            BY <5>2, SingleFieldsWidth
          <5>4. BaseLines # <<>>
            BY <2>4, EmptySeq
          <5>5. src <= Width(BaseLines)
            BY <1>2, <5>4 DEF SourcesFit
          <5>6. src # 0
            BY <1>4, <1>7
          <5> QED
            BY <1>2, <5>3, <5>5, <5>6
        <4> QED
          BY <4>1, <4>2, <4>3
      <3>2. src \in DOMAIN old /\ rec[src] = old[src]
        BY <1>7, <2>6, <2>7, <2>10, <3>1
      <3>3. shown = text
        BY <1>7, <2>1, <3>2 DEF Field
      <3> QED
        BY <1>1, <3>3
    <2> QED
      BY <2>9, <2>10
  <1> QED
    BY <1>5, <1>6, <1>7

\* Header mode on: the header's texts are those of the first row, or of other records.
LEMMA TakeHeadersStep ==
    ASSUME IInv, ~lost, SourcesFit, NEW dialect \in Dialect, TakeHeaders(dialect)
    PROVE  Document!Edit
  <1> DEFINE n == Len(columns)
             rec == SourceRecord(rows[1], CurrentLines)
             names == RowValues(rows[1], columns, rec)
             rws == Tail(rows)
             s == Shown.rows
             t == Tail(s)
  <1>1. /\ Editable /\ status # "closed" /\ ~has_headers /\ rows # <<>> /\ Readable(<<rows[1]>>)
        /\ Empty \notin Range(names) /\ IsInjective(names)
        /\ columns' = RelabelColumns(columns, names) /\ has_headers' = TRUE
        /\ rows' = RelabelRows(rws, columns, names) /\ UNCHANGED <<dir, status, source>>
    BY DEF TakeHeaders, Editable, files
  <1>2. /\ columns \in Seq(ColumnType) /\ ColumnsFit(columns) /\ n \in 1 .. MaxWidth
        /\ rows \in Seq(RowType) /\ Len(rows) \in Nat /\ columns \in Seq(KeyColumnType)
        /\ \A r \in 1 .. Len(rows) : GoodRow(rows[r], Names(columns))
    BY <1>1, OpenTable, NamesOfColumns
  <1>3. n <= MaxWidth /\ n \in Nat
    BY <1>2, IndexedCsvAssumption, LenProperties
  <1>4. /\ rws \in Seq(RowType) /\ Len(rws) = Len(rows) - 1 /\ Len(rows) # 0
        /\ \A q \in 1 .. Len(rows) - 1 : rws[q] = rows[q + 1]
    BY <1>1, <1>2, TailFits
  <1>5. 1 \in 1 .. Len(rows) /\ GoodRow(rows[1], Names(columns)) /\ rows[1] \in RowType
    BY <1>2, <1>4 DEF GoodRow
  <1>6. /\ rows[1].src # 0 => rows[1].src \in DOMAIN index
        /\ rows[1].src # 0 => dir[input_path] # NoFile /\ index[rows[1].src] \in DOMAIN CurrentLines
    <2>1. DOMAIN <<rows[1]>> = {1} /\ <<rows[1]>>[1] = rows[1]
      OBVIOUS
    <2> QED
      BY <1>1, <1>5, <2>1 DEF Readable, GoodRow
  <1>7. rec \in Seq(Cell)
    BY <1>5, <1>6, SourceRecordFits
  <1> HIDE DEF rec
  <1>8. /\ names \in Seq(Cell) /\ Len(names) = n /\ DOMAIN names = 1 .. n
        /\ \A c \in 1 .. n : names[c] = Field(rows[1], columns[c], rec) /\ names[c] \in Cell
    <2>1. /\ names \in Seq(Cell) /\ Len(names) = n /\ DOMAIN names = 1 .. n
          /\ \A c \in 1 .. n : names[c] = Field(rows[1], columns[c], rec)
      BY <1>2, <1>5, <1>7, RowRendered
    <2> QED
      BY <2>1, ElementOfSeq
  <1> HIDE DEF names
  <1>9. RowsFit(rws)
    <2>1. ASSUME NEW q \in 1 .. Len(rws)
          PROVE  GoodRow(rws[q], Names(columns))
      <3>1. q + 1 \in 1 .. Len(rows) /\ rws[q] = rows[q + 1]
        BY <1>2, <1>4
      <3> QED
        BY <1>2, <3>1
    <2> QED
      BY <1>4, <2>1, GoodRowsFit
  <1> HIDE DEF rws
  <1>10. /\ s \in Seq(Seq(Cell)) /\ Len(s) = Len(rows) /\ Shown.names = Names(columns)
         /\ Shown.header = has_headers
         /\ \A r \in 1 .. Len(rows) :
               /\ Len(s[r]) = n
               /\ SourceIn(rows[r], index, BaseLines) \in Seq(Cell)
               /\ \A i \in 1 .. n :
                     s[r][i] = Field(rows[r], columns[i], SourceIn(rows[r], index, BaseLines))
    BY <1>1, ShownFits
  <1>11. ASSUME NEW c \in 1 .. n
         PROVE  names[c] \in Document!MayRead(s[1][c])
    <2>1. names[c] # Empty
      BY <1>1, <1>8 DEF Range
    <2>2. /\ names[c] = Field(rows[1], columns[c], SourceRecord(rows[1], CurrentLines))
          /\ s[1][c] = Field(rows[1], columns[c], SourceIn(rows[1], index, BaseLines))
      BY <1>5, <1>8, <1>10 DEF rec
    <2>3. Field(rows[1], columns[c], SourceRecord(rows[1], CurrentLines))
            \in Document!MayRead(Field(rows[1], columns[c], SourceIn(rows[1], index, BaseLines)))
      BY <1>1, <1>5, <1>6, <2>1, <2>2, FieldReread
    <2> QED
      BY <2>2, <2>3
  <1>12. Document!Distinct(names)
    BY <1>1, SameOperators DEF Document!Distinct
  <1> HIDE DEF s
  <1>13. s # <<>>
    BY <1>4, <1>10, EmptySeq
  <1>14. /\ t \in Seq(Seq(Cell)) /\ Len(t) = Len(rows) - 1
         /\ \A q \in 1 .. Len(rows) - 1 : t[q] = s[q + 1]
    BY <1>10, <1>13, TailFits
  <1> HIDE DEF t
  <1>15. ASSUME NEW q \in 1 .. Len(rws)
         PROVE  /\ SourceIn(rws[q], index, BaseLines) \in Seq(Cell)
                /\ Len(t[q]) = n
                /\ \A i \in 1 .. n :
                      t[q][i] = Field(rws[q], columns[i], SourceIn(rws[q], index, BaseLines))
    <2> DEFINE p == q + 1
    <2>1. q \in 1 .. Len(rows) - 1
      BY <1>4
    <2>2. p \in 1 .. Len(rows)
      BY <1>2, <2>1
    <2>3. rws[q] = rows[p] /\ t[q] = s[p]
      BY <1>4, <1>14, <2>1
    <2> HIDE DEF p
    <2> QED
      BY <1>10, <2>2, <2>3
  <1>16. Shows(t, rws, columns, index, BaseLines)
    BY <1>4, <1>14, <1>15 DEF Shows
  <1>17. Document!Command(Table(TRUE, names, t))
    BY <1>1, <1>2, <1>3, <1>8, <1>9, <1>16, HeaderChangedIs
  <1>18. Document!HeaderTaken(Shown, names) = Table(TRUE, names, t)
    <2>1. Shown = Table(has_headers, Names(columns), s)
      BY ShownParts DEF Table, s
    <2> HIDE DEF s
    <2> QED
      BY <2>1, HeaderTakenIs DEF t
  <1>19. names \in [DOMAIN Shown.names -> Cell]
    <2>1. DOMAIN Shown.names = 1 .. n
      BY <1>2, <1>10, NamesOfColumns
    <2>2. names = [c \in 1 .. n |-> names[c]]
      BY <1>8, LenProperties
    <2> QED
      BY <1>8, <2>1, <2>2
  <1>20. Document!Command(Document!HeaderTaken(Shown, names))
    BY <1>17, <1>18
  <1>21. ~Shown.header /\ Shown.rows # <<>>
    BY <1>1, <1>10, <1>13 DEF s
  <1>22. \A c \in DOMAIN names : names[c] \in Document!MayRead(Shown.rows[1][c])
    BY <1>8, <1>11 DEF s
  <1> QED
    BY <1>12, <1>19, <1>20, <1>21, <1>22, CommandIsEdit DEF TakeCommand

----------------------------------------------------------------------------
(* Steps the document does not see, and all the commands.                  *)

\* The table and what it was read from depend on these variables alone.
LEMMA SameDocument ==
    ASSUME UNCHANGED <<status, lost, format, index, loaded, columns, rows, has_headers>>
    PROVE  Document!Outside
  <1>1. UNCHANGED <<Phase, Shown, Base>>
    BY DEF Phase, Shown, Base, BaseLines, RecordsIn, Names, TableOf, RowValues, SourceRecord
  <1> QED
    BY <1>1 DEF Document!Outside, Phase, Shown, Base, BaseLines

\* Every command of the user is one of the document's, or changes the output dialect only.
LEMMA EditIsDocuments ==
    ASSUME IInv, ~lost, DistinctHeaders, SourcesFit, Edit
    PROVE  Document!Edit \/ Document!Outside
  <1>1. CASE \E r \in RowIndex, name \in Range(headers), value \in Typed : EditCell(r, name, value)
    BY <1>1, EditCellStep
  <1>2. CASE \E r \in RowIndex : DeleteRow(r)
    BY <1>2, DeleteRowStep
  <1>3. CASE \E r \in 1 .. Len(rows) + 1 : \E values \in [DOMAIN headers -> Typed] :
                InsertRow(r, values)
    BY <1>3, InsertRowStep
  <1>4. CASE \E r, s \in RowIndex : SwapRows(r, s)
    BY <1>4, SwapRowsStep
  <1>5. CASE \E c \in 1 .. Len(columns) + 1, name \in Named, value \in Typed :
                InsertColumn(c, name, value)
    BY <1>5, InsertColumnStep
  <1>6. CASE \E name \in Range(headers), new \in Named : RenameColumn(name, new)
    BY <1>6, RenameColumnStep
  <1>7. CASE \E name \in Range(headers) : DeleteColumn(name)
    BY <1>7, DeleteColumnStep
  <1>8. CASE \E d \in Dialect : HideHeaders(d) \/ TakeHeaders(d)
    BY <1>8, HideHeadersStep, TakeHeadersStep
  <1>9. CASE \E d \in Dialect : Convert(d)
    BY <1>9, SameDocument DEF Convert, source, overlay
  <1> QED
    BY <1>1, <1>2, <1>3, <1>4, <1>5, <1>6, <1>7, <1>8, <1>9 DEF Edit

----------------------------------------------------------------------------
(* What reading shows.                                                     *)

\* The columns, the index, the rows and the texts there are just after reading.
FreshColumns(names) == [i \in DOMAIN names |-> Column(names[i], i, Empty)]

FreshIndex(lines, first) == [i \in 1 .. Len(lines) - first |-> i + first]

FreshRows(lines, first) == [i \in 1 .. Len(lines) - first |-> [src |-> i, cells |-> NoCells]]

FreshTexts(lines, first, width) ==
    [i \in 1 .. Len(lines) - first |-> Document!Padded(lines[i + first], width)]

\* Columns and rows just read show the records, each as wide as the names.
LEMMA FreshShows ==
    ASSUME NEW lines \in Seq(Record), NEW names \in Seq(Cell), NEW first \in {0, 1},
           first <= Len(lines)
    PROVE  /\ FreshColumns(names) \in Seq(KeyColumnType) /\ Names(FreshColumns(names)) = names
           /\ FreshRows(lines, first) \in Seq(RowType)
           /\ Shows(FreshTexts(lines, first, Len(names)), FreshRows(lines, first),
                    FreshColumns(names), FreshIndex(lines, first), lines)
  <1> USE DEF FreshColumns, FreshIndex, FreshRows, FreshTexts
  <1> DEFINE n == Len(names)
             m == Len(lines) - first
             cols == FreshColumns(names)
             idx == FreshIndex(lines, first)
             rws == FreshRows(lines, first)
             t == FreshTexts(lines, first, n)
  <1>1. /\ n \in Nat /\ DOMAIN names = 1 .. n /\ Len(lines) \in Nat /\ m \in Nat
        /\ DOMAIN lines = 1 .. Len(lines)
        /\ \A i \in 1 .. n : names[i] \in Cell
        /\ \A i \in 1 .. Len(lines) : lines[i] \in Record
    BY LenProperties, ElementOfSeq
  <1>2. Cell \subseteq Key /\ Empty \in Cell
    BY IndexedCsvAssumption DEF Key
  <1>3. \A i \in 1 .. n : /\ cols[i] \in KeyColumnType /\ cols[i].name = names[i]
                          /\ cols[i].src = i /\ cols[i].default = Empty
    BY <1>1, <1>2 DEF Column, KeyColumnType
  <1>4. cols \in Seq(KeyColumnType) /\ Len(cols) = n
    <2>1. cols \in [1 .. n -> KeyColumnType]
      BY <1>1, <1>3
    <2> QED
      BY <1>1, <2>1, MappedFits
  <1>5. Names(cols) = names
    <2>1. Names(cols) \in Seq(Key) /\ Len(Names(cols)) = n
          /\ \A i \in 1 .. n : Names(cols)[i] = names[i]
      <3>1. /\ Names(cols) \in Seq(Key) /\ Len(Names(cols)) = Len(cols)
            /\ \A i \in 1 .. Len(cols) : Names(cols)[i] = cols[i].name
        BY <1>4, NamesOf
      <3> QED
        BY <1>3, <1>4, <3>1
    <2>2. names \in Seq(Key)
      <3>1. names = [i \in 1 .. n |-> names[i]]
        BY <1>1
      <3>2. names \in [1 .. n -> Key]
        BY <1>1, <1>2, <3>1
      <3> QED
        BY <1>1, <3>2, MappedFits
    <2> QED
      BY <2>1, <2>2, SeqEqual
  <1>6. NoCells \in [Key -> Texts] /\ \A k \in Key : NoCells[k] = NoEdit
    BY DEF NoCells, Texts
  <1>7. \A r \in 1 .. m : rws[r] \in RowType /\ rws[r].src = r /\ rws[r].cells = NoCells
    BY <1>1, <1>6 DEF RowType
  <1>8. rws \in Seq(RowType) /\ Len(rws) = m
    <2>1. rws \in [1 .. m -> RowType]
      BY <1>7
    <2> QED
      BY <1>1, <2>1, MappedFits
  <1>9. ASSUME NEW r \in 1 .. m
        PROVE  /\ SourceIn(rws[r], idx, lines) = lines[r + first]
               /\ lines[r + first] \in Seq(Cell)
               /\ DOMAIN lines[r + first] = 1 .. Len(lines[r + first])
               /\ Len(lines[r + first]) \in Nat
    <2>1. r + first \in 1 .. Len(lines) /\ r # 0 /\ idx[r] = r + first
      BY <1>1
    <2>2. lines[r + first] \in Seq(Cell)
      BY <1>1, <2>1 DEF Record
    <2>3. SourceIn(rws[r], idx, lines) = lines[r + first]
      BY <1>7, <2>1 DEF SourceIn
    <2> QED
      BY <2>2, <2>3, LenProperties
  <1>10. ASSUME NEW r \in 1 .. m
         PROVE  /\ t[r] \in Seq(Cell) /\ Len(t[r]) = n
                /\ \A i \in 1 .. n : t[r][i] = Field(rws[r], cols[i], lines[r + first])
    <2> DEFINE record == lines[r + first]
    <2>1. /\ record \in Seq(Cell) /\ DOMAIN record = 1 .. Len(record) /\ Len(record) \in Nat
          /\ \A i \in DOMAIN record : record[i] \in Cell
      BY <1>9, ElementOfSeq
    <2>2. t[r] = [i \in 1 .. n |-> IF i <= Len(record) THEN record[i] ELSE Empty]
      BY DEF Document!Padded
    <2> HIDE DEF record
    <2>3. \A i \in 1 .. n : i <= Len(record) <=> i \in DOMAIN record
      BY <1>1, <2>1
    <2>4. t[r] \in [1 .. n -> Cell]
      BY <1>2, <2>1, <2>2, <2>3
    <2>5. \A i \in 1 .. n : Field(rws[r], cols[i], record)
                              = IF i \in DOMAIN record THEN record[i] ELSE Empty
      BY <1>1, <1>2, <1>3, <1>6, <1>7 DEF Field
    <2>6. \A i \in 1 .. n : t[r][i] = Field(rws[r], cols[i], record)
      BY <2>2, <2>3, <2>5
    <2>7. t[r] \in Seq(Cell) /\ Len(t[r]) = n
      <3> DEFINE u == t[r]
      <3>1. u \in [1 .. n -> Cell]
        BY <2>4
      <3> HIDE DEF u
      <3>2. u \in Seq(Cell) /\ Len(u) = n
        BY <1>1, <3>1, MappedFits
      <3> QED
        BY <3>2 DEF u
    <2> QED
      BY <2>6, <2>7 DEF record
  <1>11. t \in Seq(Seq(Cell)) /\ Len(t) = m
    <2>1. t \in [1 .. m -> Seq(Cell)]
      BY <1>10
    <2> QED
      BY <1>1, <2>1, MappedFits
  <1>12. ASSUME NEW r \in 1 .. Len(rws)
         PROVE  /\ SourceIn(rws[r], idx, lines) \in Seq(Cell)
                /\ Len(t[r]) = Len(cols)
                /\ \A i \in 1 .. Len(cols) :
                      t[r][i] = Field(rws[r], cols[i], SourceIn(rws[r], idx, lines))
    <2>1. r \in 1 .. m
      BY <1>8
    <2>2. /\ SourceIn(rws[r], idx, lines) = lines[r + first]
          /\ lines[r + first] \in Seq(Cell)
      BY <1>9, <2>1
    <2>3. /\ Len(t[r]) = n
          /\ \A i \in 1 .. n : t[r][i] = Field(rws[r], cols[i], lines[r + first])
      BY <1>10, <2>1
    <2> QED
      BY <1>4, <2>2, <2>3
  <1> QED
    BY <1>4, <1>5, <1>8, <1>11, <1>12 DEF Shows

Basis(file, lines, header, width) ==
    [file |-> file, lines |-> lines, header |-> header, width |-> width]

\* The view of some records: those behind the header, as wide as the widest.
LEMMA ViewIs ==
    ASSUME NEW file, NEW lines \in Seq(Record), NEW header \in BOOLEAN, NEW width,
           lines = <<>> => ~header,
           NEW hdr, hdr = (header /\ ~Wide(lines)),
           NEW first, first = IF hdr THEN 1 ELSE 0,
           NEW w, w = IF lines = <<>> THEN width ELSE Width(lines)
    PROVE  Document!View(Basis(file, lines, header, width))
             = Table(hdr, IF hdr THEN lines[1] ELSE SyntheticHeaders(w),
                     FreshTexts(lines, first, w))
  <1> DEFINE b == Basis(file, lines, header, width)
             h == b.header /\ b.lines # <<>> /\ Document!Width(b.lines) = Len(b.lines[1])
             x == IF b.lines = <<>> THEN b.width ELSE Document!Width(b.lines)
             data == IF h THEN Tail(b.lines) ELSE b.lines
  <1>1. Document!View(b) = Table(h, IF h THEN b.lines[1] ELSE Document!Labels(x),
                                 [i \in DOMAIN data |-> Document!Padded(data[i], x)])
    BY DEF Document!View, Table
  <1>2. b.header = header /\ b.lines = lines /\ b.width = width
    BY DEF Basis
  <1> HIDE DEF b
  <1>3. Document!Width(lines) = Width(lines) /\ Document!Labels(w) = SyntheticHeaders(w)
    BY SameOperators
  <1>4. x = w
    BY <1>2, <1>3
  <1>5. h = hdr
    <2>1. MaxWidth \in Nat
      BY IndexedCsvAssumption, LenProperties
    <2>2. Width(lines) \in Nat /\ (lines # <<>> => Len(lines[1]) \in Nat
                                                    /\ Len(lines[1]) <= Width(lines))
      BY <2>1, WidthFits DEF Record
    <2>3. h = (header /\ lines # <<>> /\ Width(lines) = Len(lines[1]))
      BY <1>2, <1>3
    <2>4. Wide(lines) = (lines # <<>> /\ Width(lines) > Len(lines[1]))
      BY DEF Wide
    <2>5. CASE lines = <<>>
      BY <2>3, <2>5
    <2>6. CASE lines # <<>>
      <3>1. (Width(lines) = Len(lines[1])) = (~(Width(lines) > Len(lines[1])))
        BY <2>2, <2>6
      <3> QED
        BY <2>3, <2>4, <2>6, <3>1
    <2> QED
      BY <2>5, <2>6
  <1>6. /\ DOMAIN data = 1 .. Len(lines) - first
        /\ \A i \in 1 .. Len(lines) - first : data[i] = lines[i + first]
    <2>1. Len(lines) \in Nat /\ DOMAIN lines = 1 .. Len(lines)
      BY LenProperties
    <2>2. CASE hdr
      <3>1. lines # <<>> /\ first = 1 /\ data = Tail(lines)
        BY <1>2, <1>5, <2>2
      <3>2. /\ DOMAIN Tail(lines) = 1 .. Len(lines) - 1
            /\ \A i \in 1 .. Len(lines) - 1 : Tail(lines)[i] = lines[i + 1]
        BY <3>1, TailFits
      <3> QED
        BY <3>1, <3>2
    <2>3. CASE ~hdr
      <3>1. data = lines
        BY <1>2, <1>5, <2>3
      <3> HIDE DEF data, h, x
      <3>2. first = 0
        BY <2>3
      <3>3. Len(lines) - 0 = Len(lines) /\ \A i \in 1 .. Len(lines) : i + 0 = i
        BY <2>1
      <3>4. Len(lines) - first = Len(lines) /\ \A i \in 1 .. Len(lines) : i + first = i
        BY <3>2, <3>3, Zenon
      <3> QED
        BY <2>1, <3>1, <3>4, Zenon
    <2> QED
      BY <2>2, <2>3
  <1> HIDE DEF h, x, data
  <1>7. [i \in DOMAIN data |-> Document!Padded(data[i], x)] = FreshTexts(lines, first, w)
    BY <1>4, <1>6 DEF FreshTexts
  <1> QED
    BY <1>1, <1>2, <1>3, <1>4, <1>5, <1>7 DEF b

\* What reload leaves is the view of the records of the file, in the dialect they are read in.
LEMMA ReloadShows ==
    ASSUME NEW file \in FileType, NEW fmt \in FormatType, NEW cols, Reload(file, fmt, cols),
           Len(cols) \in 0 .. MaxWidth, file.lines = <<>> => ~fmt.header
    PROVE  \E width \in 0 .. Len(Label) :
              LET lines == RecordsIn(file, fmt.dialect)
                  hdr   == fmt.header /\ ~Wide(lines)
              IN /\ Base' = Basis(file.lines, lines, hdr, width)
                 /\ Shown' = Document!View(Basis(file.lines, lines, fmt.header, width))
                 /\ Shown' = Document!View(Base')
                 /\ Shown'.header = hdr
                 /\ width = IF lines = <<>> THEN Len(cols) ELSE Width(lines)
                 /\ SourcesFit'
  <1> DEFINE lines == RecordsIn(file, fmt.dialect)
             hdr   == fmt.header /\ ~Wide(lines)
             width == IF lines = <<>> THEN Len(cols) ELSE Width(lines)
             names == IF hdr THEN lines[1] ELSE SyntheticHeaders(width)
             first == IF hdr THEN 1 ELSE 0
             cs    == FreshColumns(names)
             rs    == FreshRows(lines, first)
             ix    == FreshIndex(lines, first)
             t     == FreshTexts(lines, first, Len(names))
  <1>1. /\ format' = [fmt EXCEPT !.header = hdr] /\ has_headers' = hdr
        /\ columns' = cs /\ index' = ix /\ rows' = rs
        /\ loaded' = [lines |-> file.lines, dialect |-> file.dialect, width |-> Len(names)]
    BY DEF Reload, FreshColumns, FreshIndex, FreshRows
  <1>2. /\ lines \in Seq(Record) /\ (lines = <<>> <=> file.lines = <<>>)
        /\ fmt.header \in BOOLEAN /\ (lines = <<>> => ~fmt.header)
        /\ Len(lines) \in Nat /\ (lines # <<>> => Len(lines) # 0)
    <2>1. file.lines \in Seq(Record) /\ fmt.header \in BOOLEAN
      BY DEF FileType, FormatType
    <2>2. lines \in Seq(Record) /\ Len(lines) = Len(file.lines)
      BY <2>1, RecordsFit
    <2> HIDE DEF lines
    <2> QED
      BY <2>1, <2>2, EmptySeq, LenProperties
  <1>3. /\ format'.header = hdr /\ format'.dialect = fmt.dialect
        /\ loaded'.lines = file.lines /\ loaded'.dialect = file.dialect
        /\ loaded'.width = Len(names)
    BY <1>1 DEF FormatType
  <1>4. BaseLines' = lines
    BY <1>3 DEF BaseLines, RecordsIn
  <1> HIDE DEF lines
  <1>5. /\ MaxWidth \in Nat /\ Len(Label) \in Nat /\ MaxWidth <= Len(Label)
        /\ Width(lines) \in 0 .. MaxWidth
        /\ (lines # <<>> => lines[1] \in Record /\ Len(lines[1]) <= Width(lines))
    BY <1>2, WidthFits, IndexedCsvAssumption, LenProperties
  <1>6. hdr \in BOOLEAN /\ (hdr => lines # <<>>) /\ first \in {0, 1} /\ first <= Len(lines)
    BY <1>2
  <1>7. width \in 0 .. MaxWidth
    BY <1>5
  <1>8. names \in Seq(Cell) /\ Len(names) = width
    <2>1. CASE hdr
      <3>1. lines[1] \in Seq(Cell) /\ Len(lines[1]) \in Nat
        BY <1>5, <1>6, <2>1, LenProperties DEF Record
      <3>2. Width(lines) = Len(lines[1])
        <4>1. ~(Width(lines) > Len(lines[1]))
          BY <1>6, <2>1 DEF Wide
        <4> QED
          BY <1>5, <1>6, <2>1, <3>1, <4>1
      <3> QED
        BY <1>6, <2>1, <3>1, <3>2
    <2>2. CASE ~hdr
      <3> HIDE DEF width
      <3>1. SyntheticHeaders(width) \in Seq(Cell) /\ Len(SyntheticHeaders(width)) = width
        BY <1>7, LabelsAreNames
      <3> QED
        BY <2>2, <3>1
    <2> QED
      BY <2>1, <2>2
  <1>9. /\ cs \in Seq(KeyColumnType) /\ Names(cs) = names /\ rs \in Seq(RowType)
        /\ Shows(t, rs, cs, ix, lines)
    <2> HIDE DEF names, first, hdr, cs, ix, rs, t
    <2> QED
      BY <1>2, <1>6, <1>8, FreshShows DEF cs, rs, ix, t
  <1>10. Shown' = Table(hdr, names, t)
    <2>1. Shown' = Table(has_headers', Names(columns'), Render(rows', columns', index', BaseLines'))
      BY DEF Shown, Table, Render, TableOf, SourceIn, SourceRecord, RowValues, Names, BaseLines,
             RecordsIn
    <2> HIDE DEF cs, rs, ix, t, names, hdr
    <2>2. Shown' = Table(hdr, Names(cs), Render(rs, cs, ix, lines))
      BY <1>1, <1>4, <2>1
    <2>3. Render(rs, cs, ix, lines) = t
      BY <1>9, RenderedIs
    <2> QED
      BY <1>9, <2>2, <2>3
  <1>11. Base' = Basis(file.lines, lines, hdr, width)
    BY <1>3, <1>4, <1>8 DEF Base, Basis
  <1>12. Shown' = Document!View(Basis(file.lines, lines, fmt.header, width))
    <2>1. Document!View(Basis(file.lines, lines, fmt.header, width))
            = Table(hdr, IF hdr THEN lines[1] ELSE SyntheticHeaders(width),
                    FreshTexts(lines, first, width))
      <3>1. /\ width = IF lines = <<>> THEN width ELSE Width(lines)
            /\ hdr = (fmt.header /\ ~Wide(lines)) /\ first = IF hdr THEN 1 ELSE 0
        OBVIOUS
      <3> HIDE DEF hdr, first, width
      <3> QED
        BY <1>2, <3>1, ViewIs
    <2> QED
      BY <1>8, <1>10, <2>1
  <1>13. Shown' = Document!View(Base')
    <2>1. Document!View(Basis(file.lines, lines, hdr, width))
            = Table(hdr, IF hdr THEN lines[1] ELSE SyntheticHeaders(width),
                    FreshTexts(lines, first, width))
      <3>1. width = IF lines = <<>> THEN width ELSE Width(lines)
        OBVIOUS
      <3>2. hdr = (hdr /\ ~Wide(lines)) /\ (lines = <<>> => ~hdr)
        BY <1>6
      <3>3. first = IF hdr THEN 1 ELSE 0
        OBVIOUS
      <3> HIDE DEF hdr, first, width
      <3> QED
        BY <1>2, <1>6, <3>1, <3>2, <3>3, ViewIs
    <2> QED
      BY <1>8, <1>10, <1>11, <2>1
  <1>14. SourcesFit'
    <2>1. ASSUME lines # <<>>, NEW i \in DOMAIN cs
          PROVE  cs[i].src <= Width(lines)
      <3>1. DOMAIN names = 1 .. Len(names) /\ width = Width(lines)
        BY <1>8, <2>1, LenProperties
      <3>2. i \in 1 .. Width(lines) /\ cs[i].src = i
        BY <1>8, <3>1 DEF Column, FreshColumns
      <3> QED
        BY <1>5, <3>2
    <2> HIDE DEF cs
    <2> QED
      BY <1>1, <1>4, <2>1 DEF SourcesFit, Width
  <1>15. Shown'.header = hdr /\ width \in 0 .. Len(Label)
    BY <1>5, <1>7, <1>10 DEF Table
  <1> HIDE DEF width, hdr
  <1>16. width = IF lines = <<>> THEN Len(cols) ELSE Width(lines)
    BY DEF width
  <1> QED
    BY <1>11, <1>12, <1>13, <1>14, <1>15, <1>16 DEF lines, hdr

----------------------------------------------------------------------------
(* The steps of a session.                                                 *)

\* While nothing is unsaved the table is the view of what was read.
ReadFits ==
    status # "closed" /\ ~lost => SourcesFit /\ (~modified => Shown = Document!View(Base))

\* A path holds records, or no file.
LEMMA OnDisk ==
    ASSUME IInv, NEW p \in Path, dir[p] # NoFile
    PROVE  Disk[p] = dir[p].lines /\ Disk[p] # NoFile /\ dir[p] \in FileType
  <1>1. dir[p] \in FileType
    BY DEF IInv, FilesFit
  <1>2. dir[p].lines \in Seq(Seq(Cell))
    <2>1. dir[p].lines \in Seq(Record)
      BY <1>1 DEF FileType
    <2>2. Record \subseteq Seq(Cell)
      BY DEF Record
    <2> QED
      BY <2>1, <2>2
  <1> QED
    BY <1>1, <1>2, IndexedCsvAssumption DEF Disk

\* A reload that succeeds shows the document that is in the file.
LEMMA ReadIsDocuments ==
    ASSUME IInv, UNCHANGED dir, NEW p \in Path, dir[p] # NoFile, NEW fmt \in FormatType, NEW cols,
           Len(cols) \in 0 .. MaxWidth, dir[p].lines = <<>> => ~fmt.header,
           Reload(dir[p], fmt, cols), status' = "open", lost' = FALSE
    PROVE  Document!Read(p, fmt.header) /\ ReadFits'
  <1> DEFINE file == dir[p]
             lines == RecordsIn(file, fmt.dialect)
             hdr == fmt.header /\ ~Wide(lines)
  <1>1. file \in FileType /\ Disk[p] = file.lines /\ Disk[p] # NoFile
    BY OnDisk
  <1>2. PICK width \in 0 .. Len(Label) :
           /\ Base' = Basis(file.lines, lines, hdr, width)
           /\ Shown' = Document!View(Basis(file.lines, lines, fmt.header, width))
           /\ Shown' = Document!View(Base')
           /\ Shown'.header = hdr
           /\ SourcesFit'
    <2> HIDE DEF file
    <2>1. Reload(file, fmt, cols) /\ (file.lines = <<>> => ~fmt.header)
      BY DEF file
    <2> QED
      BY <1>1, <2>1, ReloadShows
  <1>3. lines \in {Disk[p], Document!Misread(Disk[p])}
    BY <1>1 DEF RecordsIn, Document!Misread
  <1> DEFINE b == Basis(file.lines, lines, fmt.header, width)
  <1>4. Shown' = Document!View(b) /\ Base' = [b EXCEPT !.header = Shown'.header]
    <2>1. [Basis(file.lines, lines, fmt.header, width) EXCEPT !.header = hdr]
            = Basis(file.lines, lines, hdr, width)
      BY DEF Basis
    <2> QED
      BY <1>2, <2>1
  <1>5. b = [file |-> Disk[p], lines |-> lines, header |-> fmt.header, width |-> width]
    BY <1>1 DEF Basis
  <1>6. Phase' = "open" /\ UNCHANGED Disk
    BY DEF Phase, Disk
  <1>7. ReadFits'
    BY <1>2 DEF ReadFits
  <1> HIDE DEF lines, b, hdr
  <1>8. \E ls \in {Disk[p], Document!Misread(Disk[p])}, w \in 0 .. Len(Label) :
           LET a == [file |-> Disk[p], lines |-> ls, header |-> fmt.header, width |-> w]
           IN Shown' = Document!View(a) /\ Base' = [a EXCEPT !.header = Shown'.header]
    BY <1>3, <1>4, <1>5
  <1> QED
    BY <1>1, <1>6, <1>7, <1>8 DEF Document!Read, Disk, Phase, Shown, Base, BaseLines

\* As long as neither the table nor what was read changes, nothing else matters.
LEMMA ReadStays ==
    ASSUME ReadFits, status' # "closed" => status # "closed",
           UNCHANGED <<lost, format, index, loaded, columns, rows, has_headers, modified>>
    PROVE  ReadFits'
  <1>1. UNCHANGED <<Shown, Base, BaseLines>>
    BY DEF Shown, Base, BaseLines, RecordsIn, Names, TableOf, RowValues, SourceRecord
  <1>2. UNCHANGED Document!View(Base)
    BY <1>1
  <1>3. UNCHANGED Width(BaseLines)
    BY <1>1
  <1> QED
    BY <1>1, <1>2, <1>3 DEF ReadFits, SourcesFit

\* A new session, on the file as it is.
LEMMA OpenStep ==
    ASSUME IInv, NEW p \in Path, Open(p)
    PROVE  (lost \/ Document!Open) /\ ReadFits'
  <1> DEFINE fmt == [header |-> TRUE, dialect |-> dir[p].dialect]
  <1>1. /\ dir[p] # NoFile /\ dir[p].lines # <<>> /\ Reload(dir[p], fmt, <<>>)
        /\ status = "closed" /\ status' = "open" /\ lost' = FALSE /\ UNCHANGED dir
    BY DEF Open, files
  <1>2. fmt \in FormatType
    BY <1>1 DEF IInv, FilesFit, FileType, FormatType
  <1>3. Len(<<>>) \in 0 .. MaxWidth
    BY IndexedCsvAssumption, LenProperties
  <1>4. Document!Read(p, fmt.header) /\ ReadFits'
    <2> HIDE DEF fmt
    <2> QED
      BY <1>1, <1>2, <1>3, ReadIsDocuments
  <1>5. Document!Read(p, TRUE)
    BY <1>4
  <1>6. ~lost => Phase = "closed"
    BY <1>1 DEF Phase
  <1> QED
    BY <1>4, <1>5, <1>6 DEF Document!Open, Phase

\* reset: the file is read again in the format there was, or the document is lost.
LEMMA ResetStep ==
    ASSUME IInv, Reset
    PROVE  (lost \/ Document!Reset \/ Document!FailedReset) /\ ReadFits'
  <1>1. status = "open" /\ status' = "open" /\ UNCHANGED dir
    BY DEF Reset, files
  <1>2. PICK p \in Recovered :
           IF ReloadFails(p, format, columns) THEN ReloadFailure(p, format)
           ELSE Reload(dir[p], format, columns) /\ lost' = FALSE
    BY DEF Reset
  <1>3. ~lost => Phase = "open"
    BY <1>1 DEF Phase
  <1>4. CASE ReloadFails(p, format, columns)
    <2>1. lost' = TRUE
      BY <1>2, <1>4 DEF ReloadFailure
    <2>2. Phase' = "lost" /\ UNCHANGED Disk /\ ReadFits'
      BY <1>1, <2>1 DEF Phase, Disk, ReadFits
    <2> QED
      BY <1>3, <2>2 DEF Document!FailedReset, Phase, Disk
  <1>5. CASE ~ReloadFails(p, format, columns)
    <2>1. p \in Path /\ dir[p] # NoFile
      BY RecoveredFits
    <2>2. format \in FormatType /\ Len(columns) \in 0 .. MaxWidth
      BY <1>1, OpenTable DEF IInv, ScalarsFit
    <2>3. dir[p].lines = <<>> => ~format.header
      BY <1>5 DEF ReloadFails
    <2>4. Document!Read(p, format.header) /\ ReadFits'
      BY <1>1, <1>2, <1>5, <2>1, <2>2, <2>3, ReadIsDocuments
    <2>5. Base.header = format.header
      BY DEF Base
    <2> QED
      BY <1>3, <2>1, <2>4, <2>5 DEF Document!Reset, Phase, Base, BaseLines
  <1> QED
    BY <1>4, <1>5

\* read_csv_options: only a table that is the view of what was read is read anew.
LEMMA ReadCsvOptionsStep ==
    ASSUME IInv, ReadFits, NEW header \in BOOLEAN, ReadCsvOptions(header)
    PROVE  (lost \/ Document!ReadAgain \/ Document!Outside) /\ ReadFits'
  <1>1. status = "open" /\ status' = "open" /\ UNCHANGED dir /\ ~modified
    BY DEF ReadCsvOptions, files
  <1>2. PICK p \in Recovered :
           LET fmt == [header |-> header, dialect |-> dir[p].dialect]
           IN IF ReloadFails(p, fmt, columns)
              THEN UNCHANGED <<stamp, format, index, headers_disabled, loaded, lost,
                               output_format, overlay, modified, steps>>
              ELSE Reload(dir[p], fmt, columns) /\ lost' = FALSE
    BY DEF ReadCsvOptions
  <1> DEFINE fmt == [header |-> header, dialect |-> dir[p].dialect]
  <1>3. ~lost => Phase = "open" /\ Shown = Document!View(Base)
    BY <1>1 DEF Phase, ReadFits
  <1>4. p \in Path /\ dir[p] # NoFile /\ dir[p] \in FileType
    BY RecoveredFits
  <1>5. CASE ReloadFails(p, fmt, columns)
    <2>1. UNCHANGED <<format, index, loaded, lost, overlay, modified>>
      BY <1>2, <1>5
    <2>2. Document!Outside
      BY <1>1, <2>1, SameDocument DEF overlay
    <2>3. UNCHANGED <<status, lost, format, index, loaded, columns, rows, has_headers, modified>>
      BY <1>1, <2>1 DEF overlay
    <2> QED
      BY <2>2, <2>3, ReadStays
  <1>6. CASE ~ReloadFails(p, fmt, columns)
    <2>1. fmt \in FormatType /\ Len(columns) \in 0 .. MaxWidth
      BY <1>1, <1>4, OpenTable DEF FormatType, FileType
    <2>2. dir[p].lines = <<>> => ~fmt.header
      BY <1>6 DEF ReloadFails
    <2>3. Reload(dir[p], fmt, columns) /\ lost' = FALSE /\ fmt.header = header
      BY <1>2, <1>6
    <2>4. Document!Read(p, header) /\ ReadFits'
      <3> HIDE DEF fmt
      <3> QED
        BY <1>1, <1>4, <2>1, <2>2, <2>3, ReadIsDocuments
    <2> QED
      BY <1>3, <1>4, <2>4 DEF Document!ReadAgain, Phase, Shown, Base, BaseLines
  <1> QED
    BY <1>5, <1>6

\* A command leaves no column read from a field that no column was read from.
SourcesFrom(cols) ==
    \A i \in DOMAIN cols :
        cols[i].src = 0 \/ \E j \in DOMAIN columns : cols[i].src = columns[j].src

\* Relabelled columns are read from where they were.
LEMMA RelabelledSources ==
    ASSUME NEW cols \in Seq(KeyColumnType), SourcesFrom(cols), NEW names
    PROVE  SourcesFrom(RelabelColumns(cols, names))
  <1> DEFINE t == RelabelColumns(cols, names)
  <1>1. DOMAIN t = DOMAIN cols /\ \A i \in DOMAIN cols : t[i] = [cols[i] EXCEPT !.name = names[i]]
    BY DEF RelabelColumns
  <1>2. \A i \in DOMAIN cols : cols[i] \in KeyColumnType
    BY LenProperties, ElementOfSeq
  <1> HIDE DEF t
  <1>3. \A i \in DOMAIN cols : t[i].src = cols[i].src
    BY <1>1, <1>2 DEF KeyColumnType
  <1>4. SourcesFrom(t)
    BY <1>1, <1>3 DEF SourcesFrom
  <1> QED
    BY <1>4 DEF t

\* insert_column adds a column that is read from nowhere.
LEMMA InsertedSources ==
    ASSUME IInv, NEW c \in 1 .. Len(columns) + 1, NEW name \in Named, NEW value \in Typed,
           InsertColumn(c, name, value)
    PROVE  SourcesFrom(columns')
  <1> DEFINE key  == IF has_headers THEN name ELSE NewKey
             new  == Column(key, 0, value)
             cols == InsertAt(columns, c, new)
  <1>1. /\ status # "closed"
        /\ columns' = cols \/ columns' = RelabelColumns(cols, SyntheticHeaders(Len(cols)))
    BY DEF InsertColumn, Changed, Editable
  <1>2. columns \in Seq(KeyColumnType) /\ DOMAIN columns = 1 .. Len(columns)
        /\ Len(columns) \in Nat
    BY <1>1, OpenTable, NamesOfColumns
  <1>3. key \in Key /\ value \in Cell
    BY IndexedCsvAssumption DEF Key
  <1>4. new \in KeyColumnType /\ new.src = 0
    BY <1>3 DEF Column, KeyColumnType
  <1> HIDE DEF new
  <1>5. /\ cols \in Seq(KeyColumnType) /\ DOMAIN cols = 1 .. Len(columns) + 1
        /\ \A j \in 1 .. Len(columns) + 1 :
              cols[j] = IF j < c THEN columns[j] ELSE IF j = c THEN new ELSE columns[j - 1]
    BY <1>2, <1>4, InsertAtFits
  <1> HIDE DEF cols
  <1>6. ASSUME NEW j \in 1 .. Len(columns) + 1
        PROVE  cols[j] = new \/ \E i \in DOMAIN columns : cols[j] = columns[i]
    BY <1>2, <1>5
  <1>7. SourcesFrom(cols)
    BY <1>4, <1>5, <1>6 DEF SourcesFrom
  <1> QED
    BY <1>1, <1>5, <1>7, RelabelledSources

\* delete_column and rename_column leave the others as they are.
LEMMA DeletedSources ==
    ASSUME IInv, NEW name, DeleteColumn(name)
    PROVE  SourcesFrom(columns')
  <1> DEFINE d == ColumnIndex(name)
             cols == RemoveAt(columns, d)
  <1>1. /\ status # "closed" /\ HasColumn(name)
        /\ columns' = cols \/ columns' = RelabelColumns(cols, SyntheticHeaders(Len(cols)))
    BY DEF DeleteColumn, Changed, Editable
  <1>2. /\ columns \in Seq(ColumnType) /\ DOMAIN columns = 1 .. Len(columns)
        /\ Len(columns) \in Nat /\ d \in 1 .. Len(columns)
    BY <1>1, OpenTable, NamesOfColumns, NamedColumn
  <1> HIDE DEF d
  <1>3. /\ cols \in Seq(ColumnType) /\ DOMAIN cols = 1 .. Len(columns) - 1
        /\ \A j \in 1 .. Len(columns) - 1 : cols[j] = IF j < d THEN columns[j] ELSE columns[j + 1]
    BY <1>2, RemoveAtFits
  <1> HIDE DEF cols
  <1>4. ASSUME NEW j \in 1 .. Len(columns) - 1
        PROVE  \E i \in DOMAIN columns : cols[j] = columns[i]
    <2>1. CASE j < d
      BY <1>2, <1>3, <2>1
    <2>2. CASE ~(j < d)
      <3>1. cols[j] = columns[j + 1] /\ j + 1 \in 1 .. Len(columns)
        BY <1>2, <1>3, <2>2
      <3> QED
        BY <1>2, <3>1
    <2> QED
      BY <2>1, <2>2
  <1>5. SourcesFrom(cols) /\ cols \in Seq(KeyColumnType)
    BY <1>3, <1>4, NamesOfColumns DEF SourcesFrom
  <1> QED
    BY <1>1, <1>5, RelabelledSources

\* rename_column changes a name only.
LEMMA RenamedSources ==
    ASSUME IInv, NEW name, NEW new \in Named, RenameColumn(name, new)
    PROVE  SourcesFrom(columns')
  <1> DEFINE d == ColumnIndex(name)
  <1>1. /\ status # "closed" /\ HasColumn(name)
        /\ columns' = [columns EXCEPT ![d] = [columns[d] EXCEPT !.name = new]]
    BY DEF RenameColumn, Changed, Editable
  <1>2. /\ columns \in Seq(ColumnType) /\ DOMAIN columns = 1 .. Len(columns)
        /\ d \in 1 .. Len(columns)
    BY <1>1, OpenTable, NamedColumn
  <1> HIDE DEF d
  <1>3. columns[d] \in ColumnType
    BY <1>2, ElementOfSeq
  <1>4. [columns[d] EXCEPT !.name = new].src = columns[d].src
    BY <1>3 DEF ColumnType
  <1>5. \A i \in DOMAIN columns : columns'[i].src = columns[i].src
    BY <1>1, <1>2, <1>4
  <1> QED
    BY <1>1, <1>2, <1>5 DEF SourcesFrom

\* Every command leaves unsaved changes, on columns read from where they were.
LEMMA EditKeepsRead ==
    ASSUME IInv, ReadFits, Edit
    PROVE  ReadFits'
  <1>1. /\ status = "open" /\ UNCHANGED <<source, status>>
        /\ modified' = TRUE
    BY DEF Edit, EditCell, DeleteRow, InsertRow, SwapRows, InsertColumn, RenameColumn,
           DeleteColumn, HideHeaders, TakeHeaders, Convert, Changed, Editable
  <1>2. SourcesFrom(columns)
    BY DEF SourcesFrom
  <1>3. columns \in Seq(KeyColumnType)
    BY <1>1, OpenTable, NamesOfColumns
  <1>4. SourcesFrom(columns')
    <2>1. CASE UNCHANGED columns
      BY <1>2, <2>1 DEF SourcesFrom
    <2>2. CASE \E names : columns' = RelabelColumns(columns, names)
      BY <1>2, <1>3, <2>2, RelabelledSources
    <2>3. CASE \E c \in 1 .. Len(columns) + 1, name \in Named, value \in Typed :
                  InsertColumn(c, name, value)
      BY <2>3, InsertedSources
    <2>4. CASE \E name \in Range(headers), new \in Named : RenameColumn(name, new)
      BY <2>4, RenamedSources
    <2>5. CASE \E name \in Range(headers) : DeleteColumn(name)
      BY <2>5, DeletedSources
    <2>6. CASE \E d \in Dialect : HideHeaders(d) \/ TakeHeaders(d)
      BY <2>2, <2>6 DEF HideHeaders, TakeHeaders
    <2>7. CASE \E d \in Dialect : Convert(d)
      BY <2>1, <2>7 DEF Convert, overlay
    <2>8. CASE \E r \in RowIndex, name \in Range(headers), value \in Typed : EditCell(r, name, value)
      BY <2>1, <2>8 DEF EditCell, Changed
    <2>9. CASE \E r \in RowIndex : DeleteRow(r)
      BY <2>1, <2>9 DEF DeleteRow, Changed
    <2>10. CASE \E r \in 1 .. Len(rows) + 1 : \E values \in [DOMAIN headers -> Typed] :
                   InsertRow(r, values)
      BY <2>1, <2>10 DEF InsertRow, Changed
    <2>11. CASE \E r, s \in RowIndex : SwapRows(r, s)
      BY <2>1, <2>11 DEF SwapRows, Changed
    <2> QED
      BY <2>3, <2>4, <2>5, <2>6, <2>7, <2>8, <2>9, <2>10, <2>11 DEF Edit
  <1>5. UNCHANGED BaseLines
    BY <1>1 DEF source, BaseLines, RecordsIn
  <1>6. Width(BaseLines) \in Nat
    <2>1. loaded.lines \in Seq(Record)
      BY DEF IInv, ScalarsFit, LoadedType
    <2>2. BaseLines \in Seq(Record)
      BY <2>1, RecordsFit DEF BaseLines
    <2> QED
      BY <2>2, WidthFits, IndexedCsvAssumption, LenProperties
  <1>7. ASSUME ~lost
        PROVE  SourcesFit'
    <2>1. SourcesFit
      BY <1>1, <1>7 DEF ReadFits
    <2>2. UNCHANGED Width(BaseLines)
      BY <1>5
    <2>3. ASSUME BaseLines # <<>>, NEW i \in DOMAIN columns'
          PROVE  columns'[i].src <= Width(BaseLines)
      <3>1. \A j \in DOMAIN columns : columns[j].src <= Width(BaseLines)
        BY <2>1, <2>3 DEF SourcesFit
      <3>2. columns'[i].src = 0 \/ \E j \in DOMAIN columns : columns'[i].src = columns[j].src
        BY <1>4 DEF SourcesFrom
      <3> QED
        BY <1>6, <3>1, <3>2
    <2> QED
      BY <1>5, <2>2, <2>3 DEF SourcesFit
  <1> QED
    BY <1>1, <1>7 DEF ReadFits, source

----------------------------------------------------------------------------
(* A save.                                                                 *)

\* A table whose rows are all as wide as its names, which are labels without a header.
FullTable(h, names, rs) ==
    /\ names \in Seq(Cell) /\ Len(names) \in 1 .. MaxWidth
    /\ ~h => names = SyntheticHeaders(Len(names))
    /\ rs \in Seq(Seq(Cell)) /\ \A i \in DOMAIN rs : Len(rs[i]) = Len(names)

\* A table put in a file is read back as the table it was: no record is wider than
\* the first, and none is padded.
LEMMA SavedIsReread ==
    ASSUME NEW h \in BOOLEAN, NEW names, NEW rs, FullTable(h, names, rs),
           NEW lines, lines = Document!Lines(Table(h, names, rs))
    PROVE  /\ lines \in Seq(Record) /\ ~Wide(lines)
           /\ lines = <<>> => ~h
           /\ lines # <<>> => Width(lines) = Len(names)
           /\ Document!View(Basis(lines, lines, h, Len(names))) = Table(h, names, rs)
  <1> DEFINE n == Len(names)
             m == Len(rs)
             first == IF h THEN 1 ELSE 0
  <1>1. /\ n \in 1 .. MaxWidth /\ n \in Nat /\ MaxWidth \in Nat /\ m \in Nat /\ DOMAIN rs = 1 .. m
        /\ names \in Seq(Cell) /\ names \in Record
    BY IndexedCsvAssumption, LenProperties DEF FullTable, Record
  <1>2. \A i \in 1 .. m : rs[i] \in Seq(Cell) /\ Len(rs[i]) = n /\ rs[i] \in Record
    BY <1>1, ElementOfSeq DEF FullTable, Record
  <1>3. rs \in Seq(Record)
    <2>1. rs = [i \in 1 .. m |-> rs[i]]
      BY <1>1 DEF FullTable
    <2>2. rs \in [1 .. m -> Record]
      BY <1>2, <2>1
    <2> QED
      BY <1>1, <2>2, MappedFits
  <1>4. lines = IF h THEN <<names>> \o rs ELSE rs
    BY LinesIs
  <1>5. first \in {0, 1} /\ m + first \in Nat
    BY <1>1
  <1> HIDE DEF m, n
  <1>6. /\ lines \in Seq(Record) /\ DOMAIN lines = 1 .. m + first /\ Len(lines) = m + first
        /\ \A i \in 1 .. m : lines[i + first] = rs[i]
        /\ h => lines[1] = names
    <2>1. CASE h
      <3> DEFINE s == <<names>> \o rs
      <3>1. /\ s \in Seq(Record) /\ Len(s) = m + 1 /\ DOMAIN s = 1 .. m + 1
            /\ \A i \in 1 .. m + 1 : s[i] = IF i = 1 THEN names ELSE rs[i - 1]
        BY <1>1, <1>3, ConsFits DEF m
      <3>2. lines = s /\ first = 1
        BY <1>4, <2>1
      <3> HIDE DEF s, first
      <3>3. \A i \in 1 .. m : i + 1 \in 1 .. m + 1 /\ i + 1 # 1 /\ (i + 1) - 1 = i
        BY <1>1
      <3>4. \A i \in 1 .. m : s[i + 1] = rs[i]
        BY <3>1, <3>3
      <3>5. s[1] = names
        BY <1>1, <3>1
      <3> QED
        BY <3>1, <3>2, <3>4, <3>5
    <2>2. CASE ~h
      <3>1. lines = rs /\ first = 0
        BY <1>4, <2>2
      <3> HIDE DEF first
      <3>2. m + 0 = m /\ \A i \in 1 .. m : i + 0 = i
        BY <1>1
      <3>3. m + first = m /\ \A i \in 1 .. m : i + first = i
        BY <3>1, <3>2, Zenon
      <3>4. Len(rs) = m
        BY DEF m
      <3> QED
        BY <1>1, <1>3, <2>2, <3>1, <3>3, <3>4, Zenon
    <2> QED
      BY <2>1, <2>2
  <1>7. \A i \in DOMAIN lines : Len(lines[i]) = n
    <2> TAKE i \in DOMAIN lines
    <2>1. CASE h /\ i = 1
      BY <1>6, <2>1 DEF n
    <2>2. CASE ~(h /\ i = 1)
      <3>1. i - first \in 1 .. m /\ (i - first) + first = i
        BY <1>1, <1>6, <2>2
      <3>2. lines[i] = rs[i - first]
        BY <1>6, <3>1
      <3> QED
        BY <1>2, <3>1, <3>2
    <2> QED
      BY <2>1, <2>2
  <1>8. lines # <<>> => Width(lines) = n /\ Len(lines[1]) = n
    <2> DEFINE S == {Len(lines[i]) : i \in DOMAIN lines} \cup {0}
    <2>1. ASSUME lines # <<>>
          PROVE  1 \in DOMAIN lines
      <3>1. Len(lines) \in Nat /\ Len(lines) # 0
        BY <1>6, <2>1, EmptySeq, LenProperties
      <3> QED
        BY <1>6, <3>1
    <2>2. ASSUME lines # <<>>
          PROVE  S = {0, n}
      BY <1>7, <2>1, <2>2
    <2> HIDE DEF S
    <2>3. ASSUME lines # <<>>
          PROVE  Max(S) = n
      <3>1. S \subseteq Nat /\ S # {} /\ S \subseteq 0 .. n
        BY <1>1, <2>2, <2>3
      <3>2. Max(S) \in S /\ \A x \in S : x <= Max(S)
        BY <1>1, <3>1, MaxIsIn
      <3> DEFINE x == Max(S)
      <3> HIDE DEF x
      <3>3. x \in {0, n} /\ n <= x
        BY <2>2, <2>3, <3>2 DEF x
      <3>4. x = n
        BY <1>1, <3>3
      <3> QED
        BY <3>4 DEF x
    <2> QED
      BY <1>7, <2>1, <2>3 DEF Width, S
  <1>9. ~Wide(lines)
    BY <1>1, <1>8 DEF Wide
  <1>10. lines = <<>> => ~h
    <2>1. h => Len(lines) # 0
      BY <1>1, <1>6
    <2> QED
      BY <1>6, <2>1, EmptySeq
  <1>11. FreshTexts(lines, first, n) = rs
    <2>1. Len(lines) - first = m
      BY <1>1, <1>5, <1>6
    <2>2. \A i \in 1 .. m : Document!Padded(lines[i + first], n) = rs[i]
      <3> TAKE i \in 1 .. m
      <3>1. lines[i + first] = rs[i] /\ rs[i] \in Seq(Cell) /\ Len(rs[i]) = n
        BY <1>2, <1>6
      <3> DEFINE r == rs[i]
      <3> HIDE DEF r
      <3>2. r \in Seq(Cell) /\ Len(r) = n
        BY <3>1 DEF r
      <3>3. r = [c \in 1 .. n |-> r[c]]
        BY <3>2
      <3>4. [c \in 1 .. n |-> IF c <= Len(r) THEN r[c] ELSE Empty] = [c \in 1 .. n |-> r[c]]
        BY <1>1, <3>2
      <3>5. Document!Padded(r, n) = r
        BY <3>3, <3>4 DEF Document!Padded
      <3> QED
        BY <3>1, <3>5 DEF r
    <2>3. rs = [i \in 1 .. m |-> rs[i]]
      BY <1>1 DEF FullTable
    <2> QED
      BY <2>1, <2>2, <2>3 DEF FreshTexts
  <1>12. Document!View(Basis(lines, lines, h, n)) = Table(h, names, rs)
    <2>1. h = (h /\ ~Wide(lines)) /\ first = IF h THEN 1 ELSE 0
      BY <1>9
    <2>2. n = IF lines = <<>> THEN n ELSE Width(lines)
      BY <1>8
    <2> HIDE DEF first
    <2>3. Document!View(Basis(lines, lines, h, n))
            = Table(h, IF h THEN lines[1] ELSE SyntheticHeaders(n), FreshTexts(lines, first, n))
      BY <1>6, <1>10, <2>1, <2>2, ViewIs
    <2>4. (IF h THEN lines[1] ELSE SyntheticHeaders(n)) = names
      BY <1>6 DEF FullTable, n
    <2> QED
      BY <1>11, <2>3, <2>4
  <1> QED
    BY <1>6, <1>8, <1>9, <1>10, <1>12 DEF n

\* The columns in the order that was asked for, or as they are.
OrderedBy(cols, perm) ==
    /\ cols \in Seq(ColumnType) /\ Len(cols) = Len(columns)
    /\ \A i \in 1 .. Len(columns) : cols[i] = columns[perm[i]]

\* With distinct headers, an order of them is a permutation of the columns.
LEMMA OrderIsPermutation ==
    ASSUME IInv, ~lost, DistinctHeaders, status = "saving"
    PROVE  \E perm \in Document!Orders(Len(columns)) : OrderedBy(OrderedColumns(order), perm)
  <1> DEFINE n == Len(columns)
             cols == OrderedColumns(order)
  <1>1. /\ n \in Nat /\ columns \in Seq(ColumnType) /\ DOMAIN columns = 1 .. n
        /\ headers = Names(columns) /\ NamesFit(headers, has_headers)
        /\ headers \in Seq(Cell) /\ Len(headers) = n /\ DOMAIN headers = 1 .. n
        /\ \A i \in 1 .. n : headers[i] = columns[i].name
    BY OpenTable, NamesOfColumns
  <1>2. \A a, b \in 1 .. n : headers[a] = headers[b] => a = b
    BY <1>1 DEF NamesFit, IsInjective
  <1>3. order \in ColumnOrders
    BY DEF IInv, OrderFits
  <1>4. cols \in Seq(ColumnType)
    BY OrderedFit
  <1> HIDE DEF n
  <1>5. CASE order = <<>>
    <2> DEFINE perm == [i \in 1 .. n |-> i]
    <2>1. perm \in Document!Orders(n)
      BY DEF Document!Orders, Document!IsInjective
    <2>2. cols = columns
      BY <1>5 DEF OrderedColumns
    <2>3. \A i \in 1 .. n : perm[i] = i
      OBVIOUS
    <2> HIDE DEF perm
    <2>4. OrderedBy(cols, perm)
      BY <1>1, <2>2, <2>3 DEF OrderedBy, n
    <2> QED
      BY <2>1, <2>4 DEF n
  <1>6. CASE order # <<>>
    <2>1. PICK p \in [DOMAIN headers -> DOMAIN headers] :
             IsInjective(p) /\ order = [i \in DOMAIN headers |-> headers[p[i]]]
      BY <1>3, <1>6 DEF ColumnOrders
    <2>2. p \in [1 .. n -> 1 .. n]
      BY <1>1, <2>1
    <2>3. p \in Document!Orders(n)
      BY <2>1, <2>2, SameOperators DEF Document!Orders
    <2>4. cols = [i \in 1 .. n |-> columns[ColumnIndex(order[i])]]
      <3>1. DOMAIN order = 1 .. n
        BY <1>1, <2>1
      <3> QED
        BY <1>6, <3>1 DEF OrderedColumns
    <2>5. ASSUME NEW i \in 1 .. n
          PROVE  cols[i] = columns[p[i]]
      <3>1. p[i] \in 1 .. n /\ order[i] = headers[p[i]]
        BY <1>1, <2>1, <2>2
      <3>2. HasColumn(order[i])
        BY <1>1, <3>1 DEF HasColumn, Range
      <3>3. /\ ColumnIndex(order[i]) \in 1 .. n
            /\ headers[ColumnIndex(order[i])] = headers[p[i]]
        BY <1>1, <3>1, <3>2, ColumnFound
      <3>4. ColumnIndex(order[i]) = p[i]
        BY <1>2, <3>1, <3>3
      <3> QED
        BY <2>4, <3>4
    <2>6. Len(cols) = n
      <3> HIDE DEF cols
      <3>1. DOMAIN cols = 1 .. n
        BY <2>4
      <3> QED
        BY <1>1, <1>4, <3>1, LenProperties
    <2> HIDE DEF cols
    <2>7. OrderedBy(cols, p)
      BY <1>4, <2>5, <2>6 DEF OrderedBy, n
    <2> QED
      BY <2>3, <2>7 DEF n, cols
  <1> QED
    BY <1>5, <1>6

\* What is written, in the order the user sees, is the table in that order.
LEMMA WrittenIsShown ==
    ASSUME IInv, ~lost, status = "saving", CurrentLines = BaseLines,
           NEW perm \in Document!Orders(Len(columns)), OrderedBy(OrderedColumns(order), perm),
           NEW names, names = IF has_headers THEN Names(OrderedColumns(order))
                              ELSE SyntheticHeaders(Len(columns)),
           NEW data, data = TableOf(OrderedColumns(order), CurrentLines)
    PROVE  /\ Document!Ordered(Shown, perm) = Table(has_headers, names, data)
           /\ FullTable(has_headers, names, data) /\ Len(names) = Len(columns)
           /\ Written = Document!Lines(Table(has_headers, names, data))
  <1> DEFINE n == Len(columns)
             cols == OrderedColumns(order)
             ns == Names(columns)
             own == Names(cols)
             rs == Shown.rows
             pn == [c \in DOMAIN ns |-> ns[perm[c]]]
             pr == [i \in DOMAIN rs |-> [c \in DOMAIN perm |-> rs[i][perm[c]]]]
  <1>1. /\ n \in 1 .. MaxWidth /\ n \in Nat /\ columns \in Seq(ColumnType)
        /\ rows \in Seq(RowType) /\ Len(rows) \in Nat /\ DOMAIN rows = 1 .. Len(rows)
        /\ \A r \in 1 .. Len(rows) : rows[r] \in RowType
        /\ has_headers \in BOOLEAN /\ NamesFit(ns, has_headers)
    BY OpenTable, IndexedCsvAssumption DEF GoodRow
  <1>2. /\ cols \in Seq(ColumnType) /\ Len(cols) = n
        /\ \A i \in 1 .. n : cols[i] = columns[perm[i]]
    BY DEF OrderedBy
  <1>3. perm \in [1 .. n -> 1 .. n]
    BY DEF Document!Orders
  <1>4. /\ ns \in Seq(Cell) /\ Len(ns) = n /\ DOMAIN ns = 1 .. n
        /\ \A i \in 1 .. n : ns[i] = columns[i].name
    BY <1>1, NamesOfColumns
  <1> HIDE DEF n, cols, ns
  <1>5. /\ own \in Seq(Cell) /\ Len(own) = n /\ own = pn
    <2>1. /\ own \in Seq(Cell) /\ Len(own) = n /\ DOMAIN own = 1 .. n
          /\ \A i \in 1 .. n : own[i] = cols[i].name
      BY <1>2, NamesOfColumns DEF cols
    <2> HIDE DEF own
    <2>2. \A i \in 1 .. n : own[i] = ns[perm[i]]
      BY <1>2, <1>3, <1>4, <2>1
    <2>3. own = [i \in 1 .. n |-> own[i]]
      BY <2>1
    <2> QED
      BY <1>4, <2>1, <2>2, <2>3
  <1>6. /\ DOMAIN rs = 1 .. Len(rows)
        /\ \A r \in 1 .. Len(rows) :
              /\ SourceIn(rows[r], index, BaseLines) \in Seq(Cell)
              /\ \A i \in 1 .. n : rs[r][i]
                    = Field(rows[r], columns[i], SourceIn(rows[r], index, BaseLines))
    BY ShownFits DEF n
  <1> HIDE DEF rs
  <1>7. data = [r \in 1 .. Len(rows) |->
                   RowValues(rows[r], cols, SourceIn(rows[r], index, BaseLines))]
    BY <1>1 DEF TableOf, SourceRecord, SourceIn, cols
  <1>8. ASSUME NEW r \in 1 .. Len(rows)
        PROVE  /\ data[r] \in Seq(Cell) /\ Len(data[r]) = n
               /\ data[r] = [c \in DOMAIN perm |-> rs[r][perm[c]]]
    <2> DEFINE rec == SourceIn(rows[r], index, BaseLines)
               v == RowValues(rows[r], cols, rec)
    <2>1. data[r] = v
      BY <1>7
    <2>2. cols \in Seq(KeyColumnType) /\ rec \in Seq(Cell) /\ rows[r] \in RowType
      BY <1>1, <1>2, <1>6, NamesOfColumns
    <2> HIDE DEF rec
    <2>3. /\ v \in Seq(Cell) /\ Len(v) = n /\ DOMAIN v = 1 .. n
          /\ \A i \in 1 .. n : v[i] = Field(rows[r], cols[i], rec)
      BY <1>2, <2>2, RowRendered
    <2> HIDE DEF v
    <2>4. ASSUME NEW i \in 1 .. n
          PROVE  v[i] = rs[r][perm[i]]
      <3>1. perm[i] \in 1 .. n
        BY <1>3
      <3>2. rs[r][perm[i]] = Field(rows[r], columns[perm[i]], rec)
        BY <1>6, <3>1 DEF rec
      <3>3. v[i] = Field(rows[r], cols[i], rec) /\ cols[i] = columns[perm[i]]
        BY <1>2, <2>3
      <3> QED
        BY <3>2, <3>3
    <2>5. v = [i \in 1 .. n |-> v[i]]
      BY <2>3
    <2>6. v = [c \in DOMAIN perm |-> rs[r][perm[c]]]
      BY <1>3, <2>4, <2>5
    <2> QED
      BY <2>1, <2>3, <2>6
  <1>9. data = pr
    BY <1>6, <1>7, <1>8
  <1>10. data \in Seq(Seq(Cell)) /\ DOMAIN data = 1 .. Len(rows)
    <2>1. data \in [1 .. Len(rows) -> Seq(Cell)]
      BY <1>7, <1>8
    <2> QED
      BY <1>1, <2>1, MappedFits
  <1>11. names \in Seq(Cell) /\ Len(names) = n /\ (~has_headers => names = SyntheticHeaders(n))
    <2>1. n \in 0 .. MaxWidth
      BY <1>1
    <2>2. SyntheticHeaders(n) \in Seq(Cell) /\ Len(SyntheticHeaders(n)) = n
      BY <2>1, LabelsAreNames
    <2>3. names = IF has_headers THEN own ELSE SyntheticHeaders(n)
      BY DEF n, own, cols
    <2> QED
      BY <1>5, <2>2, <2>3
  <1>12. FullTable(has_headers, names, data)
    <2>1. \A i \in DOMAIN data : Len(data[i]) = Len(names)
      BY <1>8, <1>10, <1>11
    <2> QED
      BY <1>1, <1>10, <1>11, <2>1 DEF FullTable
  <1>13. Document!Ordered(Shown, perm) = Table(has_headers, names, data)
    <2>1. Shown = Table(has_headers, ns, rs)
      BY <1>6, ShownParts, ShownFits DEF ns, rs
    <2> HIDE DEF own
    <2>2. Document!Ordered(Table(has_headers, ns, rs), perm)
            = Table(has_headers, IF has_headers THEN pn ELSE SyntheticHeaders(Len(pn)), pr)
      BY <1>1, OrderedIs
    <2>3. names = IF has_headers THEN own ELSE SyntheticHeaders(n)
      BY DEF n, own, cols
    <2> QED
      BY <1>5, <1>9, <2>1, <2>2, <2>3
  <1>14. Document!Lines(Table(has_headers, names, data))
           = IF has_headers THEN <<names>> \o data ELSE data
    BY DEF Document!Lines, Table
  <1>15. Written = Document!Lines(Table(has_headers, names, data))
    <2>1. Written = IF has_headers THEN <<own>> \o data ELSE data
      BY DEF Written, own, cols
    <2>2. has_headers => names = own
      BY DEF own, cols
    <2> HIDE DEF own
    <2> QED
      BY <1>14, <2>1, <2>2
  <1> QED
    BY <1>11, <1>12, <1>13, <1>15 DEF n

\* The check of a save: some file still holds what the table was read from.
LEMMA SaveCheckStep ==
    ASSUME IInv, ReadFits, ~lost, NEW names, SaveCheck(names)
    PROVE  Document!StartSave /\ ReadFits'
  <1>1. /\ status = "open" /\ status' = "saving"
        /\ UNCHANGED <<files, format, index, loaded, lost, overlay, modified>>
    BY DEF SaveCheck
  <1>2. PICK p \in Recovered : dir[p].stamp = stamp
    BY DEF SaveCheck
  <1>3. p \in Path /\ dir[p] # NoFile
    BY RecoveredFits
  <1>4. Disk[p] = Base.file
    <2>1. Disk[p] = dir[p].lines
      BY <1>3, OnDisk
    <2>2. dir[p].lines = loaded.lines
      BY <1>1, <1>2, <1>3 DEF IInv, LoadedFits
    <2> QED
      BY <2>1, <2>2 DEF Base
  <1>5. Phase = "open" /\ Phase' = "saving"
    BY <1>1 DEF Phase
  <1>6. UNCHANGED <<Disk, Shown, Base>>
    BY <1>1 DEF files, overlay, Disk, Shown, Base, BaseLines, RecordsIn, Names, TableOf,
                RowValues, SourceRecord
  <1>7. ReadFits'
    BY <1>1, ReadStays DEF overlay
  <1> QED
    BY <1>3, <1>4, <1>5, <1>6, <1>7 DEF Document!StartSave, Disk, Phase, Shown, Base, BaseLines

\* A save puts the table, in the order the user sees, over the file it was read from.
LEMMA SaveReplaceStep ==
    ASSUME IInv, ~lost, DistinctHeaders, ~MidSaveChanges, SaveReplace
    PROVE  Document!FinishSave /\ ReadFits'
  <1> DEFINE file == [lines |-> Written, dialect |-> output_format, stamp |-> clock + 1]
             fmt  == [header |-> has_headers, dialect |-> output_format]
             cols == OrderedColumns(order)
             names == IF has_headers THEN Names(cols) ELSE SyntheticHeaders(Len(columns))
             data == TableOf(cols, CurrentLines)
             t == Table(has_headers, names, data)
  <1>1. /\ status = "saving" /\ clock < MaxStamp /\ Readable(rows)
        /\ dir' = [dir EXCEPT ![input_path] = file] /\ Reload(file, fmt, columns)
        /\ status' = "open" /\ UNCHANGED <<input_path, lost>>
    BY DEF SaveReplace, SaveGoesThrough
  <1>2. /\ input_path \in Path /\ output_format \in Dialect /\ has_headers \in BOOLEAN
        /\ clock + 1 \in 0 .. MaxStamp
    BY <1>1, IndexedCsvAssumption DEF IInv, FilesFit, ScalarsFit
  <1>3. dir[input_path] # NoFile /\ dir[input_path].stamp = stamp
    BY <1>1 DEF IInv, CheckLasts
  <1>4. dir[input_path].lines = loaded.lines /\ dir[input_path].dialect = loaded.dialect
    BY <1>1, <1>2, <1>3 DEF IInv, LoadedFits
  <1>5. CurrentLines = BaseLines
    BY <1>4 DEF CurrentLines, BaseLines, RecordsIn
  <1>6. Disk[input_path] = Base.file
    BY <1>2, <1>3, <1>4, OnDisk DEF Base
  <1>7. PICK perm \in Document!Orders(Len(columns)) : OrderedBy(cols, perm)
    BY <1>1, OrderIsPermutation
  <1>8. /\ Document!Ordered(Shown, perm) = t
        /\ FullTable(has_headers, names, data) /\ Len(names) = Len(columns)
        /\ Written = Document!Lines(t)
    BY <1>1, <1>5, <1>7, WrittenIsShown
  <1> HIDE DEF names, data, cols
  <1>9. /\ Written \in Seq(Record) /\ ~Wide(Written) /\ (Written = <<>> => ~has_headers)
        /\ (Written # <<>> => Width(Written) = Len(columns))
        /\ Document!View(Basis(Written, Written, has_headers, Len(columns))) = t
    BY <1>2, <1>8, SavedIsReread
  <1>10. /\ file \in FileType /\ fmt \in FormatType /\ file.lines = Written
         /\ fmt.header = has_headers /\ RecordsIn(file, fmt.dialect) = Written
    BY <1>2, <1>9 DEF FileType, FormatType, RecordsIn
  <1>11. Len(columns) \in 0 .. MaxWidth /\ Len(columns) = Len(Names(columns))
    BY <1>1, OpenTable, NamesOfColumns, IndexedCsvAssumption
  <1> HIDE DEF file, fmt, t
  <1>12. /\ Base' = Basis(Written, Written, has_headers, Len(columns))
         /\ Shown' = t /\ Shown' = Document!View(Base') /\ SourcesFit'
    <2>1. PICK width \in 0 .. Len(Label) :
             LET lines == RecordsIn(file, fmt.dialect)
                 hdr   == fmt.header /\ ~Wide(lines)
             IN /\ Base' = Basis(file.lines, lines, hdr, width)
                /\ Shown' = Document!View(Basis(file.lines, lines, fmt.header, width))
                /\ Shown' = Document!View(Base')
                /\ Shown'.header = hdr
                /\ width = IF lines = <<>> THEN Len(columns) ELSE Width(lines)
                /\ SourcesFit'
      BY <1>1, <1>9, <1>10, <1>11, ReloadShows
    <2>2. width = Len(columns)
      BY <1>9, <1>10, <2>1
    <2>3. (fmt.header /\ ~Wide(RecordsIn(file, fmt.dialect))) = has_headers
      BY <1>2, <1>9, <1>10
    <2> QED
      BY <1>9, <1>10, <2>1, <2>2, <2>3
  <1>13. Disk' = [Disk EXCEPT ![input_path] = Written]
    <2>1. Written # NoFile /\ file # NoFile
      <3>1. Record \subseteq Seq(Cell)
        BY DEF Record
      <3>2. Written \in Seq(Seq(Cell)) /\ clock + 1 \in Nat
        BY <1>2, <1>9, <3>1, SeqMonotonic
      <3>3. file \in [lines : Seq(Seq(Cell)), dialect : Dialect, stamp : Nat]
        BY <1>2, <3>2 DEF file
      <3> QED
        BY <3>2, <3>3, IndexedCsvAssumption
    <2>2. \A p \in Path : dir'[p] = IF p = input_path THEN file ELSE dir[p]
      BY <1>1 DEF IInv, FilesFit
    <2>3. DOMAIN Disk = Path /\ DOMAIN Disk' = Path
      BY DEF Disk
    <2>4. \A p \in Path : Disk'[p] = IF p = input_path THEN Written ELSE Disk[p]
      BY <1>10, <2>1, <2>2 DEF Disk
    <2> QED
      BY <2>3, <2>4 DEF Disk
  <1>14. Phase = "saving" /\ Phase' = "open"
    BY <1>1 DEF Phase
  <1>15. Shown.header = has_headers /\ Shown.names = Names(columns)
    BY DEF Shown
  <1>16. ReadFits'
    BY <1>12 DEF ReadFits
  <1>17. Document!FinishSave
    <2>1. Disk[input_path] = Base.file /\ perm \in Document!Orders(Len(Shown.names))
      BY <1>6, <1>7, <1>11, <1>15
    <2>2. Shown' = Document!Ordered(Shown, perm)
      BY <1>8, <1>12
    <2>3. Document!Lines(Shown') = Written
      BY <1>8, <1>12
    <2>4. Disk' = [Disk EXCEPT ![input_path] = Document!Lines(Shown')]
      BY <1>13, <2>3
    <2>5. Base' = [file |-> Document!Lines(Shown'), lines |-> Document!Lines(Shown'),
                   header |-> Shown.header, width |-> Len(Shown.names)]
      BY <1>11, <1>12, <1>15, <2>3 DEF Basis
    <2> QED
      BY <1>2, <1>14, <2>1, <2>2, <2>4, <2>5
      DEF Document!FinishSave, Disk, Phase, Shown, Base, BaseLines
  <1> QED
    BY <1>16, <1>17

\* A save that fails leaves the table and the file as they are.
LEMMA SaveFailStep ==
    ASSUME IInv, ReadFits, ~lost, SaveFail
    PROVE  Document!GiveUpSave /\ ReadFits'
  <1>1. /\ status = "saving" /\ status' = "open"
        /\ UNCHANGED <<dir, lost, format, index, loaded, columns, rows, has_headers, modified>>
    BY DEF SaveFail, files, source, overlay
  <1>2. Phase = "saving" /\ Phase' = "open"
    BY <1>1 DEF Phase
  <1>3. UNCHANGED <<Disk, Shown, Base>>
    BY <1>1 DEF Disk, Shown, Base, BaseLines, RecordsIn, Names, TableOf, RowValues, SourceRecord
  <1>4. ReadFits'
    BY <1>1, ReadStays
  <1> QED
    BY <1>2, <1>3, <1>4 DEF Document!GiveUpSave, Disk, Phase, Shown, Base, BaseLines

\* The end of a session.
LEMMA CloseStep ==
    ASSUME Close
    PROVE  Document!Close /\ ReadFits'
  <1>1. status' = "closed" /\ lost' = FALSE /\ UNCHANGED dir
    BY DEF Close, files
  <1>2. Phase' = "closed" /\ UNCHANGED Disk
    BY <1>1 DEF Phase, Disk
  <1> QED
    BY <1>1, <1>2 DEF ReadFits, Document!Close, Phase, Disk

\* What other programs do, the document does not promise anything about.
LEMMA OtherProgramsStep ==
    ASSUME ReadFits, OtherPrograms \/ UNCHANGED vars
    PROVE  Document!Outside /\ ReadFits'
  <1>1. UNCHANGED <<status, lost, format, index, loaded, columns, rows, has_headers, modified>>
    BY DEF OtherPrograms, WriteFile, MoveFile, CopyFile, LockFile, Outside, vars, source, overlay
  <1> QED
    BY <1>1, SameDocument, ReadStays

\* A document that is lost stays so until a reset, reading again or the end of the session.
LEMMA LostStays ==
    ASSUME lost, \/ \E names \in ColumnOrders : SaveCheck(names)
                 \/ SaveReplace \/ SaveFail
    PROVE  ReadFits'
  BY DEF SaveCheck, SaveReplace, SaveFail, source, ReadFits

\* Each step of the engine is one of the document.
LEMMA StepIsDocuments ==
    ASSUME IInv, ReadFits, ~MidSaveChanges, DistinctHeaders, [Next]_vars
    PROVE  (lost \/ Document!Next) /\ ReadFits'
  <1> USE DEF Document!Next
  <1>1. CASE Edit
    <2>1. ReadFits'
      BY <1>1, EditKeepsRead
    <2>2. ASSUME ~lost
          PROVE  SourcesFit
      <3>1. status = "open"
        BY <1>1 DEF Edit, EditCell, DeleteRow, InsertRow, SwapRows, InsertColumn, RenameColumn,
                    DeleteColumn, HideHeaders, TakeHeaders, Convert, Editable
      <3> QED
        BY <2>2, <3>1 DEF ReadFits
    <2> QED
      BY <1>1, <2>1, <2>2, EditIsDocuments
  <1>2. CASE \E p \in Path : Open(p)
    BY <1>2, OpenStep
  <1>3. CASE Reset
    BY <1>3, ResetStep
  <1>4. CASE \E h \in BOOLEAN : ReadCsvOptions(h)
    BY <1>4, ReadCsvOptionsStep
  <1>5. CASE \E names \in ColumnOrders : SaveCheck(names)
    BY <1>5, SaveCheckStep, LostStays
  <1>6. CASE SaveReplace
    BY <1>6, SaveReplaceStep, LostStays
  <1>7. CASE SaveFail
    BY <1>7, SaveFailStep, LostStays
  <1>8. CASE Close
    BY <1>8, CloseStep
  <1>9. CASE OtherPrograms \/ UNCHANGED vars
    BY <1>9, OtherProgramsStep
  <1> QED
    BY <1>1, <1>2, <1>3, <1>4, <1>5, <1>6, <1>7, <1>8, <1>9 DEF Next, Session

\* README: the viewer "builds a compact row-offset index" and "keeps unsaved
\* cell/row/column changes in an overlay".  Neither can be seen: every step of the engine
\* is a command, a read, a save or a failure of CsvDocument, for any texts, files, widths
\* and numbers of steps, as long as no other program writes in the middle of a save and
\* the records used as headers have no duplicates.
THEOREM EngineImplementsDocument ==
    ASSUME ~MidSaveChanges, DistinctHeaders
    PROVE  Spec => ImplementsDocument
  <1>1. ASSUME Init
        PROVE  Document!Init /\ ReadFits
    BY <1>1 DEF Init, Document!Init, ReadFits
  <1>2. ASSUME IInv, ReadFits, [Next]_vars
        PROVE  [Document!Next]_(Document!vars) /\ ReadFits'
    <2>1. (lost \/ Document!Next) /\ ReadFits'
      BY <1>2, StepIsDocuments
    <2>2. lost => Document!Next
      BY DEF Document!Next, Document!Lost
    <2> QED
      BY <2>1, <2>2
  <1>3. Spec => []IInv
    BY EngineInvariant
  <1> QED
    BY <1>1, <1>2, <1>3, PTL DEF Spec, ImplementsDocument, Document!Spec

=============================================================================
