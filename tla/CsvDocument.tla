---------------------------- MODULE CsvDocument ----------------------------
(***************************************************************************)
(* What the editable viewer promises about one CSV document, without its   *)
(* row index, its overlay or its column descriptors: the user sees a       *)
(* table, each command changes that table, a save puts exactly that table  *)
(* on disk over the content the table was read from, and a reset shows     *)
(* what is on disk.  IndexedCsv implements this specification.             *)
(***************************************************************************)
EXTENDS Naturals, Sequences, SequencesExt

CONSTANTS Cell,     \* field texts and column names
          Empty,    \* the empty text
          Label,    \* the synthetic column labels A, B, C, ... in order
          Path,     \* the paths of the directory the file lives in
          NoFile    \* what a path without a file holds

\* Empty is a text, and the labels are distinct non-empty texts (IndexedCsvAssumption).

VARIABLES disk,     \* the records of the file at each path
          phase,    \* "closed", "open", "saving", or "lost" after a failed reset
          table,    \* the table the user sees
          base      \* what the table was read from: the file's records, the records
                    \* as read, the header mode and, for an empty file, the width

vars == <<disk, phase, table, base>>

----------------------------------------------------------------------------
(* A table is [header, names, rows]; every row has one text per name.      *)

Labels(n) == SubSeq(Label, 1, n)

Distinct(names) == IsInjective(names) /\ Empty \notin Range(names)

\* The widest of a sequence of records.
Width(lines) == Max({Len(lines[i]) : i \in DOMAIN lines} \cup {0})

Padded(record, width) ==
    [i \in 1 .. width |-> IF i <= Len(record) THEN record[i] ELSE Empty]

\* Records shown as a table.  The first one names the columns unless the mode
\* says otherwise or a later record is wider than it.
View(b) ==
    LET header == b.header /\ b.lines # <<>> /\ Width(b.lines) = Len(b.lines[1])
        width  == IF b.lines = <<>> THEN b.width ELSE Width(b.lines)
        data   == IF header THEN Tail(b.lines) ELSE b.lines
    IN [header |-> header,
        names  |-> IF header THEN b.lines[1] ELSE Labels(width),
        rows   |-> [i \in DOMAIN data |-> Padded(data[i], width)]]

\* A table as records: what a save writes.
Lines(t) == IF t.header THEN <<t.names>> \o t.rows ELSE t.rows

Relabelled(t) ==
    IF t.header THEN t ELSE [t EXCEPT !.names = Labels(Len(t.names))]

WithCell(t, r, name, value) ==
    [t EXCEPT !.rows[r] =
        [c \in DOMAIN @ |-> IF t.names[c] = name THEN value ELSE @[c]]]

WithRow(t, r, values) == [t EXCEPT !.rows = InsertAt(@, r, values)]

WithoutRow(t, r) == [t EXCEPT !.rows = RemoveAt(@, r)]

SwappedRows(t, r, s) == [t EXCEPT !.rows[r] = t.rows[s], !.rows[s] = t.rows[r]]

WithColumn(t, c, name, value) ==
    Relabelled([t EXCEPT !.names = InsertAt(@, c, name),
                         !.rows = [i \in DOMAIN @ |-> InsertAt(@[i], c, value)]])

WithoutColumn(t, c) ==
    Relabelled([t EXCEPT !.names = RemoveAt(@, c),
                         !.rows = [i \in DOMAIN @ |-> RemoveAt(@[i], c)]])

\* The names become a first row, or the first row becomes the names.
HeaderShown(t) == [header |-> FALSE,
                   names  |-> Labels(Len(t.names)),
                   rows   |-> <<t.names>> \o t.rows]

HeaderTaken(t, names) == [header |-> TRUE, names |-> names, rows |-> Tail(t.rows)]

\* The columns in another order; labels stay A, B, C, ... when headerless.
Ordered(t, perm) ==
    Relabelled([t EXCEPT !.names = [c \in DOMAIN @ |-> @[perm[c]]],
                         !.rows = [i \in DOMAIN @ |->
                                      [c \in DOMAIN perm |-> @[i][perm[c]]]]])

Orders(n) == {p \in [1 .. n -> 1 .. n] : IsInjective(p)}

----------------------------------------------------------------------------
Init == phase = "closed"

\* Bytes read in another dialect than their own: a record is a single field.
Misread(lines) == [i \in DOMAIN lines |-> <<lines[i][1]>>]

\* The document is (re)read from the file at p.
Read(p, header) ==
    /\ disk[p] # NoFile
    /\ \E lines \in {disk[p], Misread(disk[p])}, width \in 0 .. Len(Label) :
          LET b == [file |-> disk[p], lines |-> lines, header |-> header, width |-> width]
          IN table' = View(b) /\ base' = [b EXCEPT !.header = table'.header]
    /\ phase' = "open"
    /\ UNCHANGED disk

Open == phase = "closed" /\ \E p \in Path : Read(p, TRUE)

Reset == phase \in {"open", "lost"} /\ \E p \in Path : Read(p, base.header)

\* Rereading with another header mode or dialect: only when nothing unsaved is lost.
ReadAgain ==
    /\ phase = "open"
    /\ table = View(base)
    /\ \E p \in Path, h \in BOOLEAN : Read(p, h)

Command(t) ==
    /\ phase = "open"
    /\ table' = t
    /\ UNCHANGED <<disk, phase, base>>

\* The first row is read from the file again when it becomes the header: each of
\* its texts may by now be one of a file that holds other records.
MayRead(text) ==
    {text} \cup UNION {UNION {Range(line) : line \in Range(disk[p])} :
                          p \in {q \in Path : disk[q] \notin {base.file, NoFile}}}

Edit ==
    \/ \E r \in DOMAIN table.rows :
          \/ Command(WithoutRow(table, r))
          \/ \E s \in DOMAIN table.rows : Command(SwappedRows(table, r, s))
          \/ \E name \in Range(table.names), value \in Cell :
                Command(WithCell(table, r, name, value))
    \/ \E r \in 1 .. Len(table.rows) + 1 :
          \E values \in [DOMAIN table.names -> Cell] : Command(WithRow(table, r, values))
    \/ \E c \in 1 .. Len(table.names) + 1, name \in Cell, value \in Cell :
          /\ Len(table.names) < Len(Label)
          /\ table.header => name # Empty /\ name \notin Range(table.names)
          /\ Command(WithColumn(table, c, name, value))
    \/ \E c \in DOMAIN table.names :
          \/ Len(table.names) > 1 /\ Command(WithoutColumn(table, c))
          \/ \E name \in Cell \ (Range(table.names) \cup {Empty}) :
                table.header /\ Command([table EXCEPT !.names[c] = name])
    \/ table.header /\ Command(HeaderShown(table))
    \/ /\ ~table.header
       /\ table.rows # <<>>
       /\ \E names \in [DOMAIN table.names -> Cell] :
             /\ \A c \in DOMAIN names : names[c] \in MayRead(table.rows[1][c])
             /\ Distinct(names) /\ Command(HeaderTaken(table, names))

\* A save starts only while some file still holds what the table was read from.
StartSave ==
    /\ phase = "open"
    /\ \E p \in Path : disk[p] = base.file
    /\ phase' = "saving"
    /\ UNCHANGED <<disk, table, base>>

\* It replaces that file, in one step, by the table in the order the user sees.
FinishSave ==
    /\ phase = "saving"
    /\ phase' = "open"
    /\ \E p \in Path, perm \in Orders(Len(table.names)) :
          /\ disk[p] = base.file
          /\ table' = Ordered(table, perm)
          /\ disk' = [disk EXCEPT ![p] = Lines(table')]
          /\ base' = [file |-> Lines(table'), lines |-> Lines(table'),
                      header |-> table.header, width |-> Len(table.names)]

GiveUpSave == phase = "saving" /\ phase' = "open" /\ UNCHANGED <<disk, table, base>>

\* The viewer ends or is killed: nothing but the file survives.
Close == phase' = "closed" /\ UNCHANGED disk

\* Other programs change, move, copy, create and truncate files.
Outside == UNCHANGED <<phase, table, base>>

\* A reset that fails: nothing is promised until a later one succeeds.
FailedReset == phase \in {"open", "lost"} /\ phase' = "lost" /\ UNCHANGED disk

Lost == phase = "lost"

Next == \/ Open \/ Reset \/ ReadAgain \/ Edit
        \/ StartSave \/ FinishSave \/ GiveUpSave \/ Close
        \/ Outside \/ FailedReset \/ Lost

Spec == Init /\ [][Next]_vars
=============================================================================
