----------------------------- MODULE IndexedCsv -----------------------------
(***************************************************************************)
(* CsvIndexedFile, the engine under the editable viewer.  It never holds   *)
(* the document: it indexes where each record of the file starts, keeps    *)
(* the user's changes in an overlay of logical rows and column             *)
(* descriptors, and reads source records from the file when a page or a    *)
(* save needs them.  Other programs write, move and lock the file.         *)
(***************************************************************************)
EXTENDS Naturals, Sequences, SequencesExt

CONSTANTS Cell, Empty, Label, Path, NoFile,
          NewKey,         \* the temporary key of a column inserted without headers
          NoEdit,         \* "this logical row has no edit in that column"
          Dialect,        \* delimiter and quoting of a file
          NeedsQuoting,   \* <<dialect, text>>: written in it, the text has to be quoted
          Unquoted,       \* the dialects without a quoting character
          Content,        \* what files hold when other programs write them
          Typed, Named,   \* the texts and the column names the user types
          MaxStamp,       \* bound: writes of any file, each with a new size or mtime
          MaxSteps,       \* bound: edits of the user and steps of other programs
          MaxWidth,       \* bound: columns
          MidSaveChanges, \* do other programs write while a save is under way?
          FailingReads,   \* can the file be locked, or truncated to nothing?
          DistinctHeaders \* is every record used as a header free of duplicates?

ASSUME IndexedCsvAssumption ==
    /\ Empty \in Cell /\ NewKey \notin Cell /\ NoEdit \notin Cell
    /\ NoFile \notin [lines : Seq(Seq(Cell)), dialect : Dialect, stamp : Nat]
    /\ NoFile \notin Seq(Seq(Cell))
    /\ Label \in Seq(Cell \ {Empty}) /\ IsInjective(Label)
    /\ Unquoted \subseteq Dialect /\ NeedsQuoting \subseteq Dialect \X Cell
    /\ Typed \subseteq Cell /\ Named \subseteq Cell
    /\ \A lines \in Content :
          lines \in Seq(Seq(Cell)) /\ \A i \in DOMAIN lines : Len(lines[i]) \in 1 .. MaxWidth
    /\ MaxStamp \in Nat /\ MaxSteps \in Nat /\ MaxWidth \in 1 .. Len(Label)
    /\ MidSaveChanges \in BOOLEAN /\ FailingReads \in BOOLEAN
    /\ DistinctHeaders \in BOOLEAN

VARIABLES
    dir,         \* the directory: a path holds NoFile or [lines, dialect, stamp]
    clock,       \* the last stamp (size and mtime) any write gave
    locked,      \* another program holds the file: it can be stat'ed, not opened
    steps,       \* edits and steps of other programs so far
    status,      \* "closed", "open", "saving" (between the stat check and the rename)
    input_path, stamp,                     \* input_path_; file_size_ with source_mtime_
    format, output_format,                 \* format_ [header, dialect]; output_format_
    headers, columns, index, rows,         \* headers_, columns_, index_, rows_
    has_headers, headers_disabled, modified,
    order,       \* the columns argument of the save under way
    loaded,      \* history: the records that were indexed
    lost         \* history: a reset has failed, and none has succeeded since

files   == <<dir, clock, locked>>
overlay == <<headers, columns, rows, has_headers>>
source  == <<input_path, stamp, format, index, headers_disabled, loaded, lost>>
vars    == <<files, status, source, output_format, overlay, modified, order, steps>>

Key == Cell \cup {NewKey}

----------------------------------------------------------------------------
(* Names, cells and rows.                                                  *)

Names(cols) == [i \in DOMAIN cols |-> cols[i].name]

SyntheticHeaders(n) == SubSeq(Label, 1, n)

NoCells == [k \in Key |-> NoEdit]

Column(name, src, default) == [name |-> name, src |-> src, default |-> default]

HasColumn(name) == name \in Range(headers)

\* column_index: the first column of that name.
ColumnIndex(name) == Min({i \in DOMAIN headers : headers[i] = name})

\* Seeded fault: the edits are moved in place, one column after the other.
RelabelInPlace(rws, cols, names) ==
    [r \in DOMAIN rws |->
        [rws[r] EXCEPT !.cells =
            FoldLeft(LAMBDA cells, i :
                        IF cells[cols[i].name] = NoEdit \/ cols[i].name = names[i] THEN cells
                        ELSE [cells EXCEPT ![names[i]] = cells[cols[i].name],
                                           ![cols[i].name] = NoEdit],
                     @, [i \in DOMAIN cols |-> i])]]

\* relabel_columns: the overlay's keys follow the columns to their new names.
RelabelRows(rws, cols, names) ==
    [r \in DOMAIN rws |->
        [rws[r] EXCEPT !.cells =
            [k \in Key |->
                LET from == {i \in DOMAIN cols :
                                names[i] = k /\ @[cols[i].name] # NoEdit}
                IN IF from = {} THEN NoEdit ELSE @[cols[Max(from)].name]]]]

RelabelColumns(cols, names) ==
    [i \in DOMAIN cols |-> [cols[i] EXCEPT !.name = names[i]]]

\* row_values_for_columns: the default, under the source field, under the edit.
RowValues(row, cols, record) ==
    [i \in DOMAIN cols |->
        LET c == cols[i]
        IN IF row.cells[c.name] # NoEdit THEN row.cells[c.name]
           ELSE IF c.src \in DOMAIN record THEN record[c.src]
           ELSE c.default]

\* The record a logical row starts from, when the file holds `lines`.
SourceRecord(row, lines) == IF row.src = 0 THEN <<>> ELSE lines[index[row.src]]

TableOf(cols, lines) ==
    [r \in DOMAIN rows |-> RowValues(rows[r], cols, SourceRecord(rows[r], lines))]

\* The records a reader of that dialect finds in a file: in another dialect than
\* the one it was written in, each is taken for a single field.
RecordsIn(file, dialect) ==
    IF file.dialect = dialect THEN file.lines
    ELSE [i \in DOMAIN file.lines |-> <<file.lines[i][1]>>]

\* read_source_row finds its record: the file can be opened and is long enough.
CurrentLines == RecordsIn(dir[input_path], format.dialect)

Readable(rws) ==
    \A r \in DOMAIN rws :
        rws[r].src # 0 => /\ ~locked
                          /\ dir[input_path] # NoFile
                          /\ index[rws[r].src] \in DOMAIN CurrentLines

----------------------------------------------------------------------------
(* reload: what the index, the columns and the header mode become.         *)

Width(lines) == Max({Len(lines[i]) : i \in DOMAIN lines} \cup {0})

Wide(lines) == lines # <<>> /\ Width(lines) > Len(lines[1])

ReloadFails(p, fmt, cols) ==
    locked \/ (dir[p].lines = <<>> /\ (fmt.header \/ cols = <<>>))

\* Everything reload assigns when it succeeds.  A first record narrower than a
\* later one is data, so the file is read again headerless.  An empty headerless
\* file keeps the width of the columns it had.
Reload(file, fmt, cols) ==
    LET lines == RecordsIn(file, fmt.dialect)
        hdr   == fmt.header /\ ~Wide(lines)
        width == IF lines = <<>> THEN Len(cols) ELSE Width(lines)
        names == IF hdr THEN lines[1] ELSE SyntheticHeaders(width)
        first == IF hdr THEN 1 ELSE 0
    IN /\ stamp' = file.stamp
       /\ format' = [fmt EXCEPT !.header = hdr]
       /\ output_format' = fmt.dialect
       /\ has_headers' = hdr
       /\ headers' = names
       /\ columns' = [i \in DOMAIN names |-> Column(names[i], i, Empty)]
       /\ index' = [i \in 1 .. Len(lines) - first |-> i + first]
       /\ rows' = [i \in 1 .. Len(lines) - first |-> [src |-> i, cells |-> NoCells]]
       /\ headers_disabled' = Wide(lines)
       /\ modified' = FALSE
       /\ loaded' = [lines |-> file.lines, dialect |-> file.dialect, width |-> Len(names)]

\* A reload that throws has already taken the new size and mtime.  An empty file
\* that should have a header may also have cost the index and the rows by then.
ReloadFailure(p, fmt) ==
    /\ stamp' = dir[p].stamp
    /\ lost' = TRUE
    /\ \/ UNCHANGED <<output_format, overlay, index>>
       \/ /\ ~locked
          /\ headers' = <<>> /\ index' = <<>> /\ rows' = <<>>
          /\ has_headers' = fmt.header
          /\ output_format' = fmt.dialect
          /\ UNCHANGED columns
    /\ UNCHANGED <<format, headers_disabled, modified, loaded>>

\* recover_renamed_source: the paths input_path_ may become; none when it throws.
Recovered ==
    LET matches == {p \in Path : dir[p] # NoFile /\ dir[p].stamp = stamp}
    IN IF dir[input_path] # NoFile THEN {input_path}
       ELSE IF \E p \in Path : matches = {p} THEN matches
       ELSE {}

----------------------------------------------------------------------------
(* Opening, the user's commands, and reading again.                        *)

NoObject ==
    [format |-> [header |-> TRUE, dialect |-> CHOOSE d \in Dialect : TRUE],
     loaded |-> [lines |-> <<>>, dialect |-> CHOOSE d \in Dialect : TRUE, width |-> 0]]

\* One file, before the viewer starts.
Init ==
    /\ \E p \in Path, lines \in Content \ {<<>>}, dialect \in Dialect \ Unquoted :
          /\ dir = [q \in Path |-> IF q = p
                                   THEN [lines |-> lines, dialect |-> dialect, stamp |-> 0]
                                   ELSE NoFile]
          /\ input_path = p
    /\ clock = 0 /\ locked = FALSE /\ steps = 0 /\ status = "closed" /\ stamp = 0
    /\ format = NoObject.format /\ output_format = NoObject.format.dialect
    /\ headers = <<>> /\ columns = <<>> /\ index = <<>> /\ rows = <<>>
    /\ has_headers = TRUE /\ headers_disabled = FALSE /\ modified = FALSE
    /\ order = <<>> /\ loaded = NoObject.loaded /\ lost = FALSE

HeaderUsable(p, fmt) ==
    fmt.header /\ DistinctHeaders /\ dir[p] # NoFile /\ dir[p].lines # <<>>
        => LET lines == RecordsIn(dir[p], fmt.dialect)
           IN Wide(lines) \/ IsInjective(lines[1])

\* Open: a fresh object, the dialect inferred from the bytes, a header expected.
Open(p) ==
    /\ status = "closed"
    /\ dir[p] # NoFile /\ dir[p].lines # <<>> /\ ~locked
    /\ LET fmt == [header |-> TRUE, dialect |-> dir[p].dialect]
       IN HeaderUsable(p, fmt) /\ Reload(dir[p], fmt, <<>>)
    /\ input_path' = p
    /\ status' = "open" /\ lost' = FALSE
    /\ UNCHANGED <<files, order, steps>>

Changed(cols, rws) ==
    /\ columns' = cols
    /\ headers' = Names(cols)
    /\ rows' = rws
    /\ modified' = TRUE
    /\ steps' = steps + 1
    /\ UNCHANGED <<files, status, source, output_format, has_headers, order>>

Editable == status = "open" /\ steps < MaxSteps

EditCell(r, name, value) ==
    /\ Editable /\ HasColumn(name)
    /\ Changed(columns, [rows EXCEPT ![r].cells[name] = value])

DeleteRow(r) == Editable /\ Changed(columns, RemoveAt(rows, r))

InsertRow(r, values) ==
    /\ Editable
    /\ LET cells == [k \in Key |->
                        IF k \in Range(headers)
                        THEN values[Max({i \in DOMAIN headers : headers[i] = k})]
                        ELSE NoEdit]
       IN Changed(columns, InsertAt(rows, r, [src |-> 0, cells |-> cells]))

SwapRows(r, s) ==
    /\ Editable /\ r # s
    /\ Changed(columns, [rows EXCEPT ![r] = rows[s], ![s] = rows[r]])

\* Without headers the new column gets a temporary key, then every column is
\* relabelled by its new position.
InsertColumn(c, name, value) ==
    /\ Editable /\ Len(columns) < MaxWidth
    /\ has_headers => name # Empty /\ ~HasColumn(name)
    /\ LET key  == IF has_headers THEN name ELSE NewKey
           cols == InsertAt(columns, c, Column(key, 0, value))
           labels == SyntheticHeaders(Len(cols))
       IN IF has_headers THEN Changed(cols, rows)
          ELSE Changed(RelabelColumns(cols, labels), RelabelRows(rows, cols, labels))

RenameColumn(name, new) ==
    /\ Editable /\ has_headers
    /\ new # Empty /\ HasColumn(name) /\ ~HasColumn(new)
    /\ Changed([columns EXCEPT ![ColumnIndex(name)].name = new],
               [r \in DOMAIN rows |->
                   IF rows[r].cells[name] = NoEdit THEN rows[r]
                   ELSE [rows[r] EXCEPT !.cells[new] = rows[r].cells[name],
                                        !.cells[name] = NoEdit]])

\* Seeded fault: the edits of a deleted column stay.
DeleteColumnKeepingEdits(name) ==
    /\ Editable /\ Len(columns) > 1 /\ HasColumn(name)
    /\ LET cols == RemoveAt(columns, ColumnIndex(name))
           labels == SyntheticHeaders(Len(cols))
       IN IF has_headers THEN Changed(cols, rows)
          ELSE Changed(RelabelColumns(cols, labels), RelabelRows(rows, cols, labels))

DeleteColumn(name) ==
    /\ Editable /\ Len(columns) > 1 /\ HasColumn(name)
    /\ LET cols == RemoveAt(columns, ColumnIndex(name))
           rws  == [r \in DOMAIN rows |-> [rows[r] EXCEPT !.cells[name] = NoEdit]]
           labels == SyntheticHeaders(Len(cols))
       IN IF has_headers THEN Changed(cols, rws)
          ELSE Changed(RelabelColumns(cols, labels), RelabelRows(rws, cols, labels))

\* set_csv_options, header mode off: the names become a first row of edits.
HideHeaders(dialect) ==
    /\ Editable /\ has_headers
    /\ LET first == [src |-> 0,
                     cells |-> [k \in Key |-> IF k \in Range(Names(columns)) THEN k ELSE NoEdit]]
           labels == SyntheticHeaders(Len(columns))
       IN /\ columns' = RelabelColumns(columns, labels)
          /\ headers' = labels
          /\ rows' = RelabelRows(<<first>> \o rows, columns, labels)
    /\ has_headers' = FALSE /\ output_format' = dialect
    /\ modified' = TRUE /\ steps' = steps + 1
    /\ UNCHANGED <<files, status, source, order>>

\* Header mode on: the first row, if it can be read and its texts can serve as
\* names, becomes the header.
TakeHeaders(dialect) ==
    /\ Editable /\ ~has_headers /\ ~headers_disabled
    /\ rows # <<>> /\ Readable(<<rows[1]>>)
    /\ LET names == RowValues(rows[1], columns, SourceRecord(rows[1], CurrentLines))
       IN /\ Empty \notin Range(names) /\ IsInjective(names)
          /\ columns' = RelabelColumns(columns, names)
          /\ headers' = names
          /\ rows' = RelabelRows(Tail(rows), columns, names)
    /\ has_headers' = TRUE /\ output_format' = dialect
    /\ modified' = TRUE /\ steps' = steps + 1
    /\ UNCHANGED <<files, status, source, order>>

\* Only the output dialect changes.
Convert(dialect) ==
    /\ Editable /\ dialect # output_format
    /\ headers_disabled => ~has_headers
    /\ output_format' = dialect
    /\ modified' = TRUE /\ steps' = steps + 1
    /\ UNCHANGED <<files, status, source, overlay, order>>

\* reset: the input format is kept, the overlay and the output format are not.
Reset ==
    /\ status = "open"
    /\ \E p \in Recovered :
          /\ HeaderUsable(p, format)
          /\ input_path' = p
          /\ IF ReloadFails(p, format, columns) THEN ReloadFailure(p, format)
             ELSE Reload(dir[p], format, columns) /\ lost' = FALSE
    /\ UNCHANGED <<files, status, order, steps>>

\* read_csv_options builds another object and takes it over only when its reload
\* succeeds; input_path_ may have been recovered either way.
ReadCsvOptions(header) ==
    /\ status = "open" /\ ~modified
    /\ \E p \in Recovered :
          LET fmt == [header |-> header, dialect |-> dir[p].dialect]
          IN /\ HeaderUsable(p, fmt)
             /\ input_path' = p
             /\ IF ReloadFails(p, fmt, columns)
                THEN UNCHANGED <<stamp, format, index, headers_disabled, loaded, lost,
                                 output_format, overlay, modified, steps>>
                ELSE Reload(dir[p], fmt, columns) /\ lost' = FALSE
    /\ UNCHANGED <<files, status, order, steps>>

----------------------------------------------------------------------------
(* Saving: check the file, write a temporary sibling, rename it over the   *)
(* file, index the result.                                                 *)

\* ordered_columns: columns_ as they are, or each named column looked up.
OrderedColumns(names) ==
    IF names = <<>> THEN columns ELSE [i \in DOMAIN names |-> columns[ColumnIndex(names[i])]]

\* validate_column_order: nothing, or the headers in some order.
ColumnOrders ==
    {<<>>} \cup {[i \in DOMAIN headers |-> headers[p[i]]] :
                    p \in {q \in [DOMAIN headers -> DOMAIN headers] : IsInjective(q)}}

SaveCheck(names) ==
    /\ status = "open"
    /\ \E p \in Recovered :
          /\ input_path' = p
          /\ dir[p].stamp = stamp
    /\ order' = names
    /\ status' = "saving"
    /\ UNCHANGED <<files, stamp, format, index, headers_disabled, loaded, lost,
                   output_format, overlay, modified, steps>>

\* The records written: every row is given the width of the columns.
Written ==
    LET cols == OrderedColumns(order)
        data == TableOf(cols, CurrentLines)
    IN IF has_headers THEN <<Names(cols)>> \o data ELSE data

\* WriteRow: a text that needs quoting, or a record of one empty text, cannot be
\* written without a quoting character.
Writable(lines) ==
    output_format \in Unquoted =>
        \A i \in DOMAIN lines :
            /\ \A j \in DOMAIN lines[i] : <<output_format, lines[i][j]>> \notin NeedsQuoting
            /\ lines[i] # <<Empty>>

SaveGoesThrough == ~locked /\ Readable(rows) /\ Writable(Written)

SaveReplace ==
    /\ status = "saving"
    /\ clock < MaxStamp
    /\ SaveGoesThrough
    /\ clock' = clock + 1
    /\ LET file == [lines |-> Written, dialect |-> output_format, stamp |-> clock + 1]
       IN /\ dir' = [dir EXCEPT ![input_path] = file]
          /\ Reload(file, [header |-> has_headers, dialect |-> output_format], columns)
    /\ status' = "open" /\ order' = <<>>
    /\ UNCHANGED <<locked, steps, input_path, lost>>

\* Any exception removes the temporary file and leaves the rest alone.
SaveFail ==
    /\ status = "saving"
    /\ ~SaveGoesThrough
    /\ status' = "open" /\ order' = <<>>
    /\ UNCHANGED <<files, source, output_format, overlay, modified, steps>>

\* The viewer ends or is killed, in the middle of a save too.
Close ==
    /\ status # "closed"
    /\ status' = "closed" /\ stamp' = 0
    /\ format' = NoObject.format /\ output_format' = NoObject.format.dialect
    /\ headers' = <<>> /\ columns' = <<>> /\ index' = <<>> /\ rows' = <<>>
    /\ has_headers' = TRUE /\ headers_disabled' = FALSE /\ modified' = FALSE
    /\ order' = <<>> /\ loaded' = NoObject.loaded /\ lost' = FALSE
    /\ UNCHANGED <<files, input_path, steps>>

----------------------------------------------------------------------------
(* Other programs.                                                         *)

Outside ==
    /\ status = "saving" => MidSaveChanges
    /\ steps < MaxSteps /\ steps' = steps + 1
    /\ UNCHANGED <<status, source, output_format, overlay, modified, order>>

WriteFile(p, lines, dialect) ==
    /\ Outside /\ clock < MaxStamp /\ ~locked
    /\ lines = <<>> => FailingReads
    /\ clock' = clock + 1
    /\ dir' = [dir EXCEPT ![p] = [lines |-> lines, dialect |-> dialect, stamp |-> clock + 1]]
    /\ UNCHANGED locked

\* Moving and copying keep size and mtime.
MoveFile(p, q) ==
    /\ Outside /\ p # q /\ dir[p] # NoFile
    /\ dir' = [dir EXCEPT ![q] = dir[p], ![p] = NoFile]
    /\ UNCHANGED <<clock, locked>>

CopyFile(p, q) ==
    /\ Outside /\ p # q /\ dir[p] # NoFile
    /\ dir' = [dir EXCEPT ![q] = dir[p]]
    /\ UNCHANGED <<clock, locked>>

LockFile == Outside /\ FailingReads /\ locked' = ~locked /\ UNCHANGED <<dir, clock>>

----------------------------------------------------------------------------
RowIndex == DOMAIN rows

Edit ==
    \/ \E r \in RowIndex, name \in Range(headers), value \in Typed : EditCell(r, name, value)
    \/ \E r \in RowIndex : DeleteRow(r)
    \/ \E r \in 1 .. Len(rows) + 1 : \E values \in [DOMAIN headers -> Typed] : InsertRow(r, values)
    \/ \E r, s \in RowIndex : SwapRows(r, s)
    \/ \E c \in 1 .. Len(columns) + 1, name \in Named, value \in Typed : InsertColumn(c, name, value)
    \/ \E name \in Range(headers), new \in Named : RenameColumn(name, new)
    \/ \E name \in Range(headers) : DeleteColumn(name)
    \/ \E d \in Dialect : HideHeaders(d) \/ TakeHeaders(d) \/ Convert(d)

Session ==
    \/ \E p \in Path : Open(p)
    \/ Reset
    \/ \E h \in BOOLEAN : ReadCsvOptions(h)
    \/ \E names \in ColumnOrders : SaveCheck(names)
    \/ SaveReplace \/ SaveFail \/ Close

OtherPrograms ==
    \/ \E p \in Path, lines \in Content, d \in Dialect : WriteFile(p, lines, d)
    \/ \E p, q \in Path : MoveFile(p, q) \/ CopyFile(p, q)
    \/ LockFile

Next == Edit \/ Session \/ OtherPrograms

Spec == Init /\ [][Next]_vars

----------------------------------------------------------------------------
(* Pages of rows.                                                          *)

\* Seeded fault: the ends of the page are taken for the whole page.
DirectPageByEnds(offset, count) ==
    /\ \A i \in DOMAIN columns : columns[i].src = i
    /\ \A i \in {1, count} :
          LET row == rows[offset + i]
          IN /\ row.src = rows[offset + 1].src + i - 1 /\ rows[offset + 1].src # 0
             /\ row.cells = NoCells

\* read_rows takes a page straight from the file when the columns are the file's
\* own, in order, and its rows are consecutive unedited source rows.
DirectPage(offset, count) ==
    /\ \A i \in DOMAIN columns : columns[i].src = i
    /\ \A i \in 1 .. count :
          LET row == rows[offset + i]
          IN /\ row.src = rows[offset + 1].src + i - 1 /\ rows[offset + 1].src # 0
             /\ row.cells = NoCells

PaddedTo(width, record) ==
    [i \in 1 .. Max({width, Len(record)}) |-> IF i <= Len(record) THEN record[i] ELSE Empty]

ReadRows(offset, count) ==
    IF DirectPage(offset, count)
    THEN [i \in 1 .. count |->
             PaddedTo(Len(columns), CurrentLines[index[rows[offset + i].src]])]
    ELSE SubSeq(TableOf(columns, CurrentLines), offset + 1, offset + count)

Pages == {page \in (0 .. Len(rows)) \X (1 .. Len(rows)) : page[1] + page[2] <= Len(rows)}

\* The file is the one that was indexed, and can be opened.
Undisturbed == /\ status = "open" /\ ~lost /\ ~locked
               /\ dir[input_path] # NoFile /\ dir[input_path].stamp = stamp

----------------------------------------------------------------------------
(* Properties.                                                             *)

Texts == Cell \cup {NoEdit}
File == [lines : Seq(Seq(Cell)), dialect : Dialect, stamp : 0 .. MaxStamp]

\* Types; columns_, headers_ and every row have the shapes the engine relies on.
TypeOK ==
    /\ dir \in [Path -> File \cup {NoFile}]
    /\ clock \in 0 .. MaxStamp /\ stamp \in 0 .. MaxStamp
    /\ locked \in BOOLEAN /\ has_headers \in BOOLEAN /\ headers_disabled \in BOOLEAN
    /\ modified \in BOOLEAN /\ lost \in BOOLEAN
    /\ status \in {"closed", "open", "saving"}
    /\ input_path \in Path
    /\ format \in [header : BOOLEAN, dialect : Dialect] /\ output_format \in Dialect
    /\ headers \in Seq(Cell)
    /\ columns \in Seq([name : Cell, src : Nat, default : Cell])
    /\ index \in Seq(Nat)
    /\ rows \in Seq([src : Nat, cells : [Key -> Texts]])
    /\ order \in Seq(Cell) /\ steps \in 0 .. MaxSteps

\* An edit is kept under the name of a column that exists (relabelling, renaming
\* and deleting columns leave no edit behind under a name that may come back).
EditsNameColumns ==
    \A r \in DOMAIN rows : \A k \in Key :
        rows[r].cells[k] # NoEdit => k \in Range(Names(columns))

\* headers_, which lookups use, stays in step with columns_, which rows are
\* rendered from; without header mode it is A, B, C, ...; with it, names differ.
HeadersFollowColumns ==
    status # "closed" /\ ~lost =>
        /\ headers = Names(columns)
        /\ ~has_headers => headers = SyntheticHeaders(Len(columns))
        /\ DistinctHeaders => IsInjective(headers)

\* modified_ is what guards rereading with other options: while it is false, the
\* table is exactly what the file shows.
Document == INSTANCE CsvDocument WITH
    disk  <- [p \in Path |-> IF dir[p] = NoFile THEN NoFile ELSE dir[p].lines],
    phase <- IF lost THEN "lost" ELSE status,
    table <- [header |-> has_headers, names |-> Names(columns),
              rows |-> TableOf(columns, RecordsIn(loaded, format.dialect))],
    base  <- [file |-> loaded.lines, lines |-> RecordsIn(loaded, format.dialect),
              header |-> format.header, width |-> loaded.width]

\* A save that passed the stat check finds every source row it still shows, so it
\* can only fail for a locked file or a text the output dialect cannot hold.
SaveFindsItsRows == status = "saving" /\ ~lost /\ ~locked => Readable(rows)

\* The parts of the engine's state always agree with each other: edits and lookups
\* use names that are columns, and rows are those of the file that was indexed.
EngineIsConsistent == TypeOK /\ EditsNameColumns /\ HeadersFollowColumns /\ SaveFindsItsRows

\* A page read straight from the file shows, in the columns there are, what the
\* overlay shows row by row.
PagesShowTheTable ==
    Undisturbed => \A page \in Pages :
        LET shown == ReadRows(page[1], page[2])
            table == TableOf(columns, CurrentLines)
        IN \A i \in 1 .. page[2] :
              SubSeq(shown[i], 1, Len(columns)) = table[page[1] + i]

\* Saving a document and reading it back shows the same table, and every command
\* does to the shown table what CsvDocument says: the overlay is invisible.
ImplementsDocument == Document!Spec

\* README: "Save refuses if the source file size or mtime changed after the viewer
\* opened": what a save replaces is what the viewer read.
SavesOnlyOverWhatItRead ==
    [][status = "saving" /\ status' = "open" /\ dir' # dir =>
          /\ dir[input_path].lines = loaded.lines
          /\ dir[input_path].dialect = loaded.dialect]_vars

=============================================================================
