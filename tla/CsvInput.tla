------------------------------ MODULE CsvInput ------------------------------
(***************************************************************************)
(* How a command comes to the rows of its input: a file, a gzip file, one  *)
(* entry of a ZIP archive or the standard input, opened and then read a    *)
(* row at a time.  The commands themselves are in the modules that extend  *)
(* this one.                                                               *)
(*                                                                         *)
(* An input is [kind, sound, name, entries, header]: whether it can be     *)
(* opened (for an archive: its central directory can be read), the entry   *)
(* asked for with --zip-entry, the entries of an archive, and whether the  *)
(* text has a header row.  An entry of an archive is [name, folder,        *)
(* encrypted, method, intact, header].                                     *)
(***************************************************************************)
EXTENDS Integers, SequencesExt

CONSTANTS
    Jobs,      \* the commands run: records, see MCAggregation
    RowsOf,    \* the rows each job may read
    MaxRows    \* bound: rows of a file

VARIABLES
    job,
    phase,     \* "opening", "reading", the phases of SqlCommands, "done" or "failed"
    seen,      \* the rows read
    order,     \* the keys in order of appearance; a heatmap's dates_for_inference
    table,     \* what is kept of each key; a heatmap's pending_cells
    answer

rowVars == <<job, phase, seen, order, table, answer>>
-----------------------------------------------------------------------------
NoEntry == 0

\* ReadCentralDirectory: the folders are passed over.
ReadCentralDirectory(archive) == SelectSeq(archive.entries, LAMBDA e : ~e.folder)

\* The first entry of the name asked for, or the only one.
SelectEntry(entries, name) ==
    LET named == {i \in DOMAIN entries : entries[i].name = name} IN
    CASE name # "" /\ named # {} -> Min(named)
      [] name = "" /\ Len(entries) = 1 -> 1
      [] OTHER -> NoEntry

\* Stored or deflated, with its local header, its length and its CRC in order.
ReadZipEntry(archive) ==
    LET entries == ReadCentralDirectory(archive)
        at == SelectEntry(entries, archive.name)
    IN  IF /\ archive.sound /\ at # NoEntry
           /\ ~entries[at].encrypted
           /\ entries[at].method \in {"stored", "deflated"}
           /\ entries[at].intact
        THEN at ELSE NoEntry

\* OpenCsvReader, and then a header row has to be there.
OpenCsvReader(input) ==
    IF input.kind = "zip"
    THEN LET at == ReadZipEntry(input) IN at # NoEntry /\ ReadCentralDirectory(input)[at].header
    ELSE input.sound /\ input.header

\* One more row of the input.
Row(r) == /\ phase = "reading"
          /\ Len(seen) < MaxRows
          /\ r \in RowsOf[job]
          /\ seen' = Append(seen, r)
          /\ UNCHANGED <<job, answer>>

\* The end of the input.
Finish(ok, result) ==
    /\ phase = "reading"
    /\ IF ok THEN phase' = "done" /\ answer' = result
             ELSE phase' = "failed" /\ answer' = answer
    /\ UNCHANGED <<job, seen, order, table>>
-----------------------------------------------------------------------------
\* The cells of a row: blank, a text or a number, with its value or its rank.

IsNumber(cell) == cell.kind = "number"

Put(key, record) == (key :> record) @@ table

Entered(key) == IF key \in DOMAIN table THEN order ELSE Append(order, key)

\* What an input is that can be read, said without the steps above.
Readable(input) ==
    LET files == {i \in DOMAIN input.entries : ~input.entries[i].folder}
        asked == {i \in files : input.name \in {"", input.entries[i].name}}
        Sound(e) == ~e.encrypted /\ e.method # "other" /\ e.intact /\ e.header
    IN  /\ input.sound
        /\ input.kind # "zip" => input.header
        /\ input.kind = "zip" =>
             /\ asked # {} /\ (input.name = "" => asked = {Min(asked)})
             /\ Sound(input.entries[Min(asked)])
=============================================================================
