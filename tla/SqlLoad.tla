------------------------------- MODULE SqlLoad -------------------------------
(***************************************************************************)
(* `csvzall sql load`: a CSV file becomes a table of a SQLite database.   *)
(* Several loads, started by different processes, may meet at one         *)
(* destination; each is the sequence of steps of SqlExportCommand::run,   *)
(* with the two passes over the CSV of CsvInputCommand and csv_loader.    *)
(* SQLite is external: one writer at a time, a busy database is an error  *)
(* at once (no busy timeout is set), a transaction takes effect at its    *)
(* commit, and without a journal an interrupted one may leave anything.   *)
(*                                                                         *)
(* The file system is that of a POSIX host: a removed file stays readable *)
(* for those who have it open. A run creates at most one file, so a file  *)
(* is known by the run that created it, or is the one the user had; `path`*)
(* is the file at the destination.                                        *)
(***************************************************************************)
EXTENDS Naturals, FiniteSets

CONSTANTS
  Runs,        \* the processes
  NoRun,       \* no process
  UsersFile,   \* the database the user had before the runs
  NoFile,      \* nothing is at the destination, or a run has opened nothing
  Csvs,        \* the contents of the CSV file: records with a header and rows
  NoTable,     \* nothing has the name
  View,        \* the name belongs to a view or an index
  Partial,     \* a table an interrupted, unjournaled load left behind
  Original,    \* the table the database had before the runs
  FirstLoads,  \* bound: how many runs may start while there is no database
  MaxEdits,    \* bound: how often the CSV file is replaced
  MaxKills     \* bound: how many runs are killed

ASSUME BoundsAreNumbers ==
  /\ FirstLoads \in Nat
  /\ MaxEdits \in Nat
  /\ MaxKills \in Nat

ASSUME RunsAreFinite == IsFiniteSet(Runs)

\* The runs, the files and the name of the table are told apart.
ASSUME NamesApart ==
  /\ {NoRun, NoFile, UsersFile, "target"} \intersect Runs = {}
  /\ NoFile # UsersFile

Headers == {c.header : c \in Csvs}

\* A table as loaded: the header of a first pass, the rows of a second.
Tables == [columns : Headers, from : Csvs]

\* What can be under a name in a database is told apart.
ASSUME KindsApart ==
  /\ {NoTable, View, Partial, Original} \intersect Tables = {}
  /\ NoTable \notin {View, Partial, Original}
  /\ View \notin {Partial, Original} /\ Partial # Original

VARIABLES
  csv,      \* the CSV file
  edits, kills,
  path,     \* the file at the destination
  db,       \* what each file's committed tables are
  lock,     \* who holds each file's write lock
  mode,     \* SqlExportTableMode of each run
  pc,       \* where each run is
  existed,  \* destination_exists
  handle,   \* the file its connection has open
  dest,     \* load_table
  header,   \* headers_
  got,      \* the file its second pass reads
  rc        \* its exit status

vars == <<csv, edits, kills, path, db, lock, mode, pc, existed, handle,
          dest, header, got, rc>>

Target == "target"
Modes == {"create", "add", "replace"}
Names == {Target} \union Runs
Files == {UsersFile} \union Runs
Empty == [n \in Names |-> NoTable]

\* What a run loads: declared with the headers it read first, filled with the
\* rows of its second pass.
Loaded(r) == [columns |-> header[r], from |-> got[r]]

Steps == {"check", "open", "lookup", "infer", "create", "insert", "swap",
          "count"}
Alive(r) == pc[r] \in Steps

-----------------------------------------------------------------------------
(* The runs *)

\* Either the user has a database, with or without something of that name, or
\* there is none; then at most FirstLoads of the runs are ever started.
Init ==
  /\ csv \in Csvs /\ edits = 0 /\ kills = 0
  /\ mode \in [Runs -> Modes]
  /\ pc \in [Runs -> {"idle", "never"}]
  /\ \/ /\ path = UsersFile
        /\ \E t \in {NoTable, View, Original} :
             db = [f \in Files |-> [Empty EXCEPT
                                ![Target] = IF f = UsersFile THEN t ELSE NoTable]]
     \/ /\ path = NoFile
        /\ db = [f \in Files |-> Empty]
        /\ Cardinality({r \in Runs : pc[r] = "idle"}) <= FirstLoads
  /\ lock = [f \in Files |-> NoRun]
  /\ existed = [r \in Runs |-> FALSE]
  /\ handle = [r \in Runs |-> NoFile]
  /\ dest = [r \in Runs |-> Target]
  /\ header \in [Runs -> {csv.header}]
  /\ got = [r \in Runs |-> csv]
  /\ rc = [r \in Runs |-> 0]

\* The data of the run, but for where it is and how it ended.
Rest == <<csv, edits, kills, mode>>
Own == <<existed, handle, header, got>>

At(r, s) == pc[r] = s
Goto(r, s) == pc' = [pc EXCEPT ![r] = s]
End(r, code) == Goto(r, "done") /\ rc' = [rc EXCEPT ![r] = code]

\* Seeded fault: the journal is turned off for every load.
NeverJournaled(r) == FALSE

\* Loads into a database that was there keep the journal on.
Journaled(r) == existed[r]

Changed(f, n, t) == [db EXCEPT ![f][n] = t]

\* What a transaction that does not commit leaves of the table it was loading.
Undone(r) ==
  IF Journaled(r) THEN {db} ELSE {db, Changed(handle[r], dest[r], Partial)}

\* Seeded fault: a failed load removes the database it found.
FailRemoves(r, tables) ==
  /\ End(r, 1)
  /\ lock' = [f \in Files |-> IF lock[f] = r THEN NoRun ELSE lock[f]]
  /\ path' = NoFile
  /\ db' = tables
  /\ UNCHANGED <<Rest, Own, dest>>

\* fail(): remove a file this run is taken to have created, whatever is there
\* now; in a database that existed drop the staging table, unless that errs.
Fail(r, tables) ==
  /\ End(r, 1)
  /\ lock' = [f \in Files |-> IF lock[f] = r THEN NoRun ELSE lock[f]]
  /\ path' = IF existed[r] THEN path ELSE NoFile
  /\ db' = IF existed[r] /\ handle[r] # NoFile /\ dest[r] # Target
                /\ lock[handle[r]] \in {NoRun, r}
           THEN [tables EXCEPT ![handle[r]][dest[r]] = NoTable] ELSE tables
  /\ UNCHANGED <<Rest, Own, dest>>

\* init_reader: the headers of the file as it is now.
Begin(r) ==
  /\ At(r, "idle")
  /\ header' = [header EXCEPT ![r] = csv.header]
  /\ Goto(r, "check")
  /\ UNCHANGED <<Rest, path, db, lock, existed, handle, dest, got, rc>>

\* The destination is looked at, and a first load never takes an existing one.
Check(r) ==
  /\ At(r, "check")
  /\ existed' = [existed EXCEPT ![r] = path # NoFile]
  /\ IF path # NoFile /\ mode[r] = "create" THEN End(r, 1)
     ELSE Goto(r, "open") /\ rc' = rc
  /\ UNCHANGED <<Rest, path, db, lock, handle, dest, header, got>>

\* SQLite creates the file only when none was seen, but takes one that has
\* come since; a file seen and gone is an error.
Open(r) ==
  /\ At(r, "open")
  /\ IF existed[r] /\ path = NoFile THEN Fail(r, db) ELSE
       /\ path' = IF path = NoFile THEN r ELSE path
       /\ handle' = [handle EXCEPT ![r] = path']
       /\ Goto(r, IF existed[r] THEN "lookup" ELSE "infer")
       /\ UNCHANGED <<Rest, db, lock, existed, dest, header, got, rc>>

\* ExistingSchemaObjectType and what each mode makes of it.
Lookup(r) ==
  /\ At(r, "lookup")
  /\ LET there == db[handle[r]][Target]
         refused == there # NoTable /\ (mode[r] = "add" \/ there = View)
     IN  /\ dest' = [dest EXCEPT ![r] = IF there = NoTable \/ refused THEN Target ELSE r]
         /\ IF refused THEN End(r, 1) ELSE Goto(r, "infer") /\ rc' = rc
  /\ UNCHANGED <<Rest, path, db, lock, existed, handle, header, got>>

\* Seeded fault: the headers are not compared again.
AnyHeader(r) == TRUE

\* reset_reader accepts a file with the headers of the first pass.
SameHeader(r) == csv.header = header[r]

\* The affinities are inferred from the first pass; the second reads the file
\* anew.
Reset(r) ==
  /\ At(r, "infer")
  /\ SameHeader(r)
  /\ got' = [got EXCEPT ![r] = csv]
  /\ Goto(r, "create")
  /\ UNCHANGED <<Rest, path, db, lock, existed, handle, dest, header, rc>>

ResetFails(r) == At(r, "infer") /\ ~SameHeader(r) /\ Fail(r, db)

Free(r) == lock[handle[r]] = NoRun

\* The load's transaction: CREATE TABLE takes the write lock.
CreateTable(r) ==
  /\ At(r, "create")
  /\ Free(r) /\ db[handle[r]][dest[r]] = NoTable
  /\ lock' = [lock EXCEPT ![handle[r]] = r]
  /\ Goto(r, "insert")
  /\ UNCHANGED <<Rest, Own, path, db, dest, rc>>

CreateFails(r) ==
  /\ At(r, "create")
  /\ ~Free(r) \/ db[handle[r]][dest[r]] # NoTable
  /\ Fail(r, db)

\* The rows are in and the transaction commits.
Commit(r) ==
  /\ At(r, "insert")
  /\ db' = Changed(handle[r], dest[r], Loaded(r))
  /\ lock' = [lock EXCEPT ![handle[r]] = NoRun]
  /\ Goto(r, IF dest[r] = Target THEN "count" ELSE "swap")
  /\ UNCHANGED <<Rest, Own, path, dest, rc>>

\* Seeded fault: the old table is dropped before the transaction that renames.
SwapAfterDrop(r) ==
  /\ At(r, "swap")
  /\ Free(r)
  /\ IF db[handle[r]][Target] # NoTable
     THEN /\ db' = Changed(handle[r], Target, NoTable)
          /\ UNCHANGED <<pc, dest>>
     ELSE /\ db' = [db EXCEPT ![handle[r]][Target] = db[handle[r]][r],
                              ![handle[r]][r] = NoTable]
          /\ dest' = [dest EXCEPT ![r] = Target]
          /\ Goto(r, "count")
  /\ UNCHANGED <<Rest, Own, path, lock, rc>>

\* DROP and RENAME in one transaction.
Swap(r) ==
  /\ At(r, "swap")
  /\ Free(r) /\ db[handle[r]][Target] # NoTable
  /\ db' = [db EXCEPT ![handle[r]][Target] = db[handle[r]][r],
                      ![handle[r]][r] = NoTable]
  /\ dest' = [dest EXCEPT ![r] = Target]
  /\ Goto(r, "count")
  /\ UNCHANGED <<Rest, Own, path, lock, rc>>

SwapFails(r) == At(r, "swap") /\ ~Free(r) /\ Fail(r, db)

Count(r) ==
  /\ At(r, "count")
  /\ End(r, 0)
  /\ UNCHANGED <<Rest, Own, path, db, lock, dest>>

\* Any statement may err (a full disk, a busy reader): SQLite::Exception.
SqlError(r) ==
  /\ pc[r] \in {"lookup", "create", "insert", "swap", "count"}
  /\ \E tables \in (IF At(r, "insert") THEN Undone(r) ELSE {db}) : Fail(r, tables)

\* The process is killed, or an exception of the CSV reader, which nothing
\* catches, ends it: no clean-up runs.
Kill(r) ==
  /\ Alive(r) /\ kills < MaxKills
  /\ kills' = kills + 1
  /\ Goto(r, "killed")
  /\ lock' = [f \in Files |-> IF lock[f] = r THEN NoRun ELSE lock[f]]
  /\ db' \in (IF At(r, "insert") THEN Undone(r) ELSE {db})
  /\ UNCHANGED <<csv, edits, mode, Own, path, dest, rc>>

\* Someone replaces the CSV file.
EditCsv ==
  /\ edits < MaxEdits
  /\ edits' = edits + 1
  /\ csv' \in Csvs \ {csv}
  /\ UNCHANGED <<kills, mode, Own, path, db, lock, pc, dest, rc>>

RunStep(r) ==
  \/ Begin(r) \/ Check(r) \/ Open(r) \/ Lookup(r)
  \/ Reset(r) \/ ResetFails(r) \/ CreateTable(r) \/ CreateFails(r)
  \/ Commit(r) \/ Swap(r) \/ SwapFails(r) \/ Count(r)
  \/ SqlError(r) \/ Kill(r)

Next == EditCsv \/ \E r \in Runs : RunStep(r)

Spec == Init /\ [][Next]_vars

-----------------------------------------------------------------------------
(* Properties *)

\* The types of the state; the write lock belongs to a run between its CREATE
\* TABLE and its commit, and a staging table to a run that is replacing.
SqlTypeOK ==
  /\ csv \in Csvs /\ edits \in 0 .. MaxEdits /\ kills \in 0 .. MaxKills
  /\ path \in Files \union {NoFile}
  /\ \A f \in Files, n \in Names :
       db[f][n] \in Tables \union {NoTable, View, Partial, Original}
  /\ \A f \in Files : lock[f] \in Runs =>
       pc[lock[f]] = "insert" /\ handle[lock[f]] = f
  /\ \A r \in Runs :
       /\ pc[r] \in Steps \union {"idle", "never", "done", "killed"}
       /\ dest[r] \in {Target, r}
       /\ dest[r] = r => mode[r] = "replace" /\ existed[r]
       /\ rc[r] \in {0, 1}

\* "Each load creates its table inside one transaction, so a failed or
\* interrupted load leaves no partial table behind": at the destination there
\* is a partial table only when the run that made that very file, which loads
\* without a journal, was killed (LoadCsvIntoTable, fail).
TablesAreWhole ==
  path # NoFile => \A n \in Names : db[path][n] = Partial =>
    path \in Runs /\ pc[path] = "killed"

\* The headers are read once and the rows in a later pass over a file that may
\* have been replaced: a table's columns are nevertheless the header its rows
\* came with (CsvInputCommand::reset_reader).
ColumnsFitRows ==
  \A f \in Files, n \in Names :
    db[f][n] \in Tables => db[f][n].columns = db[f][n].from.header

\* What every load relies on: the lock and the staging tables have an owner, and
\* no table has been given the columns of one file and the rows of another.
LoadInv == SqlTypeOK /\ ColumnsFitRows

\* The old table goes only when a load that was told to replace it puts a whole
\* one in its place, and a view never.
ReplacedAtOnce ==
  \A f \in Files : LET old == db[f][Target] IN
    old \in Tables \union {Original, View} /\ db'[f][Target] # old =>
      /\ old # View
      /\ \E r \in Runs : /\ mode[r] = "replace" /\ pc[r] = "swap"
                         /\ db'[f][Target] = Loaded(r)

\* "A failed load leaves the old table intact": whatever fails or is killed,
\* the name always has its old table, or a whole one put there at once by a
\* load that was told to replace it (SqlExportCommand::run, fail).
OldTableIntact == [][ReplacedAtOnce]_vars

\* A load that reported success is at the destination, not at a file that is
\* gone, under its own name, and has left no staging table, whatever another
\* load of the same destination did (SqlExportCommand::run).
LoadedStays ==
  \A r \in Runs : At(r, "done") /\ rc[r] = 0 =>
    /\ handle[r] = path
    /\ db[path][Target] \in Tables
    /\ db[path][r] = NoTable

=============================================================================
