# A verification of csvzall

TLA+ models of the parts of csvzall that keep state, TLC runs that check them on
small instances, and TLAPS proofs, for every instance, about seven of them: the
editable engine, the embedded viewer, the viewer over HTTP, the SQL panel, the in-place
commands, the SQLite load and the PostgreSQL export. The reference is the repository's code; documents and tests are
quoted where a property states what they promise.

## 1. The system

csvzall is a command-line program for CSV files, a local HTTP viewer and editor,
and the same viewer as a web application on a WebAssembly build of the engine.
Paths below are relative to `src/` of the repository.

| Component | State it keeps | Operations | Talks to |
|---|---|---|---|
| Editable CSV engine, `viewer_core/indexed_csv` | a byte-offset index of the records, an overlay of logical rows and column descriptors, header mode, input and output dialect, size and mtime of the file | open, page, 8 edits, dialect and header changes, reset, save | the file, which other programs write and move too |
| Viewer shell, `viewer/modules` | open/dirty/saving flags, revision, view generation, rows in the grid | open, edit, page, reset, read with another dialect, save | an adapter (worker or HTTP), a host bridge |
| WASM worker, adapter and host bridge, `viewer_wasm/web/src` | one open view and its working file; pending requests; queued opens and pending saves | message handlers | shell; the page that embeds it |
| Native server and adapter, `pipeline/commands/view`, `viewer/modules/adapters` | one `CsvViewData` shared by a thread pool, serve-once flag | HTTP handlers | shell; engine; chart configuration |
| SQL panel, note export and charts dialog, `viewer/modules` | the run, its generation and result; the insertion under way; the form, its list and preview | run, leave, copy, insert; open, edit, preview, save, generate | shell; server; the host of the page |
| Chart configuration, `pipeline/commands/view/charts.cpp`, `charts/`, `pipeline/commands/chart*.cpp` | `.csvzall/charts.json`, the outputs, previews | list, preview, append, generate, draw on save, run | server; the command line |
| append and merge, `pipeline/commands/append.cpp`, `pipeline/common/file_replace.cpp` | the store and its temporary sibling | two commands, in place or to standard output | the file system |
| PostgreSQL export, `postgres/` | a bounded queue, threads, transactions, the table | infer, create, copy, clean up | a server with other clients |
| SQLite export, `pipeline/commands/sql_export.cpp`, `sqlite/` | a database file, a staging table | create, add, replace | SQLite |
| SQL queries, `filter`, `derive`, `sql_query.cpp` | a database of the command's own, tables of its inputs | two passes over each input, one statement | SQLite, standard streams |
| Aggregations and charts, `summarize`, `max`, `timeseries`, `head`, `charts/bar`, `line`, `heatmap` | what is kept of the rows so far | one row at a time, and the end of the file | standard streams, output files |
| Input of commands, gzip and ZIP, `pipeline/common` | the reader, and where it is | open, read, read again | files, the standard input |
| Streaming commands, `transform_pipeline`, ... | none, or a count | one pass, or two | standard streams |
| JSON extraction, dates, option parsing | none | pure functions | the commands |

What is hard in it:

* **The engine never holds the document.** Edits are keyed by column *names*,
  which rename, delete, insert and header changes reassign; unedited rows are read
  from a file that other programs may have changed, moved or locked meanwhile. The
  correctness of the engine is that the user cannot tell: it behaves as a table.
* **The shell awaits.** Every operation is split by its `await`s: edits arrive
  during a save, pages during an open, a second open during the first. Over HTTP the
  requests are not even ordered, and rows are named by where they were in a page.
* **The panels beside the grid await as well**: a query, a preview or a list may be
  answered after the user has left, typed, or asked for another.
* **charts.json and the SQLite destination are shared** with other requests and
  processes, and are replaced step by step.
* **The copy has threads and two-phase commits of its own**: any worker may fail
  anywhere, and all share one condition variable.
* **In-place commands may be killed** between any two system calls, and leave
  something behind for the next run.

`PROJECT.json` lists these hazards at their lines, with the properties that would
catch them or why none does yet.

## 2. Modules

| Module | Models | Kind |
|---|---|---|
| `CsvDocument` | what the editable viewer promises: a table, a file per path, and what each command does to them | abstract specification |
| `IndexedCsv`, `MCIndexedCsv` | `CsvIndexedFile` and the programs beside it | detailed, refines `CsvDocument`; an instance |
| `IndexedCsvProofs` | theorems about `IndexedCsv` | proofs |
| `CopyQueue` | the queue, its mutex and condition variable, and the steps both strategies share | component |
| `PipelineCopy` | `CopyRowsWithPipeline` and the flush and commit of its callers | component |
| `ParallelCopy` | `CopyRowsWithParallelWorkers` | component with a specification of its own |
| `PgExport` | `ExportCsvToPostgres` around the two copies, and another client | composition |
| `PgExportProofs` | theorems about `ParallelCopy` alone, and about `PgExport` with both copies | proofs |
| `StoreRows` | the rows of a file that a key column identifies, as merge reads them | operators, used by the next two |
| `KeyedStore` | what `append` and `merge --in-place` promise about the store | abstract specification |
| `StoreUpdate`, `MCStoreUpdate` | `RunAppend`, `RunMerge`, `ReplaceFileWith`, `MoveIntoPlaceNoReplace` over names and inodes | detailed, refines `KeyedStore`; an instance |
| `StoreUpdateProofs` | lemmas about the loop of merge for files of any length; theorems about `StoreUpdate`, the refinement among them | proofs |
| `CsvWorker` | csv-worker.js and the request channel | component |
| `ViewerShell` | shell.mjs, save.mjs, save-state.mjs | component, over `CsvWorker` |
| `WasmViewer` | main.js, host-bridge.js and the host around them | composition |
| `WasmViewerProofs` | theorems about `WasmViewer` | proofs |
| `NativeViewer`, `MCNativeViewer` | shell.mjs and grid.mjs over native.mjs and view/server.cpp | detailed; an instance |
| `NativeViewerProofs` | theorems about `NativeViewer` | proofs |
| `QueryPanel` | sql.mjs, note-export.mjs, features/charts.mjs | component |
| `QueryPanelProofs` | theorems about `QueryPanel` | proofs |
| `ChartConfig` | an entry of charts.json: reading, filling, validating, writing it; the spec a form is turned into | operators, used by the next two |
| `ChartStore`, `MCChartStore` | charts.json and the charts' outputs under requests and the `charts` command | component; an instance |
| `ChartForm`, `MCChartForm` | chart-form.mjs over the server's chart handlers | component; an instance |
| `ChartProofs` | theorems about `ChartStore` and `ChartForm`, over lemmas about what entries keep when they are written and read | proofs |
| `SqlLoad`, `MCSqlLoad` | `SqlExportCommand`, csv_loader, the second pass of `CsvInputCommand` | component; an instance |
| `SqlLoadProofs` | theorems about `SqlLoad` | proofs |
| `CsvInput` | how a command comes to the rows of a file, a gzip file, an entry of a ZIP archive, the standard input | component, extended by the next two |
| `SqlCommands` | `filter`, `derive`, `sql query`: what is refused, two passes for each table, the statement, the output | component, over `CsvInput` |
| `Aggregation`, `MCAggregation` | max, min, summarize, timeseries, head, bar, line, heatmap, the order of dates, the column types of new tables; with `SqlCommands`, one next-state relation | component, with definitions over whole files; an instance |

No module declares a RECURSIVE operator, so each can be proved about. A definition
whose comment begins with "Seeded fault" is not part of a specification: it is the
variant of the definition after it that a plausible mistake would give, and
`PROJECT.json` names the property that notices it.

### 2.1 IndexedCsv

The variables are the members of the class: `rows` (`rows_`: a source row or none,
and a map of edits), `columns` (`columns_`), `headers`, `index`, `format`,
`output_format`, `has_headers`, `headers_disabled` (is `headers_disabled_reason_`
set), `modified`, `stamp` (`file_size_` with `source_mtime_`) and `input_path`.
A source index of 0 stands for none; `index[i]` is the number of the record that
starts at the i-th byte offset. `dir` is the directory, `locked` another program's
exclusive lock. `loaded` and `lost` are history variables that only properties read.

Each public operation is one action, except a save, which is two (`SaveCheck`,
then `SaveReplace` or `SaveFail`), so that other programs may write in between
and the viewer may be killed there. A failed reload is modelled as far as it gets:
`stamp` is the new file's, the rest may be the old.

`CsvDocument` has no overlay, no index and no columns with defaults: a table is
a header flag, names and rows of texts. The refinement mapping in `IndexedCsv`
renders the overlay over the records that were indexed; `ImplementsDocument` says
that every action does to that table what the command says, that a save writes the
table and reading it back gives the same table, and that with `modified_` false the
table is what the file says. After a failed reset the document is `lost`: nothing
is promised until a reset succeeds.

Abstractions: texts are model values out of a small set; a file is a sequence of
records with a dialect; read in another dialect each record is one field; size and
mtime are one stamp, new at each write and kept by moves and copies; byte-order mark
and record separator are left out; a write of another program and a save take a new
stamp (files whose size and mtime do not change when they are rewritten are out of
the model). After such a write the old byte offsets give whole records here, where in the
program they may hit the middle of one (indexed_csv.cpp:412-436); what others wrote is
excepted from the properties about rows. "Read with this dialect" always names the file's own dialect.

### 2.2 CopyQueue, PipelineCopy, ParallelCopy, PgExport

A thread's `pc` says where it is, `asleep` which threads wait on the condition
variable; `NotifyAll` empties `asleep`. A step is what a thread does between two
points where it gives the mutex up, and a notification after an unlock is a step
of its own. The deque is `taken+1 .. pushed`. `held` is the batch a loader carries,
`sent` what its transaction holds, `committed` the loaders whose transaction is
committed. A commit that throws may or may not have been done. Every server or
reader call may throw.

`PgExport` adds the modes of `--if-exists`, the check for the table, the table's
creation, the clean-up, and another client that creates a table of that name at any
time a lock does not prevent it. `table` is what is committed in the database.

### 2.3 StoreUpdate

Names refer to inodes, inodes to records. A run looks at the store, reads headers
and keys, opens the temporary sibling (which truncates what the name refers to),
reads, writes record by record at its stream's own position, and moves the file into
place: `rename` for an existing store, `link` then `remove` for a new one. It may
be killed anywhere, fail anywhere, and another program may create the store.
`Overlapping` allows two runs at a time; `CrashInMove` allows a kill between link
and remove. Existing and incoming rows are `<<key, version>>` pairs, so that a row
that wins over another of the same key can be told.

### 2.4 CsvWorker, ViewerShell, WasmViewer

`requests` and `replies` are the two directions of the worker's channel; both keep
the order of the messages. A worker's handler is one step. The shell's operations are
split at their awaits: a save is `settling` (waiting for pending mutations),
`preparing` (for the bytes), `persisting` (for the host), then `stored` or `refused`.
`unchanged` stands for `savedRevision === revision`. The worker's view is reduced to
the set of edits it shows and the set its working file holds (each edit is
`<<file, number>>`); `IndexedCsv` has the engine in full. The host may open a file,
ask for a save, and store or refuse the bytes it is given; `waits` says whether it
opens files only when nothing else is under way.

That a refused edit also hides the loading dialog of an open under way
(shell.mjs:854-858) is left out. A second click on Reset while the first one waits is left out, and so are column
order, files opened by the user, and the download a viewer without a host makes.

### 2.5 NativeViewer

`calls` are the mutations under way, each with its place: sent, done by the server
with the schema still to be asked for, told, refused. `reads` are the grid's pages.
Any of them may be executed, and its answer taken, before any other; a server handler
is one step. `shown`, `order` and `current` are the columns the shell knows, the grid's
order, and the adapter's `current`. A row is an identity: the page has the rows it
read, and a call names a row by its position there (`RowAt`). A save waits for the
mutations, sends the grid's columns when they differ, is executed (the file is
replaced, then charts are drawn or fail), asks for the schema, and ends. `overlapped`,
`strayed` and `replaced` are history.

Two handlers that really overlap on the server's thread pool race on `CsvViewData`;
that is undefined in C++ and not modelled. A request for the schema is always answered, where
the server may answer 409 for a file it can no longer read (server.cpp:243-247). The CSV dialect requests, tokens,
read-only mode and serve-once are left out, and so are programs that touch the file
(`IndexedCsv` has them).

### 2.6 ChartConfig, ChartStore, ChartForm

An entry's options are a function from keys to texts, but `values` and `columns` are
lists: of columns with the style they are drawn in (`Plain` is a column by its name alone,
its label and colour those the renderer picks), and of columns. A choice and a lookback may
be spelt in more than one way (`Style`, `Lookback`), of which the models have a few. `SpecOf`
is an entry as it is read, `Entry` a spec as it is written, `SpecForBody` what a form becomes,
under an id that the server sanitizes. `Kept` is a loop that skips positions, written with the positions because the prover cannot take
`SelectSeq` apart; TLC's runs and the theorems use the same definition.

`ChartStore` takes every request apart at the files it touches: a save loads
charts.json, validates, truncates, writes, and draws; `charts run` loads once and
draws each chart; a drawing truncates its output first. A request may be killed, or
find the disk full, at each. `lastWhole` and `before` are history. It is a build with
SVG charts; `--obsidian`, which skips drawing on save, is left out.

`ChartForm` has the dialog: the list, the controls, the preview, one request at a time
that keeps the form busy and one list that opening waits for. The server's handler is
one step here. What a chart goes through on its way into the controls and back is modelled
control by control (`Shown`, `Payload`): a select is blank for a column that is not in the
file or a spelling it does not have, a date input for a date in another form, a lookback is
parsed into a number and a unit, check boxes stand in the order of the file's columns and
only for these, values keep two names, texts are trimmed. Charts refer to columns of the
file, or to one that is `gone`.

The constants are what the code can meet. `FormsArePosted`: a form has no field for the
query of a chart that is drawn. `EntriesAreRead`: charts.json is a list of entries with
texts or lists for options, sound or not. `ChartsAreLoaded`: what the form is given has a
text or a list for every option, no value or column without a name, and no id twice, as the list leaves out later charts of an id it has
(charts.cpp:384-391); the files of `ChartStore` may have an id twice.

### 2.7 SqlLoad

Each run is a sequence of steps: read the header, check the destination, open it (which
creates it), look the table up, pass over the rows for their types, open the file again,
create the table in a transaction, commit, swap, count. `path` is the file at the
destination, `handle` the one a run has open; a removed file stays with who has it
open. SQLite is external: one writer at a time, a busy database is an error at once
(no timeout is set), a transaction is undone when it is not committed, unless its
journal is off. A file at the destination is known by who made it: the user's, or that of
the run that opened a name where there was none. Exceptions of the CSV reader are not caught and end the process, as a
kill does. A table has a header and the file its rows came from, not the types of its columns: that
a CSV which changes between the two passes is loaded under types of its earlier rows
(CsvInputCommand.cpp:63) is no violation here, and nothing in the code prevents it.

### 2.8 QueryPanel

An edit is in the cell editor (`typed`), to be posted (`due`), unanswered (`posted`), in
`table`, in `file`. A run of a query settles the edits, is sent, executed and answered;
`generation` makes answers of earlier runs and visits outdated. The shell's save and
reset are one step each.

### 2.9 CsvInput, SqlCommands, Aggregation

An input is opened before its first row: a sound file, a gzip file, or an archive with
the entry asked for, with one entry when none is asked for, neither encrypted nor
compressed in another way. `Readable` says of an input at once what the steps of the
code decide one by one. `SqlCommands` reads each table twice: for the types, then for the
rows; the standard input is kept for the second pass, a file is opened again and may hold
other rows (`first`, `loaded`). SQLite is external: a statement is known by whether it is
a good one. The temporary database is removed at the end.

`Aggregation` has one action per command for a row, and one for the end of the file. A cell is blank, a
text or a number; a text's number is its rank. `order` and `table` are the vector of
keys and the map each command keeps. `AnswersAreRight` compares the answer with a
definition over the rows at once: the extremum, the greatest row of each key, the sum,
mean, extremum or last value of each key and time, the bars and points with their values, the days
of the heatmap within its range, the narrowest column type that holds every cell. For
the types a number stands for its width (32 bits, 64, more, or with a fraction). Sums
are of integers, so that floating-point rounding is out of the model; a lookback is in
years; `head` knows of a cell only its length; colours, labels and layout are left out.

## 3. Runs

| Run | Instance | Shows |
|---|---|---|
| `IndexedCsv` | 2 paths, 4 texts, 2 dialects (one without quoting), records of width 1 and 2, 2 writes, 2 edits or outside steps; about 87 000 states | the overlay is invisible, and its parts stay in step |
| `PgExport` | 2 workers, 3 batches, depth 1; about 112 000 states; deadlock checked | batches, votes, outcome, table and termination |
| `StoreUpdate` | 2 runs one after the other, keys and versions; about 140 000 states | the store is replaced in one step, killed or not |
| `WasmViewer` | 2 files, 1 edit, 1 dialect read; about 459 000 states | clean means stored; rows belong to the shown file; every save, reset and open ends |
| `NativeViewer` | 2 rows, 2 columns and a name, 2 mutations, 2 pages under way, 1 reset; about 988 000 states | the grid settles on the server's table; edits hit their rows; clean means saved and saved means clean |
| `ChartStore` | 2 requests at a time, 1 kill or full disk, entries with every combination of the options that matter; about 214 000 states | a save changes one chart and can be loaded; drawings write what was asked for; a run tries every chart |
| `SqlLoad` | 2 loads of one destination, 3 contents with 2 headers, 1 replacement of the CSV, 1 kill; about 28 000 states | the table is the old one or a whole new one |
| `QueryPanel` | 2 edits, 5 turns of the panel, 1 insertion, 1 visit to the charts; about 1 147 000 states | results see every edit; notes show the result; charts see the file |
| `ChartForm` | 4 steps of the user, 11 configurations of up to 3 charts, with each way of writing a chart that `FormHolds` leaves out in some of them; about 152 000 states | previews are of the form; a save keeps what the form can hold; the form gets free |
| `Aggregation` | each aggregation with its options, `head` over 42 inputs, each SQL command, over every file of up to 3 rows; about 277 000 states | one pass gives what the definition gives; dates are read in one order; a statement sees whole tables |
| `FailedReset` | as `IndexedCsv` | after a failed reset a save can replace a file the viewer never read |
| `CrashInMove` | kills between link and remove | the next run truncates the store in place |

The last two stop at a counterexample: each states one sentence of the README that the
code does not keep, which `PROJECT.json` quotes. The passing runs name these and other
situations as exceptions, so that everything else is checked around them:

| Exception | What happens in it |
|---|---|
| `lost` (IndexedCsv) | the run `FailedReset` |
| `CrashInMove` (StoreUpdate) | the run `CrashInMove` |
| `MidSaveChanges = FALSE` (IndexedCsv) | a write of another program between the size and mtime check and the rename is replaced, although README.md:254-258 says a save refuses |
| `DistinctHeaders = TRUE` (IndexedCsv) | reading again with headers enables header mode for a first record with a name twice or an empty one, although docs/csv-options.md:30-31 asks for a correction first |
| `Overlapping = FALSE` (StoreUpdate) | two `merge --create` share one temporary file, and the second writes to what the first has made the store, although append.cpp:320-321 means to prevent that |
| `refused` (WasmViewer) | after the host refused a save, Reset reads the worker's working file, which holds the edits, and the view is clean |
| `waits` (WasmViewer) | a host that opens a file during a save may get one file's bytes under the other's name |
| `overlapped` (NativeViewer) | two operations whose requests overlap may leave other columns or texts in the grid than on the server, and an edit in another row; schemas taken out of order may leave the grid without a column, and a save then sends no order and leaves it so; a save and a reset clicked while a mutation is under way are taken in either order |
| `overlapped` (ChartStore) | two saves at once: the later write takes the earlier chart away |
| `discarded` (QueryPanel) | Discard in the charts dialog, with a result on screen, leaves that result there |
| `FirstLoads = 1` (SqlLoad) | of two first loads of one destination, one that fails removes the database the other made |
| `FormHolds` and `Drawn`, unedited charts (ChartForm) | opening a chart and saving it loses what the form has no control for, or not in that spelling: axis labels, a third value, an end beside a lookback; the label or colour of a column of `values`, or its own label where `values` has one column of a heatmap; a column that is not in the file; the order of a table's columns where it is not the file's (`["b","a"]` becomes `["a","b"]`, table-form.mjs:150-158); `vertical` or `Grouped`, which become the default (chart-form.mjs:319-321); dates other than YYYY-MM-DD, which the server then refuses; a length such as `1 0d`, which becomes one year; blanks around a text. An id that sanitizing changes gives a second chart, or replaces another one |
| `ColumnsAreNamed` (ChartStore) | a table saved over a file with an empty header cell lists a column without a name, which the loader refuses (chart_spec.cpp:202): every later request that loads charts.json fails |

Further observations that are no property. Over the worker's ordered channel the
`viewGeneration` check is redundant; it matters over HTTP. A page read straight
from the file keeps the text of a deleted last column at the end of each row. With
`--if-exists error` and parallel workers, the clean-up may drop a table that another
client created after the check. A chart without an output makes every later save of
a chart fail, and so does a charts.json that a killed process or a full disk left cut off. A chart
whose output is the CSV itself truncates the CSV when it is generated or run by hand. A
killed load without a journal, or one whose clean-up meets a locked database, leaves a
partial first table or a staging table. A list or a saved chart that is answered late
overwrites what was edited meanwhile. A host that never answers leaves the note
export pending, and the page of a save inert. A failed reload after the rename
reports a failed save although the file was replaced. A save that follows an ordered
column list with a repeated name writes the first of the two columns twice.

Why the bounds are enough to be interesting:

* Two edits with two column names and two paths let a name be freed and taken again,
  two columns swap their labels, and a copy compete with the original; `IndexedCsv`
  with three edits and one write has 787 000 states and no violation.
* Three batches, depth 1 and two workers make the queue full and empty, with a
  worker that gets nothing and one that gets several.
* Two runs (`StoreUpdate`, `SqlLoad`) are the one that is killed and the one that
  finds what it left, or the one that has the lock and the one that does not get it.
* Two files are the one that is shown and the one that is opened behind it.
* Two mutations over HTTP are one that moves the rows and one that names a row; two
  pages are the one that is outdated and the one that is not.
* Two requests for charts are a save and whatever reads, draws or writes beside it.
* Five turns of the panel let a run be outdated by a second one, by leaving, and by
  coming back.
* Three rows are what a text between two numbers, a tie between extremes, a key that comes
  back after another, and a date that contradicts an earlier one after an ambiguous one need.

Deadlock is checked for `PgExport`, where an unnotified thread shows as one (or as a
failure of `ExportReturns`). The other systems may really stop: an editor nobody
uses, a store nobody updates, a command that has ended.

Fairness is assumed where the code's scheduling gives it. `PgExport`: each thread
that can take a step takes one (weak fairness per thread: it holds the mutex for a few
statements only, and calls of the server return or throw); nothing is assumed of the
other client. `WasmViewer`: messages arrive, continuations of settled promises run,
the engine gets ready, and the host answers a write. The last of these is the host's
duty, not the code's: `saveFile` has no timeout. `ChartForm`: the local server answers a
request, and the continuation of an answered one runs; without SVG or disk it answers
with an error, which is an answer too. Nothing makes the user or the host begin
anything. The other specifications promise no progress.

## 4. Proofs

Every theorem is about a specification of a run, and holds for all values of its
constants that its ASSUMEs allow. What a run checks on a small instance and a theorem
states for all:

| Property | Theorem | Assumed besides |
|---|---|---|
| `EngineIsConsistent` | `EngineStaysConsistent`; without its last conjunct `EngineStaysTyped` | `~MidSaveChanges`; nothing |
| `PagesShowTheTable` | `PagesAlwaysShowTheTable` | |
| `ImplementsDocument` (a refinement) | `EngineImplementsDocument` | `~MidSaveChanges`, `DistinctHeaders` |
| `ExportTypeOK`, `EachBatchInOnePlace`, `CommitIsUnanimous`, `OutcomeIsTrue`, `NoPartialTable` | `ExportTypesCorrect`, `ExportKeepsBatches`, `ExportIsUnanimous`, `ExportOutcomeIsTrue`, `NoPartialTableCorrect`; the middle three for `ParallelSpec` alone too | |
| `StoreInv`, `ReportedRowsStay`, `ImplementsStore` (a refinement) | `StoreInvCorrect`, `ReportedRowsStayCorrect`, `ImplementsStoreCorrect` | `~Overlapping`, `~CrashInMove` |
| `ReplacedOnlyWhenWritten`, which the run `CrashInMove` refutes | `ReplacedOnlyWhenWrittenCorrect` | `~Overlapping`, `~CrashInMove` |
| `LoadInv`, `OldTableIntact` | `LoadCorrect`, `OldTableIntactCorrect` | |
| `TablesAreWhole`, `LoadedStays` | `TablesAreWholeCorrect`, `LoadedStaysCorrect` | `FirstLoads <= 1` |
| `QueryTypeOK`, `ResultsSeeEveryEdit`, `ChartsSeeTheFile`, `NoteShowsTheResult` | `PanelTypesCorrect`, `ResultsSeeEveryEditCorrect`, `ChartsSeeTheFileCorrect`, `NoteShowsTheResultCorrect` | |
| `NativeTypeOK`, `ViewIsTheTable`, `EditsHitTheirRows`, `CleanMeansSaved`, `SavedMeansClean` | `NativeTypesHold`, `GridShowsTheTable`, `EditsHit`, `CleanIsSaved`, `SaveEndsClean` | |
| `ViewerTypeOK`, `NothingOfAnotherFile`, `CleanMeansStored`, `SaveClearsItsRevision` | `ViewerTypesCorrect`, `NothingOfAnotherFileEver`, `CleanIsStored`, `SaveClearsOnlyItsRevision` | |
| `ConfigInv`, `SavesOneChart`, `OutputsAreAskedFor`, `RunTriesEveryChart` | `ConfigInvCorrect`, `SavesOneChartCorrect`, `OutputsAreAskedForCorrect`, `RunTriesEveryChartCorrect` | |
| `FormTypeOK`, `PreviewIsOfTheForm`, `SaveKeepsTheChart` | `FormTypesCorrect`, `PreviewIsOfTheFormCorrect`, `SaveKeepsTheChartCorrect` | |
| README.md's sentence on saves, which `FailedReset` refutes, with no failed reset before | `SavesReplaceWhatWasRead` | `~MidSaveChanges` |

The assumptions in the last column are the exceptions of section 3. Each is a mode of
the model in which TLC finds the property violated, or the code is known to break it, so
that the theorem says exactly that nothing else does: `CrashInMove` and `Overlapping` are
a kill between `link` and `remove` and two runs with one temporary file, `FirstLoads`
counts the runs that may make the destination, and `MidSaveChanges` lets others write
between the check of size and mtime and the rename. Without `DistinctHeaders` a name may
stand for two columns, and an edit in one of them shows in both.

The constants' own assumptions (`CopyQueueAssumption`, `StoreUpdateAssumption`,
`WasmViewerAssumption`, `IndexedCsvAssumption`, `StoreAssumption`, `FormAssumption`, ...) say that bounds are numbers, sets of
threads, runs and files finite where cardinalities are used, that marks such as `NoFile`
are not values of the set they are added to, and, for the engine, that other programs
write files of at least one cell to a record and at most `MaxWidth`. A file without a
record is one of them, a blank line is one empty cell.

No property is inductive by itself. The invariants that are, and why they are needed:

**IndexedCsv** (`IndexedCsvProofs`, `IInv`). `TableFits` says that `headers` are the names
of `columns` (or empty, after a failed reset), that every edit is under one of those
names, that a row's source is in the index, and that a column of the file has no
default of its own, which is why a row shorter than the table shows the same text in a
page read straight from the file as in one rendered row by row. `FilesFit` says that
files with one stamp are one file, so that size and mtime do identify what was read;
`LoadedFits`, that the file with the stamp kept is the one that was indexed, and has a
record for each offset; `CheckLasts`, that this lasts from the check of a save to its
rename. `TabledKeeps` reduces an edit to its new columns and rows, and
`ReloadIsFresh` all ways of reading a file to what they leave. Relabelling
(`RelabelledRows`, `RelabelledColumns`) is proved once and used by inserting and deleting
columns without headers and by both header changes. The part that surprises is
`~lost`: after a failed reset `headers` may be empty over columns that are not, lookups
find nothing, and an insertion may then give two columns one name.

The refinement (`EngineImplementsDocument`) is in the same module. A table is rendered
from rows, columns, index and records (`Render`); `RenderedIs` says that texts which are
those of the fields, row by row and column by column, are what is rendered. So each
command has a lemma (`EditCellStep`, `InsertColumnStep`, `TakeHeadersStep`, ...) which
takes the table `CsvDocument` prescribes and shows each of its texts to be the field
of the new rows in the new columns; relabelling, which moves every edit, changes none
(`RelabelledShows`). `ReloadShows` and `SavedIsReread` are the two ends of a save: what
any reading leaves is the view of the file's records, and the view of the records of a
table is that table. Besides `IInv` the steps need `ReadFits`: no column is read from
a field beyond the widest record, and while `modified_` is false the table is the
view of what was read, which is all that permits reading again with other options.
`EditKeepsRead` and the lemmas of the steps show that it is kept.

The proof found `CsvDocument` wrong in one place, where the run's two steps were too few
to show it: the first row is read from the file again when it becomes the header, and when another
program has written the file since, a record of that file can meet an edit of the row in
one header. The document had promised that the names come from one or the other.
It now says so of each text (`MayRead`), and TLC finds no error on an instance of three steps.

**WasmViewer** (`WasmViewerProofs`, `IInv`). The worker is ahead of the shell by exactly
what is in `replies`. Every part states one thing of both ends and of the channel
between them: one request or reply for each promise (`OneEach`); openings in their
order, and a view not touched before it is opened (`OpenedOnce`, `Openers`, `Untouched`);
the file of each page (`ShownFile`, `Pages`); what a save asked for, what its bytes hold,
and which edits they lack (`OpenedClean`, `SaveAsked`, `SavedBytes`, `UnsavedIsDirty`,
`Revision`); a host that waits (`WaitingHost`). For each part there is a lemma for each
thing that may happen to a channel, a message posted, taken, answered or handled, and
the lemmas of the actions put them together.

**NativeViewer** (`NativeViewerProofs`, `IInv`). Calls are executed and answered in any
order, so each part says what the page will have once the answers that are still under
way are taken: pages (`Pages`) are the one in the grid and the ones that may yet get there.
`RowsAreCurrent`: unless a call that has changed the rows is waiting to be taken, which
will empty the grid, every page has the server's rows. `CallsHit`: the row that was
clicked is where the call says. `DirtyTells`: the server's table is the file's when the
page is clean, or will be once the save is taken, but for the edits the server has not got yet.
`ColumnsFit`, `TextsFit`: unless calls have overlapped, what the page knows of columns and
texts is the server's, or differs by the one call under way. `SavesWait`: a save has
no call beside it. The proof showed that `CleanMeansSaved` had claimed too much: that a
clean view has its columns in the file's order fails after three mutations that overlap,
which two did not show. The property now excepts it, and the table above describes it.

**QueryPanel** (`QueryPanelProofs`, `PanelInv`). An edit is in one place on its way to
the file; of the runs under way only the one of this `generation` can still put its
rows on the screen, and at each of its stages it knows of every edit that was made
before it; a result on the screen is the answer to `resultQuery`, if that has not been
emptied since.

**ChartStore, ChartForm** (`ChartProofs`, `StoreInv` and `FormInv`). First what entries
keep. `BodyFits` and `SpecOfFits` say what a form and an entry are read as,
`EntryKeeps` that a spec which is written and read again means the same, and, through
the rank of a position among those kept (`KeptOfKept`), `IsUpdated` that an update
changes one id and leaves the others' charts in their order. `StoreInv`: charts.json is
the last one that was written whole, or torn, and one that a save has written can be
loaded (`FileFits`); what a request holds at each stage was validated before it is
written, and the charts of a run are tried or still to do (`RequestsFit`); a save that no
other overlaps holds what the file has, and a spec made of a form over it
(`SaveIsAlone`), which is why its write changes one chart. `FormInv`: a
preview on the screen is of the fields, and one under way that may still be shown was
asked for with them (`PreviewFits`); lists and replies hold charts that can be shown
(`FormFits`, `CallFits`, `ListFits`). That saving a chart that was shown and not edited keeps
it, if it is one that the form can hold, is about the controls, key by key: two selects give back the
first two of `values`, as one or as several (`SelectedComes`, `ValuesPosted`), choices and
lengths mean what they meant (`StyleComes`, `RangePosted`), and what is posted for each type is
drawn as what was read (`OptionsPosted`, `SqlPosted`). `DrawnStored` takes that through the file,
and `StoredAlike` adds that no other chart changes, since the id is the chart's own. The
proof attempt showed that the form had been given an edit to a column which need
not be in the file; the edit is now a choice of the select.

**StoreUpdate** (`StoreUpdateProofs`, `IInv`). One run is at work; the temporary name is
not the store's, but between `link` and `remove`; what the run knows of the store still
holds, since nobody else changes it; and what it has written is a prefix of what it is to
write. That merge adds exactly the rows whose key is new, whatever their order, is the
refinement's step, and rests on `NewRowsOfAll`. That lemma is an
induction over the length of the file: as the library's induction theorem cannot be
used, it is done with sets of numbers, of which one that is not all of Nat misses a
smallest one (`WFMin`).

**SqlLoad** (`SqlLoadProofs`, `WorkInv` and `KeptInv`). `WorkInv`: the write lock is that
of the run whose transaction is open, a staging table belongs to a run that replaces,
and the tables other than that run's are whole. `KeptInv`, with at most one first load:
the user's database keeps its table or gets a whole one, a new one is whole once its maker
has succeeded, and a run that counts its rows has them at the destination.

**ParallelCopy, PgExport** (`PgExportProofs`: `TypeInv`, `PlaceInv`, `VoteInv`
for the parallel copy, `ExportInv` for the export). `TypeInv` has the labels each thread may have. `PlaceInv`
says where each taken batch is, and that a worker holds one only at its labels `taken` and
`load` or after a failure. `VoteInv` has three parts. `ErrorInv`: while nobody has
failed, a worker that is past its last batch has seen `done` and an empty queue, and `done`
then means that all was read. `OpenInv`, before the decision: nobody commits, and while
nobody has failed, `ready_workers` and `rows_loaded` are the number of the workers
waiting for the decision and of the batches they have sent, so that `ready_workers =
worker_count` means that all batches were sent. `DecidedInv`, after it: commits are
allowed exactly when that was so. `ExportInv` adds what is in order between the two
threads of the pipeline (`InOrder`, `ReaderInv`, `LoaderInv`), what each plan for the table
has led to before the copy, and what the copy's outcome says of the table after it.

TLC checked each inductive invariant on the run's instance before it was proved, except
the two of `ChartProofs`, which range over all sequences of entries and are out of its
reach; it checks what follows from them. One
lemma per action, and per part where parts have much to them, shows that it is kept.

Only model-checked:

* Liveness (`ExportReturns`, `GivesThePageBack`, `FormGetsFree`): TLAPS proves neither
  liveness under fairness nor the ENABLED it needs.
* `Aggregation`, whose answers are folds and sorted sets, with `CsvInput` and
  `SqlCommands` under it.

## 5. What is not modelled, and the plan

Not modelled for good:

* The functions csvzall adds to SQL (`sql_functions.cpp`) and what SQLite makes of a
  statement.
* Option parsing and dispatch (`main.cpp`, the longest file), JSON extraction,
  the Markdown calendar, the text of dates, colours and layout of charts: functions of
  text without a state.
* The bytes of gzip and ZIP; a gzip stream that breaks in the middle.
* Browser events around `openFile`, installation of the web application, menus.
* `transform_pipeline` beyond the input and the commands that have a model: it forwards
  rows from a reader to a writer.

Left out of components that are modelled, and worth adding:

1. Files the user opens in the page and the download a viewer without a host makes
   (`ViewerShell`); CSV dialect requests of the native viewer, and its serve-once mode.
2. The table form's own previews and column lists (`ChartForm`).
3. The abstract table of `CsvDocument` under `NativeViewer`, so that its rows and edits
   are those of the engine.

Worth proving next:

1. That the folds of `Aggregation` are its definitions, file by file: an induction over data,
   which needs the detour of `NewRowsLoop` (`StoreUpdateProofs`) for each fold.
