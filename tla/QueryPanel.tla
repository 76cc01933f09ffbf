----------------------------- MODULE QueryPanel -----------------------------
(***************************************************************************)
(* The features of the native viewer that read the table beside the grid:  *)
(* the SQLite query panel (sql.mjs), the export of a query into a note of  *)
(* the host (note-export.mjs), and the way into the charts dialog          *)
(* (features/charts.mjs).  All of them wait for edits that the page has    *)
(* not posted or the server has not answered, and any of their waits may   *)
(* end after the user has moved on.  A save and a reset of the shell are   *)
(* one step each: NativeViewer and ViewerShell are about them.             *)
(***************************************************************************)
EXTENDS Naturals

CONSTANTS Queries,     \* texts a user types
          Suggested,   \* defaultSqlQuery: what the panel suggests
          Empty,       \* no text
          NoResult,
          MaxEdits,    \* bound: cells edited
          MaxTurns,    \* bound: runs and visits to the panel, by the generation
          MaxOpens,    \* bound: clicks on Charts
          MaxInserts   \* bound: insertions asked for

ASSUME BoundsAreNumbers ==
    {MaxEdits, MaxTurns, MaxOpens, MaxInserts} \subseteq Nat

Texts == Queries \union {Suggested, Empty}

\* What is held is told apart from nothing.
ASSUME ResultsAreApart == NoResult \notin [sql : Texts, rows : SUBSET (1..MaxEdits)]

VARIABLES
    made, typed, due, posted,   \* edits: so far, in the cell editor, on the way, unanswered
    table, file, dirty,         \* edits the server holds, edits in the file, shell.dirty
    active, generation, running, input,   \* the panel
    result, resultQuery,        \* the rows that are held, and the query they answer
    shown, copyable,            \* the result grid, and the Copy button
    runs,                       \* calls of run() that have not returned
    enabled, pending, note,     \* note-export: capability, request under way, its message
    asked,                      \* insertions so far
    opening, opens,             \* where the charts dialog is
    clicked, discarded          \* history: edits made when Charts was clicked, resets

editVars == <<made, typed, due, posted, table, file, dirty>>
panelVars == <<active, generation, running, input, result, resultQuery, shown, copyable, runs>>
noteVars == <<enabled, pending, note, asked>>
chartVars == <<opening, opens, clicked, discarded>>
vars == <<editVars, panelVars, noteVars, chartVars>>

Nobody == [sql |-> Empty, save |-> FALSE]

Init ==
    /\ made = 0 /\ typed = 0 /\ due = {} /\ posted = {} /\ table = {} /\ file = {}
    /\ dirty = FALSE
    /\ active = FALSE /\ generation = 1 /\ running = FALSE /\ input = Suggested
    /\ result = NoResult /\ resultQuery = Empty /\ shown = FALSE /\ copyable = FALSE
    /\ runs = {}
    /\ enabled = FALSE /\ pending = 0 /\ note = Nobody /\ asked = 0
    /\ opening = "no" /\ opens = 0 /\ clicked = {} /\ discarded = FALSE

\* A modal dialog, or the inert body of a save.
Modal == opening \in {"asking", "saving", "open"}

----------------------------------------------------------------------------
(* Edits of the grid.                                                      *)

TypeEdit ==
    /\ ~active /\ ~Modal /\ typed = 0 /\ made < MaxEdits
    /\ made' = made + 1 /\ typed' = made'
    /\ UNCHANGED <<due, posted, table, file, dirty, panelVars, noteVars, chartVars>>

\* gridApi.stopEditing(): the grid delivers the value a moment later.
StopEditing ==
    /\ typed' = 0 /\ due' = (due \union {typed}) \ {0}

LeaveCell ==
    /\ typed # 0 /\ StopEditing
    /\ UNCHANGED <<made, posted, table, file, dirty, panelVars, noteVars, chartVars>>

\* commitCellEdit
PostEdit ==
    \E e \in due :
      /\ due' = due \ {e} /\ posted' = posted \union {e} /\ dirty' = TRUE
      /\ UNCHANGED <<made, typed, table, file, panelVars, noteVars, chartVars>>

EditAnswered ==
    \E e \in posted :
      /\ posted' = posted \ {e} /\ table' = table \union {e} /\ dirty' = TRUE
      /\ UNCHANGED <<made, typed, due, file, panelVars, noteVars, chartVars>>

\* A settle() that waits for a refused edit may fail with it, and whoever
\* called it.
EditRefused ==
    \E e \in posted :
      /\ posted' = posted \ {e}
      /\ \E failing \in SUBSET {r \in runs : r.stage = "settling"} :
           /\ runs' = runs \ failing
           /\ IF \E r \in failing : r.gen = generation
                THEN running' = FALSE /\ resultQuery' = Empty /\ copyable' = (result # NoResult)
                ELSE UNCHANGED <<running, resultQuery, copyable>>
      /\ opening' \in {opening} \union (IF opening \in {"settling", "saving", "discarding"}
                                         THEN {"no"} ELSE {})
      /\ UNCHANGED <<made, typed, due, table, file, dirty, active, generation, input, result,
                     shown, noteVars, opens, clicked, discarded>>

\* finishEditing() and csvMutations.settle() have come to an end.
Settled == due = {} /\ posted = {}

----------------------------------------------------------------------------
(* The query panel.                                                        *)

\* Seeded fault: the Copy button stays as the last visit left it.
EnterQueryCopyable ==
    /\ ~active /\ ~Modal /\ generation < MaxTurns
    /\ StopEditing
    /\ active' = TRUE /\ generation' = generation + 1 /\ running' = FALSE
    /\ result' = NoResult /\ shown' = FALSE
    /\ input' \in {input} \union Queries
    /\ UNCHANGED <<made, posted, table, file, dirty, copyable, resultQuery, runs, noteVars, chartVars>>

\* setMode(true).  What was held is forgotten; runs under way are outdated.
EnterQuery ==
    /\ ~active /\ ~Modal /\ generation < MaxTurns
    /\ StopEditing
    /\ active' = TRUE /\ generation' = generation + 1 /\ running' = FALSE
    /\ result' = NoResult /\ shown' = FALSE /\ copyable' = FALSE
    /\ input' \in {input} \union Queries          \* queryColumn writes a query first
    /\ UNCHANGED <<made, posted, table, file, dirty, resultQuery, runs, noteVars, chartVars>>

\* setMode(false)
ExitQuery ==
    /\ active /\ ~Modal
    /\ active' = FALSE /\ generation' = generation + 1 /\ running' = FALSE
    /\ shown' = FALSE
    /\ UNCHANGED <<editVars, input, result, resultQuery, copyable, runs, noteVars, chartVars>>

TypeQuery ==
    /\ active /\ ~Modal
    /\ input' \in Texts /\ input' # input
    /\ UNCHANGED <<editVars, active, generation, running, result, resultQuery, shown, copyable,
                   runs, noteVars, chartVars>>

StartRun ==
    /\ active /\ ~running /\ ~Modal /\ generation < MaxTurns
    /\ generation' = generation + 1 /\ running' = TRUE /\ copyable' = FALSE
    /\ StopEditing
    /\ runs' = runs \union {[gen |-> generation', stage |-> "settling", sql |-> Empty, rows |-> {}]}
    /\ UNCHANGED <<made, posted, table, file, dirty, active, input, result, resultQuery, shown,
                   noteVars, chartVars>>

Becomes(r, s) == runs' = (runs \ {r}) \union {s}

\* Seeded fault: the query does not wait for the edits.
PostQueryAtOnce(r) ==
    /\ r.stage = "settling"
    /\ IF r.gen = generation THEN Becomes(r, [r EXCEPT !.stage = "posted", !.sql = input])
                             ELSE runs' = runs \ {r}
    /\ UNCHANGED <<editVars, active, generation, running, input, result, resultQuery, shown,
                   copyable, noteVars, chartVars>>

\* The edits are in; the text is read now, and posted.
PostQuery(r) ==
    /\ r.stage = "settling" /\ Settled
    /\ IF r.gen = generation THEN Becomes(r, [r EXCEPT !.stage = "posted", !.sql = input])
                             ELSE runs' = runs \ {r}
    /\ UNCHANGED <<editVars, active, generation, running, input, result, resultQuery, shown,
                   copyable, noteVars, chartVars>>

\* The database in memory has the rows of this moment, all of them.
LoadViewerDataIntoSqlite == table

\* Rows, or a refusal: of a statement that is not one that only reads, or of
\* one that fails.  An empty text asks for the whole table.
BuildSqlQueryResult(r) ==
    {[r EXCEPT !.stage = "rows", !.rows = LoadViewerDataIntoSqlite], [r EXCEPT !.stage = "refused"]}

Execute(r) ==
    /\ r.stage = "posted"
    /\ \E answered \in BuildSqlQueryResult(r) : Becomes(r, answered)
    /\ UNCHANGED <<editVars, active, generation, running, input, result, resultQuery, shown,
                   copyable, noteVars, chartVars>>

\* Seeded fault: an answer that has become outdated is shown all the same.
TakeAnyRows(r) ==
    /\ r.stage = "rows" /\ runs' = runs \ {r}
    /\ result' = [sql |-> r.sql, rows |-> r.rows] /\ resultQuery' = r.sql
    /\ shown' = TRUE /\ running' = FALSE /\ copyable' = TRUE
    /\ UNCHANGED <<editVars, active, generation, input, noteVars, chartVars>>

TakeRows(r) ==
    /\ r.stage = "rows" /\ runs' = runs \ {r}
    /\ IF r.gen = generation
         THEN /\ result' = [sql |-> r.sql, rows |-> r.rows] /\ resultQuery' = r.sql
              /\ shown' = TRUE /\ running' = FALSE /\ copyable' = TRUE
         ELSE UNCHANGED <<result, resultQuery, shown, running, copyable>>
    /\ UNCHANGED <<editVars, active, generation, input, noteVars, chartVars>>

\* The rows of the query before stay, and may be copied, but no longer exported.
TakeError(r) ==
    /\ r.stage = "refused" /\ runs' = runs \ {r}
    /\ IF r.gen = generation
         THEN resultQuery' = Empty /\ running' = FALSE /\ copyable' = (result # NoResult)
         ELSE UNCHANGED <<resultQuery, running, copyable>>
    /\ UNCHANGED <<editVars, active, generation, input, result, shown, noteVars, chartVars>>

RunStep(r) == PostQuery(r) \/ Execute(r) \/ TakeRows(r) \/ TakeError(r)

----------------------------------------------------------------------------
(* Inserting the query into a note.                                        *)

\* getQuery: the text is exported only while it is the one whose rows are held.
Exportable ==
    IF active /\ ~running /\ result # NoResult /\ input = resultQuery THEN resultQuery ELSE Empty

\* The host says whether it takes exports.
TakeCapability ==
    /\ enabled' = ~enabled /\ asked < MaxInserts
    /\ UNCHANGED <<editVars, panelVars, pending, note, asked, chartVars>>

Insert ==
    /\ enabled /\ Exportable # Empty /\ pending = 0 /\ ~Modal /\ asked < MaxInserts
    /\ asked' = asked + 1 /\ pending' = asked'
    /\ note' = [sql |-> Exportable, save |-> dirty]
    /\ UNCHANGED <<editVars, panelVars, enabled, chartVars>>

\* The host may never answer.
InsertAnswered ==
    /\ pending # 0 /\ pending' = 0 /\ note' = Nobody
    /\ UNCHANGED <<editVars, panelVars, enabled, asked, chartVars>>

----------------------------------------------------------------------------
(* Into the charts dialog.                                                 *)

\* Seeded fault: only what the shell already knows of is waited for.
ClickChartsAtOnce ==
    /\ opening = "no" /\ ~Modal /\ opens < MaxOpens
    /\ opens' = opens + 1 /\ clicked' = 1..made
    /\ opening' = IF dirty THEN "asking" ELSE "open"
    /\ UNCHANGED <<editVars, panelVars, noteVars, discarded>>

ClickCharts ==
    /\ opening = "no" /\ opens < MaxOpens
    /\ opens' = opens + 1 /\ clicked' = 1..made
    /\ opening' = "settling" /\ StopEditing
    /\ UNCHANGED <<made, posted, table, file, dirty, panelVars, noteVars, discarded>>

ChartsSettled ==
    /\ opening = "settling" /\ Settled
    /\ opening' = IF dirty THEN "asking" ELSE "open"
    /\ UNCHANGED <<editVars, panelVars, noteVars, opens, clicked, discarded>>

\* Save, Discard or Cancel in the dialog about unsaved changes.
Choose ==
    /\ opening = "asking"
    /\ \/ opening' \in {"saving", "discarding"} /\ StopEditing
       \/ opening' = "no" /\ UNCHANGED <<typed, due>>
    /\ UNCHANGED <<made, posted, table, file, dirty, panelVars, noteVars, opens, clicked, discarded>>

\* shell.save() or shell.reset(); a failure leaves the table dirty and the
\* dialog closed.
Proceed ==
    /\ opening \in {"saving", "discarding"} /\ Settled
    /\ \/ /\ opening = "saving" /\ file' = table /\ dirty' = FALSE /\ opening' = "open"
          /\ UNCHANGED <<table, discarded>>
       \/ /\ opening = "discarding" /\ table' = file /\ dirty' = FALSE /\ opening' = "open"
          /\ discarded' = TRUE /\ UNCHANGED file
       \/ opening' = "no" /\ UNCHANGED <<table, file, dirty, discarded>>
    /\ UNCHANGED <<made, typed, due, posted, panelVars, noteVars, opens, clicked>>

CloseCharts ==
    /\ opening = "open" /\ opening' = "no"
    /\ UNCHANGED <<editVars, panelVars, noteVars, opens, clicked, discarded>>

----------------------------------------------------------------------------

Next ==
    \/ TypeEdit \/ LeaveCell \/ PostEdit \/ EditAnswered \/ EditRefused
    \/ EnterQuery \/ ExitQuery \/ TypeQuery \/ StartRun
    \/ \E r \in runs : RunStep(r)
    \/ TakeCapability \/ Insert \/ InsertAnswered
    \/ ClickCharts \/ ChartsSettled \/ Choose \/ Proceed \/ CloseCharts

Spec == Init /\ [][Next]_vars

----------------------------------------------------------------------------
(* Properties.                                                             *)

\* Types, and what the panel's parts know of each other: each edit is in one place, a
\* result that can be copied is shown, and a panel that waits has a run of this visit.
QueryTypeOK ==
    /\ made \in 0..MaxEdits /\ typed \in 0..made
    /\ due \subseteq 1..made /\ posted \subseteq 1..made /\ due \cap posted = {}
    /\ table \subseteq 1..made /\ file \subseteq 1..made
    /\ ~dirty /\ posted = {} => table = file
    /\ generation \in 1..(MaxTurns + 1)
    /\ result = NoResult \/ result \in [sql : Texts, rows : SUBSET (1..made)]
    /\ shown => result # NoResult
    /\ active /\ copyable => shown
    /\ running => \E r \in runs : r.gen = generation
    /\ pending \in 0..asked
    /\ opening \in {"no", "settling", "asking", "saving", "discarding", "open"}

\* "Use SQLite syntax with table data, including unsaved edits"
\* (features/sql.mjs:26).  The rows in the result grid are those of the table
\* with every edit made so far: edits typed just before the panel opened are
\* waited for, and no answer of an earlier visit to the panel is shown in this
\* one.  Only Discard in the charts dialog changes the table behind the panel.
ResultsSeeEveryEdit ==
    shown /\ ~discarded => typed = 0 /\ Settled /\ result.rows = table

NoteIsOfTheResult ==
    note' # note /\ pending' # 0 /\ ~discarded =>
      /\ note'.sql = result.sql
      /\ note'.save \/ result.rows = file

\* A note that runs the query over the file shows the rows the user saw when
\* asking for it: the text is the one that was run, and unsaved edits are
\* saved first.
NoteShowsTheResult == [][NoteIsOfTheResult]_vars

\* "Charts ... require save/discard before opening against a dirty document"
\* (docs/shared-viewer-shell.md:22-23): the charts are drawn from the file, so
\* while their dialog is open no edit made before the click is anywhere else.
ChartsSeeTheFile ==
    opening = "open" =>
      /\ clicked \cap (due \union posted \union {typed}) = {}
      /\ clicked \cap table \subseteq file

=============================================================================
