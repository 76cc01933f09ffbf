---------------------------- MODULE NativeViewer ----------------------------
(***************************************************************************)
(* `csvzall view`: the shell (shell.mjs) over the native adapter           *)
(* (native.mjs) and the HTTP server (view/server.cpp).  Every mutation is  *)
(* a request of its own and, when it changes the table's shape, the        *)
(* adapter asks for the schema in a second one; nothing orders the         *)
(* requests of two operations, nor the pages the grid asks for.  A row is  *)
(* an identity, so that one can say which row an edit was meant for and    *)
(* which row it reached.                                                   *)
(*                                                                         *)
(* The handlers run on a thread pool and share CsvViewData without a lock; *)
(* what two overlapping handlers do to it is undefined, and a handler is   *)
(* one step here.  The engine behind them is IndexedCsv; here it is the    *)
(* table it shows.  Nobody else touches the file.                          *)
(***************************************************************************)
EXTENDS Integers, FiniteSets, SequencesExt

CONSTANTS Columns,      \* the columns of the file, in order
          Rows,         \* how many rows it has
          NewColumns,   \* names a user may type
          NoPage,       \* no rows in the grid
          MaxSteps,     \* bound: mutations and column moves
          MaxReads,     \* bound: page requests under way
          MaxResets     \* bound: resets

Name == Range(Columns) \union NewColumns
Table == [rows : Seq(Nat), cols : Seq(Name), edits : SUBSET (Nat \X Nat)]

ASSUME NativeViewerAssumption ==
    /\ Columns \in Seq(Name) /\ IsInjective(Columns)
    /\ NoPage \notin Table
    /\ Rows \in Nat /\ MaxSteps \in Nat /\ MaxReads \in Nat /\ MaxResets \in Nat

VARIABLES
    file, table,              \* the CSV on disk, and what CsvViewData holds
    calls, reads,             \* mutations and page requests under way
    shown, order, current,    \* activeColumns, the grid's order, the adapter's `current`
    page, count,              \* the rows in the grid, and rowCount
    dirty, dataDirty,
    saving, payload, told, unchanged, loading,  \* saveCurrentChanges and its dialog
    resetting, resets, made,
    overlapped, strayed, replaced   \* history: see the properties

serverVars == <<file, table>>
viewVars == <<shown, order, current, page, count>>
saveVars == <<saving, payload, told, unchanged, loading, replaced>>
stepVars == <<resetting, resets, made>>
vars == <<serverVars, viewVars, saveVars, stepVars, calls, reads, dirty, dataDirty,
          overlapped, strayed>>

Opened == [rows |-> [i \in 1..Rows |-> i], cols |-> Columns, edits |-> {}]

Init ==
    /\ file = Opened /\ table = Opened /\ calls = {} /\ reads = {}
    /\ shown = Columns /\ order = Columns /\ current = Columns
    /\ page = Opened /\ count = Rows
    /\ dirty = FALSE /\ dataDirty = FALSE
    /\ saving = "no" /\ payload = <<>> /\ told = <<>> /\ unchanged = FALSE
    /\ loading = FALSE
    /\ resetting = "no" /\ resets = 0 /\ made = 0
    /\ overlapped = {} /\ strayed = FALSE /\ replaced = FALSE

----------------------------------------------------------------------------
(* The server.  Each handler yields the tables its request may leave: none *)
(* when the engine throws and the answer is 400.                           *)

EditCell(t, c) ==
    IF c.at \in DOMAIN t.rows /\ c.col \in Range(t.cols)
      THEN {[t EXCEPT !.edits = @ \union {<<t.rows[c.at], c.id>>}]} ELSE {}

DeleteRow(t, c) ==
    IF c.at \in DOMAIN t.rows THEN {[t EXCEPT !.rows = RemoveAt(@, c.at)]} ELSE {}

\* The page sends one value for every column it knows of.
InsertRow(t, c) ==
    IF c.at <= Len(t.rows) + 1 /\ c.width = Len(t.cols)
      THEN {[t EXCEPT !.rows = InsertAt(@, c.at, Rows + c.id)]} ELSE {}

SwapRows(t, c) ==
    IF {c.at, c.with} \subseteq DOMAIN t.rows
      THEN {[t EXCEPT !.rows = [@ EXCEPT ![c.at] = t.rows[c.with], ![c.with] = t.rows[c.at]]]}
      ELSE {}

InsertColumn(t, c) ==
    IF c.at <= Len(t.cols) + 1 /\ c.name \notin Range(t.cols)
      THEN {[t EXCEPT !.cols = InsertAt(@, c.at, c.name)]} ELSE {}

RenameColumn(t, c) ==
    IF c.col \in Range(t.cols) /\ c.name \notin Range(t.cols)
      THEN {[t EXCEPT !.cols = [i \in DOMAIN @ |-> IF @[i] = c.col THEN c.name ELSE @[i]]]}
      ELSE {}

DeleteColumn(t, c) ==
    {[t EXCEPT !.cols = RemoveAt(@, i)] : i \in {j \in DOMAIN t.cols : t.cols[j] = c.col /\ Len(t.cols) > 1}}

\* The engine reloads the file; it may refuse (409).
ResetTable == {{file}, {}}

RowOps == {"deleteRow", "insertRow"}
ColumnOps == {"insertColumn", "renameColumn", "deleteColumn", "reset"}

Outcomes(c) ==
    CASE c.op = "editCell" -> {EditCell(table, c)}
      [] c.op = "deleteRow" -> {DeleteRow(table, c)}
      [] c.op = "insertRow" -> {InsertRow(table, c)}
      [] c.op = "swapRows" -> {SwapRows(table, c)}
      [] c.op = "insertColumn" -> {InsertColumn(table, c)}
      [] c.op = "renameColumn" -> {RenameColumn(table, c)}
      [] c.op = "deleteColumn" -> {DeleteColumn(table, c)}
      [] OTHER -> ResetTable

Put(c, phase) == (calls \ {c}) \union {[c EXCEPT !.phase = phase]}

\* The server handles one of the mutations, in whatever order they arrive.
Handle(c) ==
    /\ c.phase = "sent"
    /\ \E after \in Outcomes(c) :
         IF after = {}
           THEN calls' = Put(c, "refused") /\ UNCHANGED <<table, strayed>>
           ELSE /\ table' \in after
                /\ calls' = Put(c, "done")
                /\ strayed' = (strayed \/ (c.row # 0 /\ table.rows[c.at] # c.row))
    /\ UNCHANGED <<file, viewVars, saveVars, stepVars, reads, dirty, dataDirty,
                   overlapped>>

\* GET /api/schema, which the adapter sends when a mutation other than an
\* edit or a swap has been answered.
Schema(c) ==
    /\ c.phase = "done" /\ c.op \in RowOps \union ColumnOps
    /\ calls' = (calls \ {c}) \union
                  {[c EXCEPT !.phase = "told", !.cols = table.cols, !.count = Len(table.rows)]}
    /\ UNCHANGED <<serverVars, viewVars, saveVars, stepVars, reads, dirty, dataDirty,
                   overlapped, strayed>>

\* GET /api/rows.
ReadRows(r) ==
    /\ r.answer = NoPage
    /\ reads' = (reads \ {r}) \union {[r EXCEPT !.answer = table]}
    /\ UNCHANGED <<serverVars, viewVars, saveVars, stepVars, calls, dirty, dataDirty,
                   overlapped, strayed>>

Written == [table EXCEPT !.cols = IF payload = <<>> THEN @ ELSE payload]

\* Seeded fault: an exception of the charts reaches the handler of the save's.
SaveWithCharts ==
    /\ saving = "sent"
    /\ file' = Written /\ table' = Written /\ replaced' = TRUE
    /\ saving' \in {"done", "refused"}
    /\ UNCHANGED <<viewVars, payload, told, unchanged, loading, stepVars, calls, reads, dirty,
                   dataDirty, overlapped, strayed>>

\* POST /api/save: the engine replaces the file and reloads it, or refuses
\* (409).  A chart that cannot be rendered then only adds a message.
Save ==
    /\ saving = "sent"
    /\ \/ /\ saving' = "refused"
          /\ UNCHANGED <<serverVars, replaced>>
       \/ /\ payload = <<>> \/ (Range(payload) = Range(table.cols)
                                  /\ Len(payload) = Len(table.cols))
          /\ file' = Written /\ table' = Written /\ replaced' = TRUE
          /\ saving' = "done"
    /\ UNCHANGED <<viewVars, payload, told, unchanged, loading, stepVars, calls, reads, dirty,
                   dataDirty, overlapped, strayed>>

\* The schema that native.mjs asks for once the save has been answered.
SavedSchema ==
    /\ saving = "done" /\ saving' = "told" /\ told' = <<table.cols, Len(table.rows)>>
    /\ UNCHANGED <<serverVars, viewVars, payload, unchanged, loading, replaced, stepVars, calls,
                   reads, dirty, dataDirty, overlapped, strayed>>

----------------------------------------------------------------------------
(* The page.                                                               *)

\* document.body.inert during a save, or the modal loading dialog.
Blocked == saving # "no" \/ loading

NewCall(op) == [id |-> made + 1, op |-> op, phase |-> "sent", at |-> 1, with |-> 1, width |-> 0,
                row |-> 0, col |-> NoPage, name |-> NoPage, cols |-> <<>>, count |-> 0]

\* csvMutations.run: dirty, and a new revision, before the request is sent.
Dispatch(c) ==
    /\ calls' = calls \union {c}
    /\ made' = made + 1
    /\ dirty' = TRUE /\ dataDirty' = TRUE /\ unchanged' = FALSE
    /\ overlapped' = overlapped \union (IF calls # {} THEN {"calls"} ELSE {})
                                 \union (IF saving # "no" THEN {"save"} ELSE {})

Act(c) ==
    /\ ~Blocked /\ made < MaxSteps /\ Dispatch(c)
    /\ UNCHANGED <<serverVars, shown, order, current, count, saving, payload, told, replaced,
                   loading, resetting, resets, reads, strayed>>

\* Seeded fault: the row below the one that was clicked.
RowAtNext(i, op) == [NewCall(op) EXCEPT !.row = page.rows[i], !.at = i + 1]

\* _csvzallRowId: the position the row had when its page was read.
RowAt(i, op) == [NewCall(op) EXCEPT !.row = page.rows[i], !.at = i]

RowsShown == IF page = NoPage THEN {} ELSE DOMAIN page.rows

Edit ==
    \E i \in RowsShown, col \in Range(shown) :
      LET c == [RowAt(i, "editCell") EXCEPT !.col = col] IN
        /\ Act(c)
        /\ page' = [page EXCEPT !.edits = @ \union {<<page.rows[i], c.id>>}]

Delete ==
    \E i \in RowsShown :
      /\ i <= count
      /\ Act(RowAt(i, "deleteRow")) /\ UNCHANGED page

\* At a row of the grid, or, when none is selected, at rowCount.
Insert ==
    \E i \in {j \in RowsShown \union {count + 1} : j <= count + 1} :
      /\ Act([NewCall("insertRow") EXCEPT !.at = i, !.width = Len(shown)]) /\ UNCHANGED page

Move ==
    \E i \in RowsShown :
      /\ i + 1 <= count
      /\ Act([RowAt(i, "swapRows") EXCEPT !.with = i + 1]) /\ UNCHANGED page

\* The name dialog refuses a name that is shown.
AddColumn ==
    \E n \in NewColumns \ Range(shown), i \in 1..(Len(shown) + 1) :
      /\ Act([NewCall("insertColumn") EXCEPT !.at = i, !.name = n]) /\ UNCHANGED page

Rename ==
    \E c \in Range(shown), n \in NewColumns \ Range(shown) :
      /\ Act([NewCall("renameColumn") EXCEPT !.col = c, !.name = n]) /\ UNCHANGED page

DropColumn ==
    \E c \in Range(shown) :
      /\ Act([NewCall("deleteColumn") EXCEPT !.col = c]) /\ UNCHANGED page

\* currentGridColumns filters the grid's columns: SelectSeq, in a form that a
\* proof can unfold.
Known(cols) ==
    LET kept[i \in 0..Len(cols)] ==
            IF i = 0 THEN <<>>
            ELSE IF cols[i] \in Range(shown) THEN Append(kept[i - 1], cols[i]) ELSE kept[i - 1]
    IN kept[Len(cols)]

GridColumns == Known(order)

StartsLike(s, t) == \A i \in DOMAIN s : i \in DOMAIN t /\ s[i] = t[i]

\* onColumnMoved: the order belongs to the grid until a save writes it.
MoveColumn ==
    /\ ~Blocked /\ made < MaxSteps /\ Len(order) > 1
    /\ made' = made + 1
    /\ order' = Tail(order) \o <<Head(order)>>
    /\ dirty' = (dataDirty \/ ~StartsLike(Known(order'), shown)) /\ unchanged' = FALSE
    /\ UNCHANGED <<serverVars, shown, current, page, count, saving, payload, told, replaced, loading,
                   resetting, resets, calls, reads, dataDirty, overlapped, strayed>>

\* Seeded fault: the rows in the grid stay.
RefreshLater == UNCHANGED <<page, reads>>

\* Seeded fault: the blocks under way stay in the cache.
RefreshTwice ==
    /\ Cardinality(reads) < MaxReads
    /\ page' = NoPage
    /\ reads' = reads \union {[id |-> CHOOSE i \in 1..MaxReads : \A r \in reads : r.id # i,
                               alive |-> TRUE, answer |-> NoPage]}

\* purgeInfiniteCache: the blocks under way are dead, and one is asked for again.
RefreshRows ==
    /\ Cardinality(reads) < MaxReads
    /\ page' = NoPage
    /\ reads' = {[r EXCEPT !.alive = FALSE] : r \in reads} \union
                  {[id |-> CHOOSE i \in 1..MaxReads : \A r \in reads : r.id # i,
                    alive |-> TRUE, answer |-> NoPage]}

\* A dead block's answer is not shown, but rowCount is taken from it.
TakeRows(r) ==
    /\ r.answer # NoPage
    /\ reads' = reads \ {r}
    /\ count' = Len(r.answer.rows)
    /\ page' = IF r.alive THEN r.answer ELSE page
    /\ UNCHANGED <<serverVars, shown, order, current, saveVars, stepVars, calls, dirty, dataDirty,
                   overlapped, strayed>>

ApplySchema(cols, n) == shown' = cols /\ current' = cols /\ count' = n

MarkDataDirty == dirty' = TRUE /\ dataDirty' = TRUE /\ unchanged' = FALSE

\* The continuation of an operation whose last answer has arrived.
Taken(c) ==
    /\ calls' = calls \ {c}
    /\ UNCHANGED <<serverVars, made, resets, overlapped, strayed>>

Edited(c) ==
    /\ c.op = "editCell" /\ c.phase = "done"
    /\ Taken(c) /\ MarkDataDirty
    /\ UNCHANGED <<viewVars, saving, payload, told, replaced, loading, resetting, reads>>

Swapped(c) ==
    /\ c.op = "swapRows" /\ c.phase = "done"
    /\ Taken(c) /\ MarkDataDirty /\ RefreshRows
    /\ UNCHANGED <<shown, order, current, count, saving, payload, told, replaced, loading, resetting>>

RowsChanged(c) ==
    /\ c.op \in RowOps /\ c.phase = "told"
    /\ Taken(c) /\ MarkDataDirty /\ RefreshRows /\ ApplySchema(c.cols, c.count)
    /\ UNCHANGED <<order, saving, payload, told, replaced, loading, resetting>>

\* setGridColumnDefs lays the columns out again; a reset also ends clean.
ColumnsChanged(c) ==
    /\ c.op \in ColumnOps /\ c.phase = "told"
    /\ Taken(c) /\ RefreshRows /\ ApplySchema(c.cols, c.count) /\ order' = c.cols
    /\ IF c.op = "reset"
         THEN dirty' = FALSE /\ dataDirty' = FALSE /\ unchanged' = FALSE /\ loading' = FALSE
              /\ resetting' = "no"
         ELSE MarkDataDirty /\ UNCHANGED <<loading, resetting>>
    /\ UNCHANGED <<saving, payload, told, replaced>>

\* An edit's cell gets its old text back, and finishEditing swallows the
\* refusal.  A settle() that waits for a structural change is rejected with
\* it, and the save or reset that called it ends; one that has not come to
\* settle() yet does not notice.
Refused(c) ==
    /\ c.phase = "refused" /\ Taken(c)
    /\ page' = IF c.op = "editCell" /\ page # NoPage
                 THEN [page EXCEPT !.edits = {e \in @ : e[2] # c.id}] ELSE page
    /\ loading' = (loading /\ c.op # "reset")
    /\ \/ resetting' = IF c.op = "reset" THEN "no" ELSE resetting
       \/ c.op # "editCell" /\ resetting = "settling" /\ resetting' = "no"
    /\ \/ UNCHANGED saving
       \/ c.op # "editCell" /\ saving = "settling" /\ saving' = "no"
    /\ UNCHANGED <<shown, order, current, count, payload, told, replaced, unchanged, reads, dirty, dataDirty>>

----------------------------------------------------------------------------
(* Saving and resetting.                                                   *)

StartSave ==
    /\ ~Blocked /\ dirty /\ saving' = "settling"
    /\ UNCHANGED <<serverVars, viewVars, payload, told, unchanged, loading, replaced, stepVars, calls,
                   reads, dirty, dataDirty, overlapped, strayed>>

\* Seeded fault: the grid's order is not sent.
PrepareWithoutOrder ==
    /\ saving = "settling" /\ calls = {}
    /\ saving' = "sent" /\ loading' = TRUE /\ unchanged' = TRUE /\ replaced' = FALSE
    /\ payload' = <<>>
    /\ UNCHANGED <<file, table, viewVars, told, stepVars, calls, reads, dirty, dataDirty,
                   overlapped, strayed>>

\* settle() has come back; the adapter sends the columns only when their
\* order is not the one of its last schema.
Prepare ==
    /\ saving = "settling" /\ calls = {}
    /\ saving' = "sent" /\ loading' = TRUE /\ unchanged' = TRUE /\ replaced' = FALSE
    /\ payload' = IF StartsLike(GridColumns, current) THEN <<>> ELSE GridColumns
    /\ UNCHANGED <<file, table, viewVars, told, stepVars, calls, reads, dirty, dataDirty,
                   overlapped, strayed>>

EndSave ==
    /\ saving' = "no" /\ loading' = FALSE
    /\ payload' = <<>> /\ told' = <<>> /\ replaced' = FALSE

Saved ==
    /\ saving = "told" /\ EndSave
    /\ IF unchanged
         THEN /\ dirty' = FALSE /\ dataDirty' = FALSE
              /\ RefreshRows /\ ApplySchema(told[1], told[2])
              /\ order' = IF shown # told[1] THEN told[1] ELSE order
         ELSE current' = told[1] /\ UNCHANGED <<dirty, dataDirty, page, reads, shown, count, order>>
    /\ UNCHANGED <<serverVars, unchanged, stepVars, calls, overlapped, strayed>>

SaveFailed ==
    /\ saving = "refused" /\ EndSave
    /\ UNCHANGED <<serverVars, viewVars, unchanged, stepVars, calls, reads, dirty, dataDirty,
                   overlapped, strayed>>

StartReset ==
    /\ ~Blocked /\ dirty /\ resetting = "no" /\ resets < MaxResets
    /\ resetting' = "settling" /\ resets' = resets + 1
    /\ UNCHANGED <<serverVars, viewVars, saveVars, made, calls, reads, dirty, dataDirty,
                   overlapped, strayed>>

\* settle() has come back: the loading dialog, and the reset as a mutation.
AskReset ==
    /\ resetting = "settling" /\ calls = {}
    /\ resetting' = "asked" /\ loading' = TRUE
    /\ Dispatch(NewCall("reset"))
    /\ UNCHANGED <<serverVars, viewVars, saving, payload, told, replaced, resets, reads, strayed>>

----------------------------------------------------------------------------

UserStep ==
    \/ Edit \/ Delete \/ Insert \/ Move \/ AddColumn \/ Rename \/ DropColumn \/ MoveColumn
    \/ StartSave \/ StartReset

ServerStep ==
    \/ \E c \in calls : Handle(c) \/ Schema(c)
    \/ \E r \in reads : ReadRows(r)
    \/ Save \/ SavedSchema

PageStep ==
    \/ \E c \in calls : Edited(c) \/ Swapped(c) \/ RowsChanged(c) \/ ColumnsChanged(c) \/ Refused(c)
    \/ \E r \in reads : TakeRows(r)
    \/ Prepare \/ Saved \/ SaveFailed \/ AskReset

Next == UserStep \/ ServerStep \/ PageStep

\* The server answers every request, and the page runs its continuations.
Spec == Init /\ [][Next]_vars

----------------------------------------------------------------------------
(* Properties.                                                             *)

\* Types; columns keep different names, and no two requests are taken for one another.
NativeTypeOK ==
    /\ \A t \in {file, table} :
         /\ \A i \in DOMAIN t.rows : t.rows[i] \in 1..(Rows + made)
         /\ \A i, j \in DOMAIN t.cols : i # j => t.cols[i] # t.cols[j]
    /\ \A c, d \in calls : c.id = d.id => c = d
    /\ \A c \in calls : c.phase \in {"sent", "done", "told", "refused"}
    /\ \A q, r \in reads : q.id = r.id \/ (q.alive /\ r.alive) => q = r
    /\ saving \in {"no", "settling", "sent", "done", "told", "refused"}
    /\ resetting \in {"no", "settling", "asked"}
    /\ overlapped \subseteq {"calls", "save"}
    /\ \A b \in {dirty, dataDirty, unchanged, loading, strayed, replaced} : b \in BOOLEAN

AtRest == calls = {} /\ saving = "no"

\* Once every answer has been taken, the rows in the grid are the server's
\* rows in the server's order, whatever overlapped and however late the
\* pages came.  As long as no two operations have overlapped, so are its
\* columns and its texts, and the adapter's idea of the column order.
ViewIsTheTable ==
    AtRest =>
      /\ page = NoPage \/ page.rows = table.rows
      /\ overlapped = {} =>
           /\ shown = table.cols /\ current = table.cols
           /\ page \in {NoPage, table}

\* An edit, deletion or move changes the row it was made on, unless another
\* operation was under way: rows are named by their position when the page
\* was read, which nothing compares with the table when they arrive.
EditsHitTheirRows == strayed => "calls" \in overlapped

\* A view without unsaved changes has nothing that is not in the file, unless a
\* reset was sent during a save: both were clicked while a mutation was under
\* way, and the server may take them in either order.  Nor does the grid have its
\* columns in another order, unless two mutations overlapped: schemas taken out
\* of order may leave it without a column, and a save then finds it all in order.
CleanMeansSaved ==
    AtRest /\ ~dirty /\ "save" \notin overlapped =>
        /\ table = file
        /\ "calls" \notin overlapped => GridColumns = file.cols

\* A save that has replaced the file leaves the view clean, unless something
\* was changed during it; charts that cannot be rendered afterwards
\* (server.cpp:499-514) do not make it a failed save.
SavedMeansClean ==
    [][(saving # "no" /\ saving' = "no" /\ replaced) => (~dirty' \/ ~unchanged)]_vars

=============================================================================
