---------------------------- MODULE SqlCommands ----------------------------
(***************************************************************************)
(* filter, derive and sql query: the input, or several named ones, becomes *)
(* tables of a SQLite database of the command's own, and a statement over  *)
(* them the output.  Each table is read in two passes: one for the         *)
(* affinities of its columns, one for its rows.  The standard input is     *)
(* kept for the second; a file is opened again and may have changed.       *)
(* SQLite is external.                                                     *)
(*                                                                         *)
(* job.how says what the SQL text is: "empty", "malformed" or "taken" (a   *)
(* derived column that cannot be), "bad" for SQLite, "none" (no result     *)
(* set), or "ok".  job.tables has the [name, folded, input] of each table. *)
(***************************************************************************)
EXTENDS CsvInput

VARIABLES
    first,     \* the rows of a table's first pass
    loaded,    \* the tables so far: [type, first, rows] of one of their columns
    temp       \* a temporary database file is there

sqlVars == <<first, loaded, temp>>

Commands == {"filter", "derive", "query"}

Input == job.tables[Len(loaded) + 1].input

\* Of csv_loader: what SQLite cannot keep as a number needs text.
ObserveAffinity(cell) ==
    CASE cell.kind = "blank" -> "null"
      [] IsNumber(cell) /\ cell.n # 3 -> "numeric"
      [] cell.kind = "text" \/ cell.n = 3 -> "text"

InferAffinity ==
    IF "numeric" \in DOMAIN table /\ "text" \notin DOMAIN table THEN "NUMERIC" ELSE "TEXT"

Observe(type) == Put(type, (IF type \in DOMAIN table THEN table[type] ELSE 0) + 1)

\* What is refused before a database is opened: an empty WHERE, a column that
\* cannot be derived, tables without a name of their own or a second one that
\* would read the standard input.
FilterAccepted == job.how # "empty"

DeriveAccepted == job.how \notin {"empty", "malformed", "taken"}

QueryAccepted ==
    LET tables == job.tables
        Stdin == {i \in DOMAIN tables : tables[i].input.kind = "stdin"}
    IN  /\ job.how # "empty" /\ tables # <<>>
        /\ \A i \in DOMAIN tables : tables[i].name # ""
        /\ \A i, j \in DOMAIN tables : tables[i].folded = tables[j].folded => i = j
        /\ \A i, j \in Stdin : i = j

Accepted ==
    CASE job.cmd = "filter" -> FilterAccepted
      [] job.cmd = "derive" -> DeriveAccepted
      [] job.cmd = "query" -> QueryAccepted

\* The command returns, and ~SqliteDb removes a temporary file.
Ends(result) == phase' = result /\ temp' = FALSE

\* OpenSqliteDb: above the threshold in a file that is deleted again.
OpenSqliteDb ==
    /\ phase = "opening" /\ job.cmd \in Commands
    /\ IF Accepted THEN phase' = "table" /\ temp' = (job.db = "temp") ELSE Ends("failed")
    /\ UNCHANGED <<job, seen, order, table, answer, first, loaded>>

\* init_reader for the next table.
OpenTable ==
    /\ phase = "table" /\ Len(loaded) < Len(job.tables)
    /\ IF OpenCsvReader(Input) THEN phase' = "infer" /\ temp' = temp ELSE Ends("failed")
    /\ seen' = <<>> /\ table' = <<>>
    /\ UNCHANGED <<job, order, answer, first, loaded>>

Room == Len(seen) < MaxRows

InferRow == \E r \in RowsOf[job] :
    /\ phase = "infer" /\ Room
    /\ seen' = Append(seen, r) /\ table' = Observe(ObserveAffinity(r.ys[1]))
    /\ UNCHANGED <<job, phase, order, answer, sqlVars>>

\* reset_reader, which fails when a file's header has changed; then CREATE
\* TABLE, which fails in a database that has the table.
ResetReader ==
    /\ phase = "infer"
    /\ \/ phase' = "load" /\ job.db # "used" /\ temp' = temp
       \/ (Input.kind # "stdin" \/ job.db = "used") /\ Ends("failed")
    /\ first' = seen /\ seen' = <<>>
    /\ UNCHANGED <<job, order, table, answer, loaded>>

InsertRow == \E r \in RowsOf[job] :
    /\ phase = "load" /\ Room
    /\ Input.kind = "stdin" => Len(seen) < Len(first) /\ r = first[Len(seen) + 1]
    /\ seen' = Append(seen, r)
    /\ UNCHANGED <<job, phase, order, table, answer, sqlVars>>

Commit ==
    /\ phase = "load"
    /\ Input.kind = "stdin" => Len(seen) = Len(first)
    /\ phase' = "table"
    /\ loaded' = Append(loaded, [type |-> InferAffinity, first |-> first, rows |-> seen])
    /\ UNCHANGED <<job, seen, order, table, answer, first, temp>>

\* The rows the statement gives: those WHERE takes, or all.
Where(rows) == SelectSeq(rows, LAMBDA r : r.key = "a")

Statement == IF job.cmd = "filter" THEN Where(loaded[1].rows) ELSE loaded[1].rows

\* As CSV or as Markdown, when there is a result set.
WriteQueryResult ==
    LET rejected == job.how \in {"bad", "none"} \/ job.format \notin {"csv", "markdown"} IN
    /\ phase = "table" /\ Len(loaded) = Len(job.tables)
    /\ Ends(IF rejected THEN "failed" ELSE "done")
    /\ answer' = IF rejected THEN answer ELSE Statement
    /\ UNCHANGED <<job, seen, order, table, first, loaded>>

SqlStep ==
    \/ OpenSqliteDb \/ OpenTable \/ InferRow \/ ResetReader \/ InsertRow \/ Commit
    \/ WriteQueryResult
-----------------------------------------------------------------------------
\* What a column of a type holds so that it reads back as the same value.
HoldsInSqlite(type, cell) == type = "NUMERIC" => cell.kind = "blank" \/ (IsNumber(cell) /\ cell.n # 3)

\* Every table is there, with all rows that came from the standard input, in a
\* type that holds them unless the file has changed between the two passes; no
\* output otherwise, and never a temporary file left.
StatementIsOverWholeTables ==
    /\ ~temp
    /\ phase = "done" =>
         /\ Len(loaded) = Len(job.tables)
         /\ \A k \in DOMAIN loaded : Readable(job.tables[k].input)
         /\ \A k \in DOMAIN loaded :
              /\ job.tables[k].input.kind = "stdin" => loaded[k].rows = loaded[k].first
              /\ loaded[k].rows = loaded[k].first =>
                   \A i \in DOMAIN loaded[k].rows : HoldsInSqlite(loaded[k].type, loaded[k].rows[i].ys[1])
         /\ \A i, j \in DOMAIN job.tables : i # j => job.tables[i].input.kind # "stdin" \/ job.tables[j].input.kind # "stdin"
         /\ ToSet(answer) = {r \in ToSet(loaded[1].rows) : job.cmd = "filter" => r.key = "a"}
    /\ phase = "failed" => answer = <<>>
=============================================================================
