------------------------------ MODULE PgExport ------------------------------
(***************************************************************************)
(* ExportCsvToPostgres: what becomes of the table while the exporter looks *)
(* for it, infers a schema, creates or drops it, copies the rows with one  *)
(* of the two strategies and cleans up, and another client of the same     *)
(* database creates a table of that name.                                  *)
(***************************************************************************)
EXTENDS ParallelCopy, PipelineCopy

CONSTANT OtherClients    \* do other clients create the table meanwhile?

ASSUME OtherClientsAssumption == OtherClients \in BOOLEAN

VARIABLES
    mode,        \* --if-exists: "error", "drop" or "append"
    parallel,    \* options.parallel_copy_workers > 1
    step,        \* where ExportCsvToPostgres is
    plan,        \* what the first look at the database led to: "create", "replace"
                 \* (drop_existing_table) or "append"
    table,       \* committed: "none", "theirs", or "ours", created by this export
    result,      \* what it returns: "none" yet, "ok" or "failed"
    dirty        \* history: the clean-up's own transaction failed

exportVars == <<mode, parallel, step, plan, table, result, dirty>>
vars == <<parallelVars, exportVars>>

Init ==
    /\ mode \in {"error", "drop", "append"} /\ parallel \in BOOLEAN
    /\ table \in {"none", "theirs"}
    /\ step = "connect" /\ plan = "create" /\ result = "none" /\ dirty = FALSE
    /\ IdleVote
    /\ IF parallel THEN ParallelInit ELSE PipelineInit

Go(next) == step' = next /\ UNCHANGED <<parallelVars, mode, parallel, result, dirty>>

Return(value) ==
    /\ step' = "returned" /\ result' = value
    /\ UNCHANGED <<parallelVars, mode, parallel, plan>>

\* A call of the server or of the reader throws: reported, nothing undone.
Throws ==
    /\ step \in {"connect", "check", "infer"}
    /\ Return("failed")
    /\ UNCHANGED <<table, dirty>>

----------------------------------------------------------------------------
(* Before the copy.                                                        *)

Connect == step = "connect" /\ Go("check") /\ UNCHANGED <<plan, table>>

CheckTable ==
    /\ step = "check"
    /\ UNCHANGED table
    /\ \/ table = "none" /\ Go("infer") /\ UNCHANGED plan
       \/ table # "none" /\ mode = "drop" /\ Go("infer") /\ plan' = "replace"
       \/ table # "none" /\ mode = "append" /\ Go("copy") /\ plan' = "append"
       \/ table # "none" /\ mode = "error" /\ Return("failed") /\ UNCHANGED dirty

\* InferSchema over the whole input, and reset_reader for the second pass.
Infer == step = "infer" /\ Go("create") /\ UNCHANGED <<plan, table>>

\* With workers the table is dropped and created in a transaction of its own;
\* without, in the transaction that will hold the rows.
CreateTable ==
    /\ step = "create" /\ (table = "none" \/ plan = "replace")
    /\ Go("copy")
    /\ table' = IF parallel THEN "ours" ELSE table
    /\ UNCHANGED plan

\* The statements fail, of necessity when the table exists by now; a commit that
\* throws may have been done by the server.
CreateFails ==
    /\ step = "create"
    /\ IF parallel
       THEN /\ Go("cleanup") /\ UNCHANGED plan
            /\ table' \in {table} \cup {t \in {"ours"} : table = "none" \/ plan = "replace"}
       ELSE Return("failed") /\ UNCHANGED <<table, dirty>>

----------------------------------------------------------------------------
(* The copy and what follows it.                                           *)

Copying(threadStep) ==
    /\ step = "copy"
    /\ threadStep
    /\ table' = IF plan # "append" /\ Exporter \in committed' THEN "ours" ELSE table
    /\ UNCHANGED <<mode, parallel, step, plan, result, dirty>>

CopyReturns ==
    /\ step = "copy" /\ outcome # "none"
    /\ IF outcome = "failed" /\ parallel /\ plan # "append"
       THEN Go("cleanup") /\ UNCHANGED <<plan, table>>
       ELSE Return(outcome) /\ UNCHANGED <<table, dirty>>

\* Seeded fault: a failed parallel copy is reported without a clean-up.
NoCleanup ==
    /\ step = "cleanup"
    /\ Return("failed")
    /\ UNCHANGED <<table, dirty>>

\* DROP TABLE IF EXISTS, whose own failure is swallowed.
Cleanup ==
    /\ step = "cleanup"
    /\ Return("failed")
    /\ \/ table' = "none" /\ UNCHANGED dirty
       \/ dirty' = TRUE /\ UNCHANGED table

\* Another client's CREATE TABLE; it would wait for an open transaction that has
\* created the table.
OtherClientCreates ==
    /\ OtherClients /\ table = "none" /\ (step = "copy" => parallel)
    /\ table' = "theirs"
    /\ UNCHANGED <<parallelVars, mode, parallel, step, plan, result, dirty>>

----------------------------------------------------------------------------
ExporterThread ==
    \/ Connect \/ CheckTable \/ Infer \/ CreateTable \/ CreateFails \/ Throws
    \/ parallel /\ Copying(ReaderStep)
    \/ ~parallel /\ Copying(LoaderStep /\ UNCHANGED voteVars)
    \/ CopyReturns \/ Cleanup

ProducerThread == ~parallel /\ Copying(ProducerStep /\ UNCHANGED voteVars)

WorkerThread(w) == parallel /\ Copying(WorkerStep(w))

Returned == step = "returned" /\ UNCHANGED vars

Next ==
    \/ ExporterThread \/ ProducerThread \/ \E w \in Worker : WorkerThread(w)
    \/ OtherClientCreates \/ Returned

\* Every thread that can run runs on: it holds the mutex for a few statements, and
\* reads and server calls return or throw.
Fairness ==
    /\ WF_vars(ExporterThread) /\ WF_vars(ProducerThread)
    /\ \A w \in Worker : WF_vars(WorkerThread(w))

Spec == Init /\ [][Next]_vars /\ Fairness

----------------------------------------------------------------------------
(* Properties.                                                             *)

\* Types of the exporter's state, on top of those of the copy.
ExportTypeOK ==
    /\ CopyTypeOK
    /\ mode \in {"error", "drop", "append"} /\ plan \in {"create", "replace", "append"}
    /\ step \in {"connect", "check", "infer", "create", "copy", "cleanup", "returned"}
    /\ parallel \in BOOLEAN /\ dirty \in BOOLEAN
    /\ table \in {"none", "theirs", "ours"} /\ result \in {"none", "ok", "failed"}

\* The rows of this export that others can see.
Visible == IF table = "none" THEN {} ELSE UNION {sent[l] : l \in committed}

\* An export that returns success has put every row in the table; one that fails
\* leaves no partially filled table it created behind, unless the clean-up fails too,
\* and never takes away the table that rows were appended to.
NoPartialTable ==
    step = "returned" =>
        /\ plan = "append" => table # "none"
        /\ result = "ok" => table # "none" /\ Visible = Batch
        /\ result = "failed" /\ table = "ours" /\ ~dirty => Visible = Batch

\* However the threads' waits and notifications interleave, the export returns.
ExportReturns == <>(step = "returned")

=============================================================================
