---------------------------- MODULE PipelineCopy ----------------------------
(***************************************************************************)
(* CopyRowsWithPipeline and the flush and commit its callers add: one      *)
(* reading thread, and the exporter's own thread loading the batches in    *)
(* the exporter's own transaction.                                         *)
(***************************************************************************)
EXTENDS CopyQueue

PipelineInit ==
    /\ IdleCopy
    /\ pc = [t \in Thread |-> IF t = Producer THEN "read"
                              ELSE IF t = Exporter THEN "take" ELSE "ended"]

\* The reader throws: the batches read so far are still loaded before the error
\* is raised again.
ReadThrows ==
    /\ pc[Producer] = "read"
    /\ error' = TRUE
    /\ Goto(Producer, "finish")
    /\ UNCHANGED <<asleep, pushed, taken, done, cancel, loadVars, outcome>>

Finish ==
    /\ pc[Producer] = "finish"
    /\ done' = TRUE
    /\ Goto(Producer, "signal")
    /\ UNCHANGED <<asleep, pushed, taken, cancel, error, loadVars, outcome>>

Signal(t, next) ==
    /\ pc[t] = "signal"
    /\ NotifyAll /\ Goto(t, next)
    /\ UNCHANGED <<queueVars, loadVars, outcome>>

PipelineTake == Awake(Exporter, "take") /\ Take(Exporter)

\* Empty and done: every batch has been loaded.
Drained ==
    /\ Awake(Exporter, "take")
    /\ Queued = 0 /\ done
    /\ Goto(Exporter, "join")
    /\ UNCHANGED <<asleep, queueVars, loadVars, outcome>>

WaitForBatch == Awake(Exporter, "take") /\ Queued = 0 /\ ~done /\ Sleep(Exporter)

\* add_rows throws: the reader is told to stop and waited for.
LoadThrows ==
    /\ pc[Exporter] = "load"
    /\ cancel' = TRUE
    /\ Goto(Exporter, "signal")
    /\ UNCHANGED <<asleep, pushed, taken, done, error, loadVars, outcome>>

Returns(result) ==
    /\ outcome' = result
    /\ Goto(Exporter, "ended")
    /\ UNCHANGED <<asleep, queueVars, held, sent>>

\* The reading thread joined, its error is raised again, or the rows are flushed.
Join ==
    /\ pc[Exporter] \in {"join", "abort"} /\ pc[Producer] = "ended"
    /\ IF error \/ pc[Exporter] = "abort"
       THEN Returns("failed") /\ UNCHANGED committed
       ELSE Proceed(Exporter, "join", "flush")

FlushThrows == pc[Exporter] = "flush" /\ Returns("failed") /\ UNCHANGED committed

Commit ==
    /\ pc[Exporter] = "commit"
    /\ committed' = committed \cup {Exporter}
    /\ Returns("ok")

\* The commit throws, possibly after the server has done it.
CommitThrows ==
    /\ pc[Exporter] = "commit"
    /\ committed' \in {committed, committed \cup {Exporter}}
    /\ Returns("failed")

----------------------------------------------------------------------------
ProducerStep ==
    \/ ReadBatch(Producer) \/ Push(Producer, Depth) \/ PushCancelled(Producer)
    \/ WaitForRoom(Producer, Depth) \/ Pushed(Producer)
    \/ ReadThrows \/ Finish \/ Signal(Producer, "ended")

LoaderStep ==
    \/ PipelineTake \/ Drained \/ WaitForBatch \/ Taken(Exporter)
    \/ LoadBatch(Exporter) \/ LoadThrows \/ Signal(Exporter, "abort")
    \/ Join \/ Proceed(Exporter, "flush", "commit") \/ FlushThrows
    \/ Commit \/ CommitThrows
=============================================================================
