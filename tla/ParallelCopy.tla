---------------------------- MODULE ParallelCopy ----------------------------
(***************************************************************************)
(* CopyRowsWithParallelWorkers: the exporter's thread reads, every worker  *)
(* loads batches in a transaction of its own connection, and no worker may *)
(* commit before all of them have sent their last row without an error.    *)
(***************************************************************************)
EXTENDS CopyQueue

VARIABLES ready_workers, commit_decided, commit_ok, rows_loaded

voteVars == <<ready_workers, commit_decided, commit_ok, rows_loaded>>
parallelVars == <<copyVars, voteVars>>

IdleVote ==
    ready_workers = 0 /\ commit_decided = FALSE /\ commit_ok = FALSE /\ rows_loaded = 0

ParallelInit ==
    /\ IdleCopy /\ IdleVote
    /\ pc = [t \in Thread |-> IF t \in Worker THEN "connect"
                              ELSE IF t = Exporter THEN "read" ELSE "ended"]

MaxDepth == Depth * Cardinality(Worker)

----------------------------------------------------------------------------
(* The exporter's thread.                                                  *)

\* set_error, which does not notify: the next step does.
ReaderFails ==
    /\ pc[Exporter] = "read"
    /\ error' = TRUE /\ cancel' = TRUE
    /\ Goto(Exporter, "finish")
    /\ UNCHANGED <<asleep, pushed, taken, done, loadVars, outcome>>

NoMoreBatches ==
    /\ pc[Exporter] = "finish"
    /\ done' = TRUE
    /\ NotifyAll /\ Goto(Exporter, "vote")
    /\ UNCHANGED <<pushed, taken, cancel, error, loadVars, outcome>>

AllVoted == error \/ ready_workers = Cardinality(Worker)

Decide ==
    /\ Awake(Exporter, "vote") /\ AllVoted
    /\ commit_ok' = ~error /\ commit_decided' = TRUE
    /\ Goto(Exporter, "decided")
    /\ UNCHANGED <<asleep, queueVars, loadVars, outcome, ready_workers, rows_loaded>>

WaitForVotes == Awake(Exporter, "vote") /\ ~AllVoted /\ Sleep(Exporter)

Announce ==
    /\ pc[Exporter] = "decided"
    /\ NotifyAll /\ Goto(Exporter, "join")
    /\ UNCHANGED <<queueVars, loadVars, outcome>>

\* Seeded fault: an error after the decision to commit is overlooked.
JoinByDecision ==
    /\ pc[Exporter] = "join" /\ \A w \in Worker : pc[w] = "ended"
    /\ outcome' = IF commit_ok THEN "ok" ELSE "failed"
    /\ Goto(Exporter, "ended")
    /\ UNCHANGED <<asleep, queueVars, loadVars>>

\* All workers joined: an error of any of them is raised again.
JoinWorkers ==
    /\ pc[Exporter] = "join" /\ \A w \in Worker : pc[w] = "ended"
    /\ outcome' = IF error THEN "failed" ELSE "ok"
    /\ Goto(Exporter, "ended")
    /\ UNCHANGED <<asleep, queueVars, loadVars>>

----------------------------------------------------------------------------
(* A worker.                                                               *)

WorkerTake(w) == Awake(w, "take") /\ ~cancel /\ Take(w)

\* Cancelled, or nothing is left: the stream is completed either way.
StopTaking(w) ==
    /\ Awake(w, "take") /\ (cancel \/ (Queued = 0 /\ done))
    /\ Goto(w, "flush")
    /\ UNCHANGED <<asleep, queueVars, loadVars, outcome>>

WaitForWork(w) ==
    Awake(w, "take") /\ ~cancel /\ Queued = 0 /\ ~done /\ Sleep(w)

\* Seeded fault: a worker that is ready does not wait for the others.
VoteWithoutWaiting(w) ==
    /\ pc[w] = "flushed"
    /\ rows_loaded' = rows_loaded + Cardinality(sent[w])
    /\ ready_workers' = ready_workers + 1
    /\ NotifyAll /\ Goto(w, "commit")
    /\ UNCHANGED <<queueVars, loadVars, outcome, commit_decided, commit_ok>>

Vote(w) ==
    /\ pc[w] = "flushed"
    /\ rows_loaded' = rows_loaded + Cardinality(sent[w])
    /\ ready_workers' = ready_workers + 1
    /\ NotifyAll /\ Goto(w, "wait")
    /\ UNCHANGED <<queueVars, loadVars, outcome, commit_decided, commit_ok>>

WaitForDecision(w) == Awake(w, "wait") /\ ~commit_decided /\ Sleep(w)

LearnDecision(w) ==
    /\ Awake(w, "wait") /\ commit_decided
    /\ Goto(w, IF commit_ok THEN "commit" ELSE "ended")
    /\ UNCHANGED <<asleep, queueVars, loadVars, outcome>>

WorkerCommit(w) ==
    /\ pc[w] = "commit"
    /\ committed' = committed \cup {w}
    /\ Goto(w, "ended")
    /\ UNCHANGED <<asleep, queueVars, held, sent, outcome>>

\* Connecting, a COPY or its completion throws.
ServerThrows(w) ==
    /\ pc[w] \in {"connect", "load", "flush"}
    /\ Goto(w, "failed")
    /\ UNCHANGED <<asleep, queueVars, loadVars, outcome>>

\* The commit throws, possibly after the server has done it.
WorkerCommitThrows(w) ==
    /\ pc[w] = "commit"
    /\ committed' \in {committed, committed \cup {w}}
    /\ Goto(w, "failed")
    /\ UNCHANGED <<asleep, queueVars, held, sent, outcome>>

\* set_error in the worker's catch, then the notification.
SetError(w) ==
    /\ pc[w] = "failed"
    /\ error' = TRUE /\ cancel' = TRUE
    /\ Goto(w, "signal")
    /\ UNCHANGED <<asleep, pushed, taken, done, loadVars, outcome>>

\* Seeded fault: the error is set, and nobody is told.
EndSilently(w) ==
    /\ pc[w] = "signal"
    /\ Goto(w, "ended")
    /\ UNCHANGED <<asleep, queueVars, loadVars, outcome>>

SignalError(w) ==
    /\ pc[w] = "signal"
    /\ NotifyAll /\ Goto(w, "ended")
    /\ UNCHANGED <<queueVars, loadVars, outcome>>

----------------------------------------------------------------------------
ReaderStep ==
    \/ /\ \/ ReadBatch(Exporter) \/ Push(Exporter, MaxDepth) \/ PushCancelled(Exporter)
          \/ WaitForRoom(Exporter, MaxDepth) \/ Pushed(Exporter)
          \/ ReaderFails \/ NoMoreBatches
          \/ WaitForVotes \/ Announce \/ JoinWorkers
       /\ UNCHANGED voteVars
    \/ Decide

WorkerStep(w) ==
    \/ /\ \/ Proceed(w, "connect", "take")
          \/ WorkerTake(w) \/ StopTaking(w) \/ WaitForWork(w) \/ Taken(w)
          \/ LoadBatch(w) \/ Proceed(w, "flush", "flushed")
          \/ WaitForDecision(w) \/ LearnDecision(w) \/ WorkerCommit(w)
          \/ ServerThrows(w) \/ WorkerCommitThrows(w) \/ SetError(w) \/ SignalError(w)
       /\ UNCHANGED voteVars
    \/ Vote(w)

ParallelNext == ReaderStep \/ \E w \in Worker : WorkerStep(w)

ParallelSpec == ParallelInit /\ [][ParallelNext]_parallelVars

----------------------------------------------------------------------------
(* Properties.                                                             *)

Label == {"idle", "connect", "read", "push", "pushed", "finish", "vote", "decided", "join",
          "take", "taken", "load", "flush", "flushed", "wait", "commit", "abort",
          "failed", "signal", "ended"}

\* Types; the deque never holds more than its bound.
CopyTypeOK ==
    /\ pc \in [Thread -> Label] /\ asleep \subseteq Thread
    /\ pushed \in 0 .. Batches /\ taken \in 0 .. pushed /\ Queued <= MaxDepth
    /\ done \in BOOLEAN /\ cancel \in BOOLEAN /\ error \in BOOLEAN
    /\ held \in [Loader -> 0 .. Batches] /\ sent \in [Loader -> SUBSET Batch]
    /\ committed \subseteq Loader /\ outcome \in {"none", "ok", "failed"}
    /\ ready_workers \in Nat /\ rows_loaded \in Nat
    /\ commit_decided \in BOOLEAN /\ commit_ok \in BOOLEAN

\* Whoever takes a batch from the deque, no batch gets lost or is loaded twice.
EachBatchInOnePlace ==
    /\ \A b \in 1 .. taken : \E l \in Loader : held[l] = b \/ b \in sent[l]
    /\ \A l, m \in Loader :
          /\ sent[l] \subseteq 1 .. taken /\ held[l] \in 0 .. taken
          /\ held[l] \notin sent[m]
          /\ l # m /\ held[l] = held[m] => held[l] = 0
          /\ l # m => sent[l] \cap sent[m] = {}

AllSent == UNION {sent[l] : l \in Loader} = Batch

\* One worker's commit means that every worker has sent all it took, that all
\* batches were taken, and that nobody had failed when the exporter decided: a
\* failure of reading, connecting or loading leaves no row of any worker behind.
CommitIsUnanimous ==
    committed \cap Worker # {} =>
        /\ AllSent
        /\ \A w \in Worker : held[w] = 0 /\ pc[w] \in {"wait", "commit", "failed", "signal", "ended"}

\* A copy that returns normally has committed every batch and counted it once;
\* one that raises an error has committed none unless a commit itself failed.
OutcomeIsTrue ==
    /\ outcome = "ok" => AllSent /\ \A l \in Loader : sent[l] # {} => l \in committed
    /\ outcome = "ok" /\ committed \cap Worker # {} => rows_loaded = Batches
    /\ outcome = "failed" => committed = {} \/ AllSent
=============================================================================
