----------------------------- MODULE CopyQueue -----------------------------
(***************************************************************************)
(* The bounded queue between the thread that reads batches of CSV rows and *)
(* the threads that COPY them into PostgreSQL: a deque under one mutex and *)
(* one condition variable, shared by CopyRowsWithPipeline and              *)
(* CopyRowsWithParallelWorkers.                                            *)
(*                                                                         *)
(* A step is what a thread does between two points where it gives up the   *)
(* mutex.  A thread whose wait predicate is false goes to sleep, and only  *)
(* notify_all wakes it, so a missing notification shows as a deadlock.     *)
(* (A spurious wakeup evaluates the predicate again and changes nothing.)  *)
(***************************************************************************)
EXTENDS Naturals, FiniteSets

CONSTANTS Worker,    \* the threads of a parallel COPY
          Batches,   \* how many batches the file is read in
          Depth      \* kPostgresCopyQueueDepth

ASSUME CopyQueueAssumption ==
    /\ IsFiniteSet(Worker) /\ Worker # {}
    /\ Worker \cap {"exporter", "producer"} = {}
    /\ Batches \in Nat /\ Depth \in Nat \ {0}

Exporter == "exporter"      \* the thread that runs the command
Producer == "producer"      \* the reading thread of the pipeline

Loader == Worker \cup {Exporter}
Thread == Loader \cup {Producer}
Batch  == 1 .. Batches

VARIABLES
    pc,          \* where each thread is
    asleep,      \* the threads waiting on the condition variable
    pushed,      \* batches ever put in the deque ...
    taken,       \* ... and taken from it: it holds taken+1 .. pushed, in order
    done, cancel, error,
    held,        \* the batch a loader has taken and not yet sent, or 0
    sent,        \* the batches each loader's transaction holds
    committed,   \* the loaders whose transaction the server has committed
    outcome      \* "none", "ok" or "failed": how the copy returned

queueVars == <<pushed, taken, done, cancel, error>>
loadVars  == <<held, sent, committed>>
copyVars  == <<pc, asleep, queueVars, loadVars, outcome>>

\* Queue and threads before a copy; `first` says where each thread starts.
IdleCopy ==
    /\ asleep = {} /\ pushed = 0 /\ taken = 0
    /\ done = FALSE /\ cancel = FALSE /\ error = FALSE
    /\ held = [l \in Loader |-> 0] /\ sent = [l \in Loader |-> {}]
    /\ committed = {} /\ outcome = "none"

Awake(t, label) == pc[t] = label /\ t \notin asleep

Goto(t, label) == pc' = [pc EXCEPT ![t] = label]

Sleep(t) == asleep' = asleep \cup {t} /\ UNCHANGED <<pc, queueVars, loadVars, outcome>>

NotifyAll == asleep' = {}

Queued == pushed - taken

----------------------------------------------------------------------------
(* The reading side: read_chunk, wait for room, push, notify.              *)

ReadBatch(t) ==
    /\ pc[t] = "read"
    /\ Goto(t, IF pushed < Batches THEN "push" ELSE "finish")
    /\ UNCHANGED <<asleep, queueVars, loadVars, outcome>>

\* Seeded fault: the queue takes one batch more than its depth.
PushPastDepth(t, depth) ==
    /\ Awake(t, "push")
    /\ ~cancel /\ Queued <= depth
    /\ pushed' = pushed + 1
    /\ Goto(t, "pushed")
    /\ UNCHANGED <<asleep, taken, done, cancel, error, loadVars, outcome>>

Push(t, depth) ==
    /\ Awake(t, "push")
    /\ ~cancel /\ Queued < depth
    /\ pushed' = pushed + 1
    /\ Goto(t, "pushed")
    /\ UNCHANGED <<asleep, taken, done, cancel, error, loadVars, outcome>>

PushCancelled(t) ==
    /\ Awake(t, "push") /\ cancel
    /\ Goto(t, "finish")
    /\ UNCHANGED <<asleep, queueVars, loadVars, outcome>>

WaitForRoom(t, depth) == Awake(t, "push") /\ ~cancel /\ Queued >= depth /\ Sleep(t)

\* The mutex is released before the notification.
Pushed(t) ==
    /\ pc[t] = "pushed"
    /\ NotifyAll /\ Goto(t, "read")
    /\ UNCHANGED <<queueVars, loadVars, outcome>>

----------------------------------------------------------------------------
(* The loading side.                                                       *)

\* Seeded fault: front() without pop_front().
TakeWithoutPop(l) ==
    /\ Queued > 0
    /\ held' = [held EXCEPT ![l] = taken + 1]
    /\ Goto(l, "taken")
    /\ UNCHANGED <<asleep, queueVars, sent, committed, outcome>>

Take(l) ==
    /\ Queued > 0
    /\ taken' = taken + 1
    /\ held' = [held EXCEPT ![l] = taken + 1]
    /\ Goto(l, "taken")
    /\ UNCHANGED <<asleep, pushed, done, cancel, error, sent, committed, outcome>>

Taken(l) ==
    /\ pc[l] = "taken"
    /\ NotifyAll /\ Goto(l, "load")
    /\ UNCHANGED <<queueVars, loadVars, outcome>>

\* RowLoader::add_rows of the whole batch.
LoadBatch(l) ==
    /\ pc[l] = "load"
    /\ sent' = [sent EXCEPT ![l] = @ \cup {held[l]}]
    /\ held' = [held EXCEPT ![l] = 0]
    /\ Goto(l, "take")
    /\ UNCHANGED <<asleep, queueVars, committed, outcome>>

\* A loader moves on (its server call succeeded), or its call throws.
Proceed(l, from, to) ==
    /\ pc[l] = from
    /\ Goto(l, to)
    /\ UNCHANGED <<asleep, queueVars, loadVars, outcome>>
=============================================================================
