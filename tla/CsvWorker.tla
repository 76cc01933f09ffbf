----------------------------- MODULE CsvWorker -----------------------------
(***************************************************************************)
(* csv-worker.js and the two ends of its channel: requests are handled one *)
(* at a time in the order they were posted, and answered in that order.    *)
(* The worker keeps one open view and the working file it was read from.   *)
(***************************************************************************)
EXTENDS Naturals, Sequences

CONSTANTS File,     \* the files of the host
          NoFile    \* no view is open

VARIABLES
    requests, replies,   \* messages on their way to and from the worker
    view,                \* the file the view was opened for, or NoFile
    edits,               \* the edits the view shows
    saved                \* the edits the working file holds

workerVars == <<requests, replies, view, edits, saved>>

WorkerInit ==
    requests = <<>> /\ replies = <<>> /\ view = NoFile /\ edits = {} /\ saved = {}

\* arg: the file to open, the edit to make, or the view generation that asks.
Post(type, arg) == requests' = Append(requests, [type |-> type, arg |-> arg])

Handle(type) ==
    requests # <<>> /\ Head(requests).type = type /\ requests' = Tail(requests)

\* Every reply finds its request by id; save's carries the bytes of the working file.
Answer(ok) ==
    replies' = Append(replies, [type |-> Head(requests).type, ok |-> ok, arg |-> Head(requests).arg,
                                file |-> view', edits |-> edits'])

\* The old view goes first: when the new bytes cannot be read there is none.
Open ==
    /\ Handle("open")
    /\ edits' = {} /\ saved' = {}
    /\ \/ view' = Head(requests).arg /\ Answer(TRUE)
       \/ view' = NoFile /\ Answer(FALSE)

ReadRows ==
    /\ Handle("readRows") /\ UNCHANGED <<view, edits, saved>>
    /\ \/ view # NoFile /\ Answer(TRUE)
       \/ Answer(FALSE)

\* editCell, the row and column mutations and csvOptions: done, or refused.
Mutate ==
    /\ Handle("mutate") /\ UNCHANGED <<view, saved>>
    /\ \/ view # NoFile /\ edits' = edits \cup {Head(requests).arg} /\ Answer(TRUE)
       \/ UNCHANGED edits /\ Answer(FALSE)

\* Reads the working file again, which an earlier save may have rewritten.
Reset ==
    /\ Handle("reset") /\ UNCHANGED <<view, saved>>
    /\ edits' = saved
    /\ Answer(view # NoFile)

ReadCsvOptions ==
    /\ Handle("readCsvOptions") /\ UNCHANGED <<view, edits, saved>>
    /\ \/ view # NoFile /\ edits = saved /\ Answer(TRUE)
       \/ Answer(FALSE)

\* A failed save keeps the working file as it was.
Save ==
    /\ Handle("save") /\ UNCHANGED <<view, edits>>
    /\ \/ view # NoFile /\ saved' = edits /\ Answer(TRUE)
       \/ UNCHANGED saved /\ Answer(FALSE)

WorkerNext == Open \/ ReadRows \/ Mutate \/ Reset \/ ReadCsvOptions \/ Save
=============================================================================
