----------------------------- MODULE WasmViewer -----------------------------
(***************************************************************************)
(* The embedded viewer: the shell over its worker, the host bridge with    *)
(* its two ways to run an open (the queue of files that came before the    *)
(* engine was ready, and the chain of those that came after), and the host *)
(* that sends files, asks for saves and writes the bytes it is given.      *)
(***************************************************************************)
EXTENDS ViewerShell, FiniteSets

ASSUME WasmViewerAssumption ==
    /\ IsFiniteSet(File) /\ NoFile \notin File
    /\ MaxEdits \in Nat /\ MaxReads \in Nat

VARIABLES
    initialized,    \* the engine is ready
    queue,          \* opens that wait: queuedOpenFiles, and the runningOpen chain
    running,        \* the open each of the two is waiting for, or NoFile
    unsent,         \* host: files it has not opened yet
    stored,         \* host: what each of its files holds
    refused,        \* host: files it could not write
    waits           \* host: does it open a file only when nothing else is under way?

bridgeVars == <<initialized, queue, running>>
hostVars == <<unsent, stored, refused, waits>>
vars == <<workerVars, shellVars, bridgeVars, hostVars>>

Opener == {"queued", "chained"}

Init ==
    /\ WorkerInit /\ ShellInit
    /\ initialized = FALSE
    /\ queue = [o \in Opener |-> <<>>] /\ running = [o \in Opener |-> NoFile]
    /\ unsent = File
    /\ stored = [f \in File |-> [file |-> f, edits |-> {}]] /\ refused = {}
    /\ waits \in BOOLEAN

AtRest ==
    /\ running = [o \in Opener |-> NoFile] /\ queue = [o \in Opener |-> <<>>]
    /\ saving \notin {"settling", "preparing"} /\ resetting = "no" /\ ~reading

----------------------------------------------------------------------------
(* The bridge and the host.                                                *)

\* An open-file message: run at once when the chain is free.
HostOpens(f) ==
    /\ f \in unsent /\ (waits => AtRest)
    /\ unsent' = unsent \ {f}
    /\ IF initialized /\ running["chained"] = NoFile
       THEN /\ running' = [running EXCEPT !["chained"] = f]
            /\ OpenBuffer(f)
            /\ UNCHANGED queue
       ELSE /\ queue' = [queue EXCEPT ![IF initialized THEN "chained" ELSE "queued"] = Append(@, f)]
            /\ UNCHANGED <<running, shellVars, requests, replies>>
    /\ UNCHANGED <<view, edits, saved, initialized, stored, refused, waits>>

MarkReady ==
    /\ ~initialized /\ initialized' = TRUE
    /\ UNCHANGED <<workerVars, shellVars, queue, running, hostVars>>

\* The next open of the flush loop, or of the chain.
NextOpen(o) ==
    /\ initialized /\ running[o] = NoFile /\ queue[o] # <<>>
    /\ running' = [running EXCEPT ![o] = Head(queue[o])]
    /\ queue' = [queue EXCEPT ![o] = Tail(@)]
    /\ OpenBuffer(Head(queue[o]))
    /\ UNCHANGED <<view, edits, saved, initialized, hostVars>>

\* openBuffer returns, loaded or not, and what awaited it goes on.
OpenEnds ==
    /\ Opened \/ OpenFailed
    /\ running' = [o \in Opener |-> IF running[o] = Head(replies).arg THEN NoFile ELSE running[o]]
    /\ UNCHANGED <<view, edits, saved, initialized, queue, hostVars>>

\* A save-request: it does not ask whether anything is dirty.
HostAsksSave ==
    /\ initialized /\ StartSave
    /\ UNCHANGED <<view, edits, saved, bridgeVars, hostVars>>

\* The host writes the bytes under the name that came with them ...
HostStores ==
    /\ saving = "persisting"
    /\ saving' = "stored" /\ stored' = [stored EXCEPT ![savedName] = savedBytes]
    /\ refused' = refused \ {savedName}
    /\ UNCHANGED <<waits, workerVars, openVars, savedName, savedBytes, dirty, loading, unchanged,
                   resetting, reading, made, reads, bridgeVars, unsent>>

\* ... or reports that it could not.
HostRefuses ==
    /\ saving = "persisting"
    /\ saving' = "refused" /\ refused' = refused \cup {savedName}
    /\ UNCHANGED <<waits, workerVars, openVars, savedName, savedBytes, dirty, loading, unchanged,
                   resetting, reading, made, reads, bridgeVars, unsent, stored>>

WorkerStep == WorkerNext /\ UNCHANGED <<shellVars, bridgeVars, hostVars>>

Apart == UNCHANGED <<view, edits, saved, bridgeVars, hostVars>>

Next ==
    \/ WorkerStep
    \/ ShellNext /\ Apart
    \/ OpenEnds \/ MarkReady \/ \E o \in Opener : NextOpen(o)
    \/ \E f \in File : HostOpens(f)
    \/ HostAsksSave \/ HostStores \/ HostRefuses

\* Messages arrive, promises are continued, the engine loads, the host answers a write.
\* Nothing makes the user or the host begin anything.
Spec ==
    /\ Init /\ [][Next]_vars
    /\ WF_vars(WorkerStep)
    /\ WF_vars(OpenEnds \/ (TakeReply /\ Apart))
    /\ WF_vars(AskReset /\ Apart) /\ WF_vars(Prepare /\ Apart)
    /\ WF_vars((SaveDone \/ SaveRefused) /\ Apart)
    /\ WF_vars(MarkReady) /\ \A o \in Opener : WF_vars(NextOpen(o))
    /\ WF_vars(HostStores \/ HostRefuses)

----------------------------------------------------------------------------
(* Properties.                                                             *)

InFlight(type) ==
    Cardinality({i \in DOMAIN requests : requests[i].type = type})
        + Cardinality({i \in DOMAIN replies : replies[i].type = type})

\* Types, and one request under way for each promise that is waited for: the worker
\* loses no request and answers none twice, and no two saves overlap.
ViewerTypeOK ==
    /\ view \in File \cup {NoFile} /\ activeName \in File \cup {NoFile}
    /\ edits \cup saved \subseteq File \X (1 .. MaxEdits)
    /\ {viewOpen, dirty, loading, unchanged, reading, initialized} \subseteq BOOLEAN
    /\ generation \in Nat /\ made \in 0 .. MaxEdits /\ reads \in 0 .. MaxReads
    /\ saving \in {"no", "settling", "preparing", "persisting", "stored", "refused"}
    /\ resetting \in {"no", "settling", "asked"}
    /\ InFlight("save") = IF saving = "preparing" THEN 1 ELSE 0
    /\ InFlight("reset") = IF resetting = "asked" THEN 1 ELSE 0
    /\ InFlight("readCsvOptions") = IF reading THEN 1 ELSE 0
    /\ InFlight("open") = Cardinality({o \in Opener : running[o] # NoFile})
    /\ savedName # NoFile <=> saving \in {"preparing", "persisting", "stored", "refused"}

\* However opens, dialect reads and pages overlap, the grid never shows rows of another
\* file than the one whose name and columns it shows.
RowsOfTheShownFile == viewOpen /\ page # NoFile => page = activeName

\* docs/shared-viewer-shell.md, "only clears the saved revision after persistence
\* succeeds": a view that is clean and at rest shows what the host has stored.  A write
\* the host has refused is left out: the worker's working file is ahead of it by then,
\* and a reset, which reads that file, calls the view clean.
CleanMeansStored ==
    viewOpen /\ ~dirty /\ ~Pending /\ saving = "no" /\ view = activeName
        /\ activeName \notin refused
        => stored[activeName] = [file |-> activeName, edits |-> edits]

ClearedByItsSave ==
    saving = "stored" /\ saving' = "no" /\ dirty /\ ~dirty'
        => ~Pending /\ stored[activeName] = [file |-> activeName, edits |-> edits]

\* save-state.mjs, "only clears the revision whose bytes were requested": when a save
\* makes the view clean, the stored bytes are all there is, and nothing is under way.
SaveClearsItsRevision == [][ClearedByItsSave]_vars

\* An edit lands in the file it was made on, and bytes are stored under the name of the
\* file they came from, although the shell reads both names before its awaits.  It takes
\* a host that opens no file during a save or another open: the shell has no guard.
EverythingInItsFile ==
    waits => /\ \A e \in edits : e[1] = view
             /\ \A f \in File : stored[f].file = f /\ \A e \in stored[f].edits : e[1] = f

\* No row, edit or byte of one file is taken for another's.
NothingOfAnotherFile == RowsOfTheShownFile /\ EverythingInItsFile

\* Every save, reset and open gives the page back to the user.
GivesThePageBack == Blocked ~> ~Blocked
=============================================================================
