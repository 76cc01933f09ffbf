---------------------------- MODULE ViewerShell ----------------------------
(***************************************************************************)
(* The shell of the viewer (shell.mjs, save.mjs, save-state.mjs) over the  *)
(* worker: opening, editing, paging, resetting and saving, each split at   *)
(* its awaits.  The save revision is a counter that is only compared with  *)
(* the value a save has captured; here `unchanged` is that comparison.     *)
(***************************************************************************)
EXTENDS CsvWorker

CONSTANTS MaxEdits,   \* bound: edits made in one behaviour
          MaxReads    \* bound: uses of "Read with this dialect"

VARIABLES
    viewOpen, activeName,   \* is a schema loaded, and for which file
    dirty,                  \* what the shell shows, tells the host and asks before leaving
    generation,             \* viewGeneration
    page,                   \* the file the rows in the grid came from, or NoFile
    loading,                \* the modal loading dialog
    saving,                 \* where saveCurrentChanges is
    savedName, savedBytes,  \* name and savedResult
    unchanged,              \* savedRevision = revision
    resetting,              \* where resetCurrentChanges is
    reading,                \* readingCsv
    made, reads             \* edits made and dialect reads so far

saveVars == <<saving, savedName, savedBytes>>
openVars == <<viewOpen, activeName, generation, page>>
shellVars == <<openVars, saveVars, dirty, loading, unchanged, resetting, reading, made, reads>>

NoBytes == [file |-> NoFile, edits |-> {}]

ShellInit ==
    /\ viewOpen = FALSE /\ activeName = NoFile /\ generation = 0 /\ page = NoFile
    /\ dirty = FALSE /\ loading = FALSE /\ unchanged = FALSE
    /\ saving = "no" /\ savedName = NoFile /\ savedBytes = NoBytes
    /\ resetting = "no" /\ reading = FALSE /\ made = 0 /\ reads = 0

\* document.body.inert during a save, or a modal dialog.
Blocked == saving # "no" \/ loading

MutationTypes == {"mutate", "reset"}

\* What csvMutations.settle waits for: a mutation whose answer was not taken yet.
Pending ==
    \/ \E i \in DOMAIN requests : requests[i].type \in MutationTypes
    \/ \E i \in DOMAIN replies : replies[i].type \in MutationTypes

\* request() of a mutation: dirty, and a new revision, before it is even posted.
Dispatch(type, arg) ==
    dirty' = TRUE /\ unchanged' = FALSE /\ Post(type, arg)

\* An edit of the shown file.
DispatchEdit ==
    /\ viewOpen /\ made < MaxEdits
    /\ made' = made + 1
    /\ Dispatch("mutate", <<activeName, made'>>)

\* gridApi.stopEditing(): a value still in the cell editor is sent now.
StopEditing ==
    \/ DispatchEdit
    \/ UNCHANGED <<made, dirty, unchanged, requests>>

Receive(type, ok) ==
    /\ replies # <<>> /\ Head(replies).type = type /\ Head(replies).ok = ok
    /\ replies' = Tail(replies)

----------------------------------------------------------------------------
(* Editing and paging.                                                     *)

Edit ==
    /\ ~Blocked /\ DispatchEdit
    /\ UNCHANGED <<openVars, saveVars, loading, resetting, reading, reads, replies>>

\* Seeded fault: only the dispatch marks the data dirty.
EditedQuietly ==
    /\ Receive("mutate", TRUE)
    /\ unchanged' = FALSE
    /\ UNCHANGED <<openVars, saveVars, dirty, loading, resetting, reading, made, reads, requests>>

\* markDataDirty: dirty once more, and another revision.
Edited ==
    /\ Receive("mutate", TRUE)
    /\ dirty' = TRUE /\ unchanged' = FALSE
    /\ UNCHANGED <<openVars, saveVars, loading, resetting, reading, made, reads, requests>>

\* The shell stays dirty.  A settle() that waits for a structural edit fails with it.
EditRefused ==
    /\ Receive("mutate", FALSE)
    /\ \/ UNCHANGED <<saving, resetting>>
       \/ saving = "settling" /\ saving' = "no"
          /\ resetting' = IF resetting = "settling" THEN "no" ELSE resetting
       \/ resetting = "settling" /\ resetting' = "no" /\ UNCHANGED saving
    /\ UNCHANGED <<openVars, savedName, savedBytes, dirty, loading, unchanged, reading, made,
                   reads, requests>>

\* The grid wants rows from the current data source, whatever is going on.
AskRows ==
    /\ generation > 0
    /\ \A i \in DOMAIN requests : requests[i].type # "readRows"
    /\ \A i \in DOMAIN replies : replies[i].type # "readRows"
    /\ Post("readRows", generation)
    /\ UNCHANGED <<shellVars, replies>>

TakeRows ==
    \E ok \in BOOLEAN :
       /\ Receive("readRows", ok)
       /\ page' = IF ok /\ Head(replies).arg = generation THEN Head(replies).file ELSE page
       /\ UNCHANGED <<viewOpen, activeName, generation, saveVars, dirty, loading, unchanged,
                      resetting, reading, made, reads, requests>>

----------------------------------------------------------------------------
(* Opening.                                                                *)

\* Seeded fault: the old view stays open until the new one has loaded.
OpenBufferBehindView(file) ==
    /\ unchanged' = FALSE /\ dirty' = FALSE /\ loading' = TRUE
    /\ Post("open", file)
    /\ UNCHANGED <<openVars, saveVars, resetting, reading, made, reads, replies>>

OpenBuffer(file) ==
    /\ unchanged' = FALSE /\ viewOpen' = FALSE /\ dirty' = FALSE /\ loading' = TRUE
    /\ Post("open", file)
    /\ UNCHANGED <<activeName, generation, page, saveVars, resetting, reading, made, reads, replies>>

LoadView(name) ==
    /\ viewOpen' = TRUE /\ activeName' = name /\ generation' = generation + 1
    /\ page' = NoFile /\ dirty' = FALSE

Opened ==
    /\ Receive("open", TRUE)
    /\ LoadView(Head(replies).file)
    /\ loading' = FALSE
    /\ UNCHANGED <<saveVars, unchanged, resetting, reading, made, reads, requests>>

OpenFailed ==
    /\ Receive("open", FALSE)
    /\ loading' = FALSE
    /\ UNCHANGED <<openVars, saveVars, dirty, unchanged, resetting, reading, made, reads, requests>>

\* The options dialog: edits have settled when it opens, and it is modal, but Escape
\* closes it while the read is under way.
AskDialect ==
    /\ ~Blocked /\ viewOpen /\ ~dirty /\ ~reading /\ ~Pending /\ reads < MaxReads
    /\ reading' = TRUE /\ reads' = reads + 1
    /\ Post("readCsvOptions", generation)
    /\ UNCHANGED <<openVars, saveVars, dirty, loading, unchanged, resetting, made, replies>>

TakeDialect ==
    \E ok \in BOOLEAN :
       /\ Receive("readCsvOptions", ok)
       /\ reading' = FALSE
       /\ IF ok /\ Head(replies).arg = generation
          THEN LoadView(activeName) ELSE UNCHANGED <<openVars, dirty>>
       /\ UNCHANGED <<saveVars, loading, unchanged, resetting, made, reads, requests>>

----------------------------------------------------------------------------
(* Resetting.                                                              *)

StartReset ==
    /\ ~Blocked /\ viewOpen /\ dirty /\ resetting = "no"
    /\ StopEditing
    /\ resetting' = "settling"
    /\ UNCHANGED <<openVars, saveVars, loading, reading, reads, replies>>

\* request() refuses when an open has closed the view meanwhile.
AskReset ==
    /\ resetting = "settling" /\ ~Pending
    /\ IF viewOpen
       THEN resetting' = "asked" /\ loading' = TRUE /\ Dispatch("reset", 0)
       ELSE resetting' = "no" /\ loading' = FALSE /\ UNCHANGED <<dirty, unchanged, requests>>
    /\ UNCHANGED <<openVars, saveVars, reading, made, reads, replies>>

ResetDone ==
    \E ok \in BOOLEAN :
       /\ Receive("reset", ok)
       /\ IF ok THEN dirty' = FALSE /\ unchanged' = FALSE ELSE UNCHANGED <<dirty, unchanged>>
       /\ resetting' = "no" /\ loading' = FALSE
       /\ IF ok \/ saving # "settling" THEN UNCHANGED saving
          ELSE saving' \in {"settling", "no"}
       /\ UNCHANGED <<openVars, savedName, savedBytes, reading, made, reads, requests>>

----------------------------------------------------------------------------
(* Saving.                                                                 *)

\* Seeded fault: no look at `saving`.
StartSaveTwice ==
    /\ viewOpen /\ ~reading
    /\ StopEditing
    /\ saving' = "settling"
    /\ UNCHANGED <<openVars, savedName, savedBytes, loading, resetting, reading, reads, replies>>

StartSave ==
    /\ saving = "no" /\ viewOpen /\ ~reading
    /\ StopEditing
    /\ saving' = "settling"
    /\ UNCHANGED <<openVars, savedName, savedBytes, loading, resetting, reading, reads, replies>>

SaveButton == ~Blocked /\ dirty /\ StartSave

\* The name, the revision and the request for the bytes belong together.
Prepare ==
    /\ saving = "settling" /\ ~Pending
    /\ saving' = "preparing" /\ savedName' = activeName
    /\ unchanged' = TRUE /\ loading' = TRUE
    /\ Post("save", 0)
    /\ UNCHANGED <<openVars, savedBytes, dirty, resetting, reading, made, reads, replies>>

\* backend.persist posts the bytes to the host ...
Prepared ==
    /\ Receive("save", TRUE)
    /\ saving' = "persisting"
    /\ savedBytes' = [file |-> Head(replies).file, edits |-> Head(replies).edits]
    /\ UNCHANGED <<openVars, savedName, dirty, loading, unchanged, resetting, reading, made, reads,
                   requests>>

\* The `finally` block.
EndSave == saving' = "no" /\ loading' = FALSE /\ savedName' = NoFile /\ savedBytes' = NoBytes

\* Seeded fault: the `finally` block is missing on this path.
PrepareFailedSilently ==
    /\ Receive("save", FALSE) /\ savedName' = NoFile
    /\ UNCHANGED <<openVars, saving, savedBytes, loading, dirty, unchanged, resetting, reading,
                   made, reads, requests>>

PrepareFailed ==
    /\ Receive("save", FALSE) /\ EndSave
    /\ UNCHANGED <<openVars, dirty, unchanged, resetting, reading, made, reads, requests>>

\* Seeded fault: a save clears whatever is dirty when it ends.
SaveClearsAll ==
    /\ saving = "stored" /\ EndSave
    /\ dirty' = FALSE
    /\ UNCHANGED <<openVars, unchanged, resetting, reading, made, reads, requests, replies>>

\* ... and only a stored save clears, and only the revision it has captured.
SaveDone ==
    /\ saving = "stored" /\ EndSave
    /\ dirty' = (dirty /\ ~unchanged)
    /\ UNCHANGED <<openVars, unchanged, resetting, reading, made, reads, requests, replies>>

SaveRefused ==
    /\ saving = "refused" /\ EndSave
    /\ UNCHANGED <<openVars, dirty, unchanged, resetting, reading, made, reads, requests, replies>>

----------------------------------------------------------------------------

\* The end of an open is a step of the bridge too, which waits for it.
TakeReply ==
    Edited \/ EditRefused \/ TakeRows \/ TakeDialect \/ ResetDone \/ Prepared \/ PrepareFailed

UserAction == Edit \/ AskRows \/ AskDialect \/ StartReset \/ SaveButton

ShellNext == UserAction \/ TakeReply \/ AskReset \/ Prepare \/ SaveDone \/ SaveRefused
=============================================================================
