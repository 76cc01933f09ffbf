---------------------------- MODULE StoreUpdate ----------------------------
(***************************************************************************)
(* RunAppend and RunMerge with --in-place, as processes on a POSIX file    *)
(* system: names refer to inodes, the temporary sibling has one fixed name *)
(* per store, and a process may be killed between any two steps.           *)
(***************************************************************************)
EXTENDS StoreRows, FiniteSetsExt

CONSTANTS Run,          \* the runs of the program
          Incoming,     \* the possible incoming files: sequences of <<key, version>>
          NoFile,       \* a name that refers to nothing
          Hole,         \* what a record that was skipped over reads as
          Overlapping,  \* may two runs be under way at a time?
          CrashInMove   \* can a run be killed between link() and remove()?

Row == UNION {Range(rows) : rows \in Incoming}

ASSUME StoreUpdateAssumption ==
    /\ Overlapping \in BOOLEAN /\ CrashInMove \in BOOLEAN
    /\ Incoming \subseteq Seq(Row) /\ Hole \notin Row
    /\ NoFile \notin Nat /\ NoFile \notin Seq(Row)

VARIABLES
    content,        \* the records of each inode
    store, temp,    \* the inode each of the two names refers to, or NoFile
    pc, kind,       \* of each run: where it is; "append", "merge" or "create"
    incoming,       \* ... its incoming file
    present, keys,  \* ... existing_present and existing_keys
    out, handle,    \* ... the records it has to write, the inode its stream writes to
    offset,         \* ... and how many it has written
    result          \* ... "none", "ok" or "failed"

disk == <<content, store, temp>>
local == <<kind, incoming, present, keys, out, handle, offset>>
vars == <<disk, pc, local, result>>

Goto(r, label) == pc' = [pc EXCEPT ![r] = label]

Init ==
    /\ \/ store = NoFile /\ content = <<>>
       \/ store = 1 /\ \E rows \in Incoming \cup {<<>>} : content = <<rows>>
    /\ temp = NoFile
    /\ pc = [r \in Run |-> "idle"] /\ kind = [r \in Run |-> "append"]
    /\ incoming = [r \in Run |-> <<>>]
    /\ present = [r \in Run |-> FALSE] /\ keys = [r \in Run |-> {}]
    /\ out = [r \in Run |-> <<>>] /\ handle = [r \in Run |-> NoFile]
    /\ offset = [r \in Run |-> 0] /\ result = [r \in Run |-> "none"]

Active(r) == pc[r] \notin {"idle", "done", "killed"}

----------------------------------------------------------------------------
(* One run, in the order of the code.                                      *)

Start(r, k, file) ==
    /\ pc[r] = "idle"
    /\ Overlapping \/ \A s \in Run : ~Active(s)
    /\ kind' = [kind EXCEPT ![r] = k]
    /\ incoming' = [incoming EXCEPT ![r] = file]
    /\ Goto(r, "look")
    /\ UNCHANGED <<disk, present, keys, out, handle, offset, result>>

\* Seeded fault: an exception leaves the temporary file behind.
FailsWithoutCleanup(r) ==
    /\ result' = [result EXCEPT ![r] = "failed"]
    /\ Goto(r, "done")
    /\ UNCHANGED <<disk, local>>

\* An exception: the temporary file, if its name is already set, is removed.
Fails(r) ==
    /\ result' = [result EXCEPT ![r] = "failed"]
    /\ Goto(r, "done")
    /\ temp' = IF pc[r] \in {"open", "read", "write", "move"} THEN NoFile ELSE temp
    /\ UNCHANGED <<content, store, local>>

\* PathDoesNotExist, for merge --create only; then the headers are read.
Look(r) ==
    /\ pc[r] = "look"
    /\ LET there == ~(kind[r] = "create" /\ store = NoFile)
       IN IF there /\ store = NoFile THEN Fails(r)
          ELSE /\ present' = [present EXCEPT ![r] = there]
               /\ Goto(r, IF kind[r] = "append" THEN "open" ELSE "keys")
               /\ UNCHANGED <<disk, kind, incoming, keys, out, handle, offset, result>>

\* Headers that do not match, or a missing key column.
Rejects(r) == pc[r] \in {"look", "keys"} /\ Fails(r)

\* ReadExistingKeys and ValidateIncomingKeys.
ReadKeys(r) ==
    /\ pc[r] = "keys"
    /\ LET rows == IF present[r] /\ store # NoFile THEN content[store] ELSE <<>>
       IN IF (present[r] /\ store = NoFile) \/ ~KeysDiffer(rows) \/ ~KeysDiffer(incoming[r])
          THEN Fails(r)
          ELSE /\ keys' = [keys EXCEPT ![r] = Keys(rows)]
               /\ Goto(r, "open")
               /\ UNCHANGED <<disk, kind, incoming, present, out, handle, offset, result>>

\* Seeded fault: what a killed run left behind is opened without truncating it.
OpenTempAsItIs(r) ==
    /\ pc[r] = "open"
    /\ temp' = IF temp = NoFile THEN Len(content) + 1 ELSE temp
    /\ content' = IF temp = NoFile THEN Append(content, <<>>) ELSE content
    /\ handle' = [handle EXCEPT ![r] = temp']
    /\ offset' = [offset EXCEPT ![r] = 0]
    /\ Goto(r, "read")
    /\ UNCHANGED <<store, kind, incoming, present, keys, out, result>>

\* The stream truncates what the temporary name refers to, or creates it.
OpenTemp(r) ==
    /\ pc[r] = "open"
    /\ temp' = IF temp = NoFile THEN Len(content) + 1 ELSE temp
    /\ content' = IF temp = NoFile THEN Append(content, <<>>) ELSE [content EXCEPT ![temp] = <<>>]
    /\ handle' = [handle EXCEPT ![r] = temp']
    /\ offset' = [offset EXCEPT ![r] = 0]
    /\ Goto(r, "read")
    /\ UNCHANGED <<store, kind, incoming, present, keys, out, result>>

\* Seeded fault: an existing store is not copied before the incoming rows.
ReadIncomingOnly(r) ==
    /\ pc[r] = "read"
    /\ out' = [out EXCEPT ![r] = NewRows(incoming[r], keys[r])]
    /\ Goto(r, "write")
    /\ UNCHANGED <<disk, kind, incoming, present, keys, handle, offset, result>>

\* Existing rows are read a second time; incoming rows with an old key are skipped.
ReadExisting(r) ==
    /\ pc[r] = "read"
    /\ IF present[r] /\ store = NoFile THEN Fails(r)
       ELSE /\ LET rows == IF present[r] THEN content[store] ELSE <<>>
                   added == NewRows(incoming[r], keys[r])
               IN out' = [out EXCEPT ![r] = rows \o added]
            /\ Goto(r, "write")
            /\ UNCHANGED <<disk, kind, incoming, present, keys, handle, offset, result>>

\* One record at the stream's own position, whatever the file's length is by now.
WriteAt(rows, n, row) ==
    [i \in 1 .. Max({n, Len(rows)}) |->
        IF i = n THEN row ELSE IF i <= Len(rows) THEN rows[i] ELSE Hole]

WriteRow(r) ==
    /\ pc[r] = "write" /\ offset[r] < Len(out[r])
    /\ content' = [content EXCEPT ![handle[r]] = WriteAt(@, offset[r] + 1, out[r][offset[r] + 1])]
    /\ offset' = [offset EXCEPT ![r] = @ + 1]
    /\ UNCHANGED <<store, temp, pc, kind, incoming, present, keys, out, handle, result>>

CloseTemp(r) ==
    /\ pc[r] = "write" /\ offset[r] = Len(out[r])
    /\ Goto(r, "move")
    /\ UNCHANGED <<disk, local, result>>

\* The disk is full, or the temporary file cannot be opened.
WriteFails(r) == pc[r] \in {"open", "write"} /\ Fails(r)

\* ReplaceFileWith: rename(), which does nothing to two names of one inode.
Replace(r) ==
    /\ pc[r] = "move" /\ present[r]
    /\ IF temp = NoFile THEN Fails(r)
       ELSE /\ store' = temp
            /\ temp' = IF temp = store THEN temp ELSE NoFile
            /\ result' = [result EXCEPT ![r] = "ok"]
            /\ Goto(r, "done")
            /\ UNCHANGED <<content, local>>

\* MoveIntoPlaceNoReplace: link(), which fails when the store exists by now ...
Link(r) ==
    /\ pc[r] = "move" /\ ~present[r]
    /\ IF store # NoFile \/ temp = NoFile THEN Fails(r)
       ELSE store' = temp /\ Goto(r, "unlink") /\ UNCHANGED <<content, temp, local, result>>

\* ... then the temporary name is removed.
Unlink(r) ==
    /\ pc[r] = "unlink"
    /\ temp' = NoFile
    /\ result' = [result EXCEPT ![r] = "ok"]
    /\ Goto(r, "done")
    /\ UNCHANGED <<content, store, local>>

Kill(r) ==
    /\ Active(r) /\ (pc[r] = "unlink" => CrashInMove)
    /\ Goto(r, "killed")
    /\ UNCHANGED <<disk, local, result>>

\* Another program makes the store: a file of its own, put in place at once.
MadeElsewhere(rows) ==
    /\ store = NoFile
    /\ content' = Append(content, rows) /\ store' = Len(content) + 1
    /\ UNCHANGED <<temp, pc, local, result>>

Step(r) ==
    \/ \E k \in {"append", "merge", "create"}, file \in Incoming : Start(r, k, file)
    \/ Look(r) \/ Rejects(r) \/ ReadKeys(r) \/ OpenTemp(r) \/ ReadExisting(r)
    \/ WriteRow(r) \/ CloseTemp(r) \/ WriteFails(r) \/ Replace(r) \/ Link(r) \/ Unlink(r)
    \/ Kill(r)

Next == (\E r \in Run : Step(r)) \/ \E rows \in Incoming : MadeElsewhere(rows)

Spec == Init /\ [][Next]_vars

----------------------------------------------------------------------------
(* Properties.                                                             *)

Visible == IF store = NoFile THEN NoFile ELSE content[store]

\* Types; no file ever has a hole.
StoreTypeOK ==
    /\ content \in Seq(Seq(Row))
    /\ {store, temp} \subseteq DOMAIN content \cup {NoFile}
    /\ \A r \in Run :
          /\ pc[r] \in {"idle", "look", "keys", "open", "read", "write", "move", "unlink",
                        "done", "killed"}
          /\ kind[r] \in {"append", "merge", "create"} /\ incoming[r] \in Incoming \cup {<<>>}
          /\ present[r] \in BOOLEAN /\ keys[r] \subseteq {row[1] : row \in Row}
          /\ out[r] \in Seq(Row) /\ offset[r] \in 0 .. Len(out[r])
          /\ handle[r] \in DOMAIN content \cup {NoFile}
          /\ result[r] \in {"none", "ok", "failed"}

\* The store a reader sees goes from complete content to complete content, whatever
\* is killed or fails on the way and whatever a killed run has left behind.
StorePromise == INSTANCE KeyedStore WITH file <- Visible
ImplementsStore == StorePromise!Spec

\* Rows that a run reported as stored stay: no later run, killed or not, loses them.
ReportedRowsStay ==
    \A r \in Run : result[r] = "ok" =>
        store # NoFile /\ Keys(incoming[r]) \subseteq Keys(content[store])

\* The temporary sibling stays behind only when a run was killed.
LeftoverOnlyWhenKilled ==
    temp # NoFile => \E r \in Run : pc[r] \in {"read", "write", "move", "unlink", "killed"}

\* What every run relies on: sound files, and no temporary sibling but that of a run
\* that is under way or was killed.
StoreInv == StoreTypeOK /\ LeftoverOnlyWhenKilled

ChangedByAMove ==
    store # NoFile /\ Visible' # Visible =>
        \E r \in Run : pc[r] = "move" /\ pc'[r] = "done"

\* README, merge and append: "writes a temporary sibling file and replaces the original
\* only after validation and output writing succeed."
ReplacedOnlyWhenWritten == [][ChangedByAMove]_vars

=============================================================================
