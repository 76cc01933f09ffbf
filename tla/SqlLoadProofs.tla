---------------------------- MODULE SqlLoadProofs ----------------------------
(***************************************************************************)
(* Loads of one SQLite destination, for any number of runs, any contents  *)
(* of the CSV file, and any number of replacements and kills: what the    *)
(* name stands for, what is left of a failed load, and what a load that   *)
(* reported success can rely on.                                          *)
(***************************************************************************)
EXTENDS SqlLoad, FiniteSetTheorems, TLAPS

USE BoundsAreNumbers, NamesApart
USE DEF Rest, Own, At, Goto, End, Steps

-----------------------------------------------------------------------------
(* The inductive invariant.                                                *)

Kinds == Tables \union {NoTable, View, Partial, Original}

\* Where a run has the destination open.
Opened == {"lookup", "infer", "create", "insert", "swap", "count"}

\* What each variable is.
LoadTypes ==
  /\ csv \in Csvs /\ edits \in 0 .. MaxEdits /\ kills \in 0 .. MaxKills
  /\ mode \in [Runs -> Modes]
  /\ pc \in [Runs -> Steps \union {"idle", "never", "done", "killed"}]
  /\ path \in Files \union {NoFile}
  /\ db \in [Files -> [Names -> Kinds]]
  /\ lock \in [Files -> Runs \union {NoRun}]
  /\ existed \in [Runs -> BOOLEAN]
  /\ handle \in [Runs -> Files \union {NoFile}]
  /\ dest \in [Runs -> Names]
  /\ header \in [Runs -> Headers]
  /\ got \in [Runs -> Csvs]
  /\ rc \in [Runs -> {0, 1}]

\* A run's file, name and header, at every point of its way.
RunIsAtWork(r) ==
  /\ dest[r] \in {Target, r}
  /\ dest[r] = r => /\ mode[r] = "replace" /\ existed[r]
                    /\ pc[r] \in {"infer", "create", "insert", "swap", "done", "killed"}
  /\ pc[r] \in {"open", "lookup"} /\ existed[r] => mode[r] # "create"
  /\ pc[r] = "lookup" => existed[r]
  /\ pc[r] \in Opened => handle[r] \in Files
  /\ pc[r] \in {"create", "insert", "swap", "count"} => header[r] = got[r].header

\* The write lock is held by one run that is inserting, into a name that is free.
LockIsHeld ==
  /\ \A f \in Files : lock[f] \in Runs => pc[lock[f]] = "insert" /\ handle[lock[f]] = f
  /\ \A r \in Runs : pc[r] = "insert" =>
       lock[handle[r]] = r /\ db[handle[r]][dest[r]] = NoTable

\* A staging table is whole when it is about to be swapped, and a view is never
\* about to be replaced.
StagingIsReady ==
  \A r \in Runs :
    /\ pc[r] = "swap" => dest[r] = r /\ db[handle[r]][r] = Loaded(r)
    /\ dest[r] = r /\ pc[r] \in Opened => db[handle[r]][Target] # View

WorkInv ==
  /\ LoadTypes
  /\ \A r \in Runs : RunIsAtWork(r)
  /\ LockIsHeld
  /\ StagingIsReady
  /\ ColumnsFitRows

-----------------------------------------------------------------------------
(* Types.                                                                  *)

LEMMA NamesDiffer ==
  /\ Target \in Names /\ Runs \subseteq Names /\ Target \notin Runs
  /\ UsersFile \in Files /\ Runs \subseteq Files /\ NoFile \notin Files
  /\ UsersFile \notin Runs /\ NoRun \notin Runs
  BY DEF Names, Files, Target

LEMMA TypesInit == Init => LoadTypes
  <1> SUFFICES ASSUME Init PROVE LoadTypes
    OBVIOUS
  <1>1. csv.header \in Headers
    BY DEF Init, Headers
  <1>2. db \in [Files -> [Names -> Kinds]]
    BY NamesDiffer DEF Init, Empty, Kinds
  <1> QED
    BY <1>1, <1>2, NamesDiffer DEF Init, LoadTypes

LEMMA LoadedIsATable ==
    ASSUME LoadTypes, NEW r \in Runs
    PROVE  Loaded(r) \in Tables
  BY DEF LoadTypes, Loaded, Tables

\* What is left of a load is a database again.
LEMMA UndoneIsTyped ==
    ASSUME LoadTypes, NEW r \in Runs, handle[r] \in Files, NEW tables \in Undone(r)
    PROVE  tables \in [Files -> [Names -> Kinds]]
  <1>1. db \in [Files -> [Names -> Kinds]] /\ dest[r] \in Names /\ Partial \in Kinds
    BY DEF LoadTypes, Kinds
  <1>2. Changed(handle[r], dest[r], Partial) \in [Files -> [Names -> Kinds]]
    BY <1>1 DEF Changed
  <1> QED
    BY <1>1, <1>2 DEF Undone

LEMMA FailTypes ==
    ASSUME LoadTypes, NEW r \in Runs, NEW tables \in [Files -> [Names -> Kinds]],
           Fail(r, tables)
    PROVE  LoadTypes'
  <1>1. db' \in [Files -> [Names -> Kinds]]
    BY NamesDiffer DEF Fail, LoadTypes, Kinds
  <1>2. lock' \in [Files -> Runs \union {NoRun}] /\ path' \in Files \union {NoFile}
    BY NamesDiffer DEF Fail, LoadTypes
  <1>3. /\ pc' \in [Runs -> Steps \union {"idle", "never", "done", "killed"}]
        /\ rc' \in [Runs -> {0, 1}]
    BY NamesDiffer DEF Fail, LoadTypes
  <1> QED
    BY <1>1, <1>2, <1>3 DEF Fail, LoadTypes

LEMMA TypesStep ==
    LoadTypes /\ (\A r \in Runs : RunIsAtWork(r)) /\ [Next]_vars => LoadTypes'
  <1> SUFFICES ASSUME LoadTypes, \A r \in Runs : RunIsAtWork(r), [Next]_vars
               PROVE  LoadTypes'
    OBVIOUS
  <1> USE NamesDiffer
  <1>1. CASE EditCsv
    BY <1>1 DEF EditCsv, LoadTypes
  <1>2. ASSUME NEW r \in Runs, RunStep(r) PROVE LoadTypes'
    <2>1. CASE Begin(r)
      <3>1. csv.header \in Headers
        BY DEF LoadTypes, Headers
      <3> QED
        BY <2>1, <3>1 DEF Begin, LoadTypes
    <2>2. CASE Check(r)
      <3>1. existed' \in [Runs -> BOOLEAN] /\ rc' \in [Runs -> {0, 1}]
        <4>1. existed' = [existed EXCEPT ![r] = path # NoFile]
          BY <2>2 DEF Check
        <4>2. rc' = rc \/ rc' = [rc EXCEPT ![r] = 1]
          BY <2>2 DEF Check
        <4> QED
          BY <4>1, <4>2 DEF LoadTypes
      <3>2. pc' \in [Runs -> Steps \union {"idle", "never", "done", "killed"}]
        <4>1. pc' = [pc EXCEPT ![r] = "done"] \/ pc' = [pc EXCEPT ![r] = "open"]
          BY <2>2 DEF Check
        <4> QED
          BY <4>1 DEF LoadTypes
      <3>3. UNCHANGED <<csv, edits, kills, mode, path, db, lock, handle, dest, header, got>>
        BY <2>2 DEF Check
      <3> QED
        BY <3>1, <3>2, <3>3 DEF LoadTypes
    <2>3. CASE Open(r)
      <3>1. db \in [Files -> [Names -> Kinds]]
        BY DEF LoadTypes
      <3>2. CASE Fail(r, db)
        BY <3>1, <3>2, FailTypes
      <3>3. CASE ~Fail(r, db)
        <4>1. path' \in Files
          BY <2>3, <3>3 DEF Open, LoadTypes
        <4>2. handle' \in [Runs -> Files \union {NoFile}]
          <5>1. handle' = [handle EXCEPT ![r] = path']
            BY <2>3, <3>3 DEF Open
          <5> QED
            BY <4>1, <5>1 DEF LoadTypes
        <4>3. pc' \in [Runs -> Steps \union {"idle", "never", "done", "killed"}]
          BY <2>3, <3>3 DEF Open, LoadTypes
        <4> QED
          BY <2>3, <3>3, <4>1, <4>2, <4>3 DEF Open, LoadTypes
      <3> QED
        BY <3>2, <3>3
    <2>4. CASE Lookup(r)
      BY <2>4 DEF Lookup, LoadTypes
    <2>12. CASE Reset(r)
      BY <2>12 DEF Reset, LoadTypes
    <2>5. CASE ResetFails(r) \/ CreateFails(r) \/ SwapFails(r)
      BY <2>5, FailTypes DEF ResetFails, CreateFails, SwapFails, LoadTypes
    <2>6. CASE CreateTable(r)
      BY <2>6 DEF CreateTable, LoadTypes
    <2>7. CASE Commit(r)
      <3>1. db' \in [Files -> [Names -> Kinds]]
        BY <2>7, LoadedIsATable DEF Commit, Changed, LoadTypes, Kinds
      <3> QED
        BY <2>7, <3>1 DEF Commit, LoadTypes
    <2>8. CASE Swap(r)
      <3>1. handle[r] \in Files
        BY <2>8 DEF Swap, RunIsAtWork, Opened
      <3>2. db' \in [Files -> [Names -> Kinds]]
        BY <2>8, <3>1 DEF Swap, LoadTypes, Kinds
      <3> QED
        BY <2>8, <3>2 DEF Swap, LoadTypes
    <2>9. CASE Count(r)
      BY <2>9 DEF Count, LoadTypes
    <2>10. CASE SqlError(r)
      <3>1. handle[r] \in Files
        BY <2>10 DEF SqlError, RunIsAtWork, Opened
      <3>2. PICK tables \in (IF At(r, "insert") THEN Undone(r) ELSE {db}) : Fail(r, tables)
        BY <2>10 DEF SqlError
      <3> QED
        BY <3>1, <3>2, UndoneIsTyped, FailTypes DEF LoadTypes
    <2>11. CASE Kill(r)
      <3>1. db' \in [Files -> [Names -> Kinds]]
        BY <2>11, UndoneIsTyped DEF Kill, RunIsAtWork, Opened, LoadTypes
      <3> QED
        BY <2>11, <3>1 DEF Kill, LoadTypes
    <2> QED
      BY <1>2, <2>1, <2>2, <2>3, <2>4, <2>5, <2>6, <2>7, <2>8, <2>9, <2>10, <2>11, <2>12 DEF RunStep
  <1>3. CASE UNCHANGED vars
    BY <1>3 DEF vars, LoadTypes
  <1> QED
    BY <1>1, <1>2, <1>3 DEF Next

-----------------------------------------------------------------------------
(* What a run's step does to the others and to the databases.              *)

LEMMA OthersKeep ==
    ASSUME LoadTypes, NEW r \in Runs, RunStep(r)
    PROVE  /\ UNCHANGED mode
           /\ \A q \in Runs \ {r} :
                /\ pc'[q] = pc[q] /\ dest'[q] = dest[q] /\ existed'[q] = existed[q]
                /\ handle'[q] = handle[q] /\ header'[q] = header[q]
                /\ got'[q] = got[q] /\ rc'[q] = rc[q]
  <1> USE DEF LoadTypes
  <1>1. ASSUME NEW tables, Fail(r, tables)
        PROVE  /\ UNCHANGED <<mode, dest, existed, handle, header, got>>
               /\ \A q \in Runs \ {r} : pc'[q] = pc[q] /\ rc'[q] = rc[q]
    BY <1>1 DEF Fail
  <1>2. CASE Begin(r) \/ Check(r) \/ Lookup(r) \/ Reset(r)
    BY <1>2 DEF Begin, Check, Lookup, Reset
  <1>3. CASE Open(r)
    <2>1. CASE Fail(r, db)
      BY <1>1, <2>1
    <2>2. CASE ~Fail(r, db)
      BY <1>3, <2>2 DEF Open
    <2> QED
      BY <2>1, <2>2
  <1>4. CASE CreateTable(r) \/ Commit(r) \/ Swap(r) \/ Count(r) \/ Kill(r)
    BY <1>4 DEF CreateTable, Commit, Swap, Count, Kill
  <1>5. CASE ResetFails(r) \/ CreateFails(r) \/ SwapFails(r) \/ SqlError(r)
    BY <1>5, <1>1 DEF ResetFails, CreateFails, SwapFails, SqlError
  <1> QED
    BY <1>2, <1>3, <1>4, <1>5 DEF RunStep

\* A run writes the table it loads: all of it at its commit, part of it when it is
\* stopped without a journal, nothing when it drops its staging table.
Writes(r, t) ==
  /\ db' = Changed(handle[r], dest[r], t)
  /\ \/ t = Loaded(r) /\ Commit(r)
     \/ t = Partial /\ pc[r] = "insert" /\ ~existed[r] /\ pc'[r] \in {"done", "killed"}
     \/ t = NoTable /\ dest[r] # Target /\ pc'[r] = "done"

LEMMA FailWrites ==
    ASSUME LoadTypes, NEW r \in Runs, NEW tables, Fail(r, tables),
           \/ tables = db
           \/ pc[r] = "insert" /\ tables \in Undone(r)
    PROVE  db' = db \/ \E t : Writes(r, t)
  <1>1. pc'[r] = "done"
    BY DEF Fail, LoadTypes
  <1>2. CASE ~existed[r]
    <2>1. db' = tables
      BY <1>2 DEF Fail
    <2>2. tables = db \/ Writes(r, Partial)
      BY <1>1, <1>2, <2>1 DEF Undone, Writes
    <2> QED
      BY <2>1, <2>2
  <1>3. CASE existed[r]
    <2>1. tables = db
      BY <1>3 DEF Undone, Journaled
    <2>2. db' = db \/ Writes(r, NoTable)
      BY <1>1, <1>3, <2>1 DEF Fail, Writes, Changed
    <2> QED
      BY <2>2
  <1> QED
    BY <1>2, <1>3 DEF LoadTypes

LEMMA DbStep ==
    ASSUME LoadTypes, NEW r \in Runs, RunStep(r)
    PROVE  db' = db \/ (\E t : Writes(r, t)) \/ Swap(r)
  <1>1. CASE \/ Begin(r) \/ Check(r) \/ Lookup(r) \/ Reset(r) \/ CreateTable(r) \/ Count(r)
    BY <1>1 DEF Begin, Check, Lookup, Reset, CreateTable, Count
  <1>2. CASE Open(r)
    <2>1. CASE Fail(r, db)
      BY <2>1, FailWrites
    <2>2. CASE ~Fail(r, db)
      BY <1>2, <2>2 DEF Open
    <2> QED
      BY <2>1, <2>2
  <1>3. CASE ResetFails(r) \/ CreateFails(r) \/ SwapFails(r)
    BY <1>3, FailWrites DEF ResetFails, CreateFails, SwapFails
  <1>4. CASE SqlError(r)
    BY <1>4, FailWrites DEF SqlError
  <1>5. CASE Commit(r)
    BY <1>5 DEF Commit, Writes
  <1>6. CASE Kill(r)
    <2>1. pc'[r] = "killed"
      BY <1>6 DEF Kill, LoadTypes
    <2>2. db' = db \/ Writes(r, Partial)
      BY <1>6, <2>1 DEF Kill, Undone, Journaled, Writes
    <2> QED
      BY <2>2
  <1> QED
    BY <1>1, <1>2, <1>3, <1>4, <1>5, <1>6 DEF RunStep

-----------------------------------------------------------------------------
(* Runs at work, the lock, and the staging tables.                         *)

LEMMA WorkInit == Init => WorkInv
  <1> SUFFICES ASSUME Init PROVE WorkInv
    OBVIOUS
  <1>1. LoadTypes
    BY TypesInit
  <1>2. \A r \in Runs : RunIsAtWork(r)
    BY NamesDiffer DEF Init, RunIsAtWork, Opened
  <1>3. LockIsHeld /\ StagingIsReady
    BY NamesDiffer DEF Init, LockIsHeld, StagingIsReady, Opened
  <1>4. \A f \in Files, n \in Names : db[f][n] \in {NoTable, View, Original}
    BY NamesDiffer DEF Init, Empty
  <1>5. ColumnsFitRows
    BY <1>4, KindsApart DEF ColumnsFitRows
  <1> QED
    BY <1>1, <1>2, <1>3, <1>5 DEF WorkInv

\* A run that fails is done, and keeps its file and its names.
LEMMA FailKeeps ==
    ASSUME LoadTypes, NEW r \in Runs, NEW tables, Fail(r, tables)
    PROVE  /\ UNCHANGED <<mode, dest, existed, handle, header, got>>
           /\ pc'[r] = "done"
  BY DEF Fail, LoadTypes

LEMMA RunsStep ==
    ASSUME LoadTypes, \A q \in Runs : RunIsAtWork(q), NEW r \in Runs, RunStep(r)
    PROVE  \A q \in Runs : RunIsAtWork(q)'
  <1>1. ASSUME NEW q \in Runs \ {r} PROVE RunIsAtWork(q)'
    BY <1>1, OthersKeep DEF RunIsAtWork
  <1>2. RunIsAtWork(r)'
    <2> USE NamesDiffer DEF LoadTypes, RunIsAtWork, Opened
    <2>1. ASSUME NEW tables, Fail(r, tables) PROVE RunIsAtWork(r)'
      BY <2>1, FailKeeps
    <2>2. CASE Begin(r)
      BY <2>2 DEF Begin
    <2>9. CASE Check(r)
      <3>1. /\ existed' = [existed EXCEPT ![r] = path # NoFile]
            /\ UNCHANGED <<mode, dest, handle, header, got>>
            /\ dest[r] # r
        BY <2>9 DEF Check
      <3>2. \/ mode[r] # "create" /\ pc'[r] = "open"
            \/ path = NoFile /\ pc'[r] = "open"
            \/ pc'[r] = "done"
        BY <2>9 DEF Check
      <3> QED
        BY <3>1, <3>2
    <2>3. CASE Open(r)
      <3>1. CASE ~Fail(r, db)
        <4>1. path' \in Files
          BY <2>3, <3>1 DEF Open
        <4>2. /\ handle' = [handle EXCEPT ![r] = path']
              /\ pc' = [pc EXCEPT ![r] = IF existed[r] THEN "lookup" ELSE "infer"]
              /\ UNCHANGED <<mode, existed, dest, header, got>>
          BY <2>3, <3>1 DEF Open
        <4>3. handle'[r] \in Files
          BY <4>1, <4>2
        <4> QED
          BY <2>3, <4>2, <4>3 DEF Open
      <3> QED
        BY <2>1, <3>1
    <2>4. CASE Lookup(r)
      BY <2>4 DEF Lookup, Modes
    <2>5. CASE Reset(r)
      BY <2>5 DEF Reset, SameHeader
    <2>6. CASE CreateTable(r) \/ Swap(r) \/ Count(r) \/ Kill(r)
      BY <2>6 DEF CreateTable, Swap, Count, Kill
    <2>7. CASE Commit(r)
      BY <2>7 DEF Commit
    <2>8. CASE ResetFails(r) \/ CreateFails(r) \/ SwapFails(r) \/ SqlError(r)
      BY <2>1, <2>8 DEF ResetFails, CreateFails, SwapFails, SqlError
    <2> QED
      BY <2>2, <2>3, <2>4, <2>5, <2>6, <2>7, <2>8, <2>9 DEF RunStep
  <1> QED
    BY <1>1, <1>2

\* A run gives its lock up, or takes a free one, or leaves the locks alone.
LEMMA LockStep ==
    ASSUME LoadTypes, LockIsHeld, NEW r \in Runs, RunIsAtWork(r), RunStep(r)
    PROVE  \/ lock' = lock /\ pc[r] # "insert" /\ pc'[r] # "insert"
           \/ CreateTable(r)
           \/ /\ \A f \in Files : lock'[f] = IF lock[f] = r THEN NoRun ELSE lock[f]
              /\ pc'[r] # "insert"
  <1> USE DEF LoadTypes
  <1>1. ASSUME NEW tables, Fail(r, tables)
        PROVE  /\ \A f \in Files : lock'[f] = IF lock[f] = r THEN NoRun ELSE lock[f]
               /\ pc'[r] # "insert"
    BY <1>1 DEF Fail
  <1>2. CASE Begin(r) \/ Check(r) \/ Lookup(r) \/ Reset(r) \/ Swap(r) \/ Count(r)
    BY <1>2 DEF Begin, Check, Lookup, Reset, Swap, Count
  <1>3. CASE Open(r)
    <2>1. CASE ~Fail(r, db)
      BY <1>3, <2>1 DEF Open
    <2> QED
      BY <1>1, <2>1
  <1>4. CASE ResetFails(r) \/ CreateFails(r) \/ SwapFails(r) \/ SqlError(r)
    BY <1>1, <1>4 DEF ResetFails, CreateFails, SwapFails, SqlError
  <1>5. CASE Kill(r)
    BY <1>5 DEF Kill
  <1>6. CASE Commit(r)
    <2>1. handle[r] \in Files /\ lock[handle[r]] = r
      BY <1>6 DEF Commit, LockIsHeld, RunIsAtWork, Opened
    <2>2. \A f \in Files : lock[f] = r => f = handle[r]
      BY DEF LockIsHeld
    <2> QED
      BY <1>6, <2>1, <2>2 DEF Commit
  <1> QED
    BY <1>2, <1>3, <1>4, <1>5, <1>6 DEF RunStep

\* A table that is written to or swapped in is whole, or was begun there.
LEMMA WrittenAs ==
    ASSUME WorkInv, NEW r \in Runs, RunStep(r), NEW f \in Files, NEW n \in Names,
           db'[f][n] # db[f][n]
    PROVE  /\ handle[r] = f /\ n \in {Target, r}
           /\ db'[f][n] \in {Loaded(r), Partial, NoTable}
           /\ db'[f][n] = Partial =>
                pc[r] = "insert" /\ ~existed[r] /\ pc'[r] \in {"done", "killed"}
           /\ \/ pc[r] = "insert" /\ n = dest[r]
              \/ n = r /\ db'[f][n] = NoTable
              \/ Swap(r) /\ n = Target /\ db'[f][n] = Loaded(r)
  <1> USE NamesDiffer DEF WorkInv, LoadTypes, RunIsAtWork
  <1>1. ASSUME NEW t, Writes(r, t)
        PROVE  f = handle[r] /\ n = dest[r] /\ db'[f][n] = t
    BY <1>1 DEF Writes, Changed
  <1>2. /\ Commit(r) => pc[r] = "insert"
        /\ Loaded(r) # Partial /\ NoTable # Partial
    BY LoadedIsATable, KindsApart DEF Commit
  <1>3. CASE \E t : Writes(r, t)
    <2>1. PICK t : Writes(r, t)
      BY <1>3
    <2> QED
      BY <1>1, <1>2, <2>1 DEF Writes
  <1>4. CASE Swap(r)
    BY <1>2, <1>4 DEF Swap, StagingIsReady
  <1> QED
    BY <1>3, <1>4, DbStep

\* Only a run on its way takes steps; it opens one file, and takes a staging name
\* when it has found a table that may be replaced.
LEMMA RunKeeps ==
    ASSUME LoadTypes, NEW r \in Runs, RunStep(r)
    PROVE  /\ pc[r] \in Steps \union {"idle"}
           /\ pc[r] # "open" => handle' = handle
           /\ pc[r] # "check" => existed' = existed
           /\ \/ dest' = dest
              \/ dest'[r] = Target
              \/ /\ Lookup(r) /\ dest'[r] = r
                 /\ db[handle[r]][Target] # View /\ UNCHANGED <<handle, db>>
  <1> USE NamesDiffer DEF LoadTypes
  <1>1. ASSUME NEW tables, Fail(r, tables) PROVE UNCHANGED <<handle, existed, dest>>
    BY <1>1 DEF Fail
  <1>2. CASE Begin(r) \/ Check(r) \/ Reset(r) \/ CreateTable(r)
    BY <1>2 DEF Begin, Check, Reset, CreateTable
  <1>3. CASE Commit(r) \/ Swap(r) \/ Count(r) \/ Kill(r)
    BY <1>3 DEF Commit, Swap, Count, Kill, Alive
  <1>4. CASE Open(r)
    <2>1. CASE ~Fail(r, db)
      BY <1>4, <2>1 DEF Open
    <2> QED
      BY <1>1, <1>4, <2>1 DEF Open
  <1>5. CASE Lookup(r)
    BY <1>5 DEF Lookup
  <1>6. CASE ResetFails(r) \/ CreateFails(r) \/ SwapFails(r) \/ SqlError(r)
    BY <1>1, <1>6 DEF ResetFails, CreateFails, SwapFails, SqlError
  <1> QED
    BY <1>2, <1>3, <1>4, <1>5, <1>6 DEF RunStep

LEMMA LockHeldStep ==
    ASSUME WorkInv, NEW r \in Runs, RunStep(r)
    PROVE  LockIsHeld'
  <1> USE NamesDiffer DEF WorkInv, LoadTypes
  <1>1. ASSUME NEW f \in Files, lock'[f] \in Runs
        PROVE  pc'[lock'[f]] = "insert" /\ handle'[lock'[f]] = f
    <2>1. CASE CreateTable(r)
      BY <1>1, <2>1 DEF CreateTable, LockIsHeld, RunIsAtWork, Opened
    <2>2. CASE ~CreateTable(r)
      <3>1. lock'[f] = lock[f] /\ lock[f] # r
        <4>1. CASE lock' = lock /\ pc[r] # "insert"
          BY <1>1, <4>1 DEF LockIsHeld
        <4>2. CASE lock'[f] = IF lock[f] = r THEN NoRun ELSE lock[f]
          BY <1>1, <4>2
        <4> QED
          BY <2>2, <4>1, <4>2, LockStep
      <3> QED
        BY <1>1, <3>1, OthersKeep DEF LockIsHeld
    <2> QED
      BY <2>1, <2>2
  <1>2. ASSUME NEW q \in Runs, pc'[q] = "insert"
        PROVE  lock'[handle'[q]] = q /\ db'[handle'[q]][dest'[q]] = NoTable
    <2>1. CASE q = r
      <3>1. CreateTable(r)
        BY <1>2, <2>1, LockStep
      <3> QED
        BY <2>1, <3>1 DEF CreateTable, RunIsAtWork, Opened
    <2>2. CASE q # r
      <3>1. /\ pc[q] = "insert" /\ handle'[q] = handle[q] /\ dest'[q] = dest[q]
            /\ handle[q] \in Files /\ dest[q] \in {Target, q}
        BY <1>2, <2>2, OthersKeep DEF RunIsAtWork, Opened
      <3>2. lock[handle[q]] = q /\ db[handle[q]][dest[q]] = NoTable
        BY <3>1 DEF LockIsHeld
      <3>3. lock'[handle[q]] = q
        BY <2>2, <3>1, <3>2, LockStep DEF CreateTable, Free
      <3>4. db'[handle[q]][dest[q]] = NoTable
        <4>1. SUFFICES ASSUME db'[handle[q]][dest[q]] # db[handle[q]][dest[q]] PROVE FALSE
          BY <3>2
        <4>2. handle[r] = handle[q] /\ dest[q] = Target
          BY <2>2, <3>1, <4>1, WrittenAs
        <4>3. ~Swap(r)
          BY <2>2, <3>2, <4>2 DEF Swap, Free
        <4>4. pc[r] = "insert"
          BY <2>2, <3>1, <4>1, <4>2, <4>3, WrittenAs
        <4> QED
          BY <2>2, <3>2, <4>2, <4>4 DEF LockIsHeld
      <3> QED
        BY <3>1, <3>3, <3>4
    <2> QED
      BY <2>1, <2>2
  <1> QED
    BY <1>1, <1>2 DEF LockIsHeld

LEMMA StagingStep ==
    ASSUME WorkInv, NEW r \in Runs, RunStep(r)
    PROVE  StagingIsReady'
  <1> USE NamesDiffer DEF WorkInv, LoadTypes
  <1>1. ASSUME NEW q \in Runs \ {r}, pc'[q] = "swap"
        PROVE  dest'[q] = q /\ db'[handle'[q]][q] = Loaded(q)'
    <2>1. /\ pc[q] = "swap" /\ handle[q] \in Files
          /\ dest'[q] = dest[q] /\ handle'[q] = handle[q] /\ Loaded(q)' = Loaded(q)
      BY <1>1, OthersKeep DEF RunIsAtWork, Opened, Loaded
    <2>2. db'[handle[q]][q] = db[handle[q]][q]
      BY <1>1, <2>1, WrittenAs
    <2> QED
      BY <2>1, <2>2 DEF StagingIsReady
  <1>2. ASSUME pc'[r] = "swap"
        PROVE  dest'[r] = r /\ db'[handle'[r]][r] = Loaded(r)'
    <2>1. Commit(r)
      <3>1. \A tables : ~Fail(r, tables)
        BY <1>2, FailKeeps
      <3>2. ~Begin(r) /\ ~Check(r) /\ ~Lookup(r) /\ ~Reset(r) /\ ~CreateTable(r)
        BY <1>2 DEF Begin, Check, Lookup, Reset, CreateTable
      <3>3. ~Open(r) /\ ~Swap(r) /\ ~Count(r) /\ ~Kill(r)
        BY <1>2, <3>1 DEF Open, Swap, Count, Kill
      <3>4. ~ResetFails(r) /\ ~CreateFails(r) /\ ~SwapFails(r) /\ ~SqlError(r)
        BY <3>1 DEF ResetFails, CreateFails, SwapFails, SqlError
      <3> QED
        BY <3>2, <3>3, <3>4 DEF RunStep
    <2>2. dest[r] = r /\ handle[r] \in Files
      BY <1>2, <2>1 DEF Commit, RunIsAtWork, Opened
    <2> QED
      BY <2>1, <2>2 DEF Commit, Changed, Loaded
  <1>3. ASSUME NEW q \in Runs, dest'[q] = q, pc'[q] \in Opened
        PROVE  db'[handle'[q]][Target] # View
    <2>1. /\ handle[q] \in Files /\ handle'[q] = handle[q]
          /\ db[handle[q]][Target] # View
      <3>1. CASE q # r
        BY <1>3, <3>1, OthersKeep DEF StagingIsReady, RunIsAtWork, Opened
      <3>2. CASE q = r /\ dest[r] = r
        <4>1. pc[r] \in Opened /\ handle[r] \in Files
          BY <3>2, RunKeeps DEF RunIsAtWork, Opened
        <4> QED
          BY <3>2, <4>1, RunKeeps DEF StagingIsReady, Opened, RunIsAtWork
      <3>3. CASE q = r /\ dest[r] # r
        <4>1. Lookup(r) /\ db[handle[r]][Target] # View /\ handle' = handle
          BY <1>3, <3>3, RunKeeps
        <4> QED
          BY <3>3, <4>1 DEF Lookup, RunIsAtWork, Opened
      <3> QED
        BY <3>1, <3>2, <3>3
    <2>2. db'[handle[q]][Target] # db[handle[q]][Target] =>
            db'[handle[q]][Target] \in {Loaded(r), Partial, NoTable}
      BY <2>1, WrittenAs
    <2> QED
      BY <2>1, <2>2, LoadedIsATable, KindsApart
  <1> QED
    BY <1>1, <1>2, <1>3 DEF StagingIsReady

-----------------------------------------------------------------------------
(* The theorems that hold however many first loads there are.              *)

LEMMA ColumnsStep ==
    ASSUME WorkInv, NEW r \in Runs, RunStep(r)
    PROVE  ColumnsFitRows'
  <1> SUFFICES ASSUME NEW f \in Files, NEW n \in Names, db'[f][n] \in Tables
               PROVE  db'[f][n].columns = db'[f][n].from.header
    BY DEF ColumnsFitRows
  <1>1. CASE db'[f][n] = db[f][n]
    BY <1>1 DEF WorkInv, ColumnsFitRows
  <1>2. CASE db'[f][n] # db[f][n]
    <2>1. db'[f][n] = Loaded(r)
      BY <1>2, WrittenAs, KindsApart
    <2>2. pc[r] = "insert" \/ pc[r] = "swap"
      <3>1. db'[f][n] # NoTable /\ (Swap(r) => pc[r] = "swap")
        BY KindsApart DEF Swap
      <3> QED
        BY <1>2, <3>1, WrittenAs
    <2>3. header[r] = got[r].header
      BY <2>2 DEF WorkInv, RunIsAtWork
    <2> QED
      BY <2>1, <2>3 DEF Loaded
  <1> QED
    BY <1>1, <1>2

LEMMA WorkStep == WorkInv /\ [Next]_vars => WorkInv'
  <1> SUFFICES ASSUME WorkInv, [Next]_vars PROVE WorkInv'
    OBVIOUS
  <1>1. LoadTypes'
    BY TypesStep DEF WorkInv
  <1>2. ASSUME NEW r \in Runs, RunStep(r) PROVE WorkInv'
    <2>1. \A q \in Runs : RunIsAtWork(q)'
      BY <1>2, RunsStep DEF WorkInv
    <2> QED
      BY <1>1, <1>2, <2>1, LockHeldStep, StagingStep, ColumnsStep DEF WorkInv
  <1>3. CASE EditCsv \/ UNCHANGED vars
    <2>1. UNCHANGED <<path, db, lock, mode, pc, existed, handle, dest, header, got, rc>>
      BY <1>3 DEF EditCsv, vars
    <2>2. \A r \in Runs : Loaded(r)' = Loaded(r)
      BY <2>1 DEF Loaded
    <2>3. \A r \in Runs : RunIsAtWork(r)'
      <3> SUFFICES ASSUME NEW r \in Runs PROVE RunIsAtWork(r)'
        OBVIOUS
      <3>1. RunIsAtWork(r)
        BY DEF WorkInv
      <3> QED
        BY <2>1, <3>1 DEF RunIsAtWork
    <2>4. LockIsHeld' /\ StagingIsReady'
      BY <2>1, <2>2 DEF WorkInv, LockIsHeld, StagingIsReady
    <2>5. ColumnsFitRows'
      BY <2>1 DEF WorkInv, ColumnsFitRows
    <2> QED
      BY <1>1, <2>3, <2>4, <2>5 DEF WorkInv
  <1> QED
    BY <1>2, <1>3 DEF Next

LEMMA WorkCorrect == Spec => []WorkInv
  BY WorkInit, WorkStep, PTL DEF Spec

\* The write lock is that of a run inserting, a staging table belongs to a run that
\* replaces, and no table has the columns of one file over the rows of another
\* (LoadCsvIntoTable, CsvInputCommand::reset_reader).
THEOREM LoadCorrect == Spec => []LoadInv
  <1>1. WorkInv => LoadInv
    <2> SUFFICES ASSUME WorkInv PROVE LoadInv
      OBVIOUS
    <2>1. \A f \in Files, n \in Names :
            db[f][n] \in Tables \union {NoTable, View, Partial, Original}
      BY DEF WorkInv, LoadTypes, Kinds
    <2> QED
      BY <2>1 DEF LoadInv, SqlTypeOK, WorkInv, LoadTypes, LockIsHeld, RunIsAtWork
  <1> QED
    BY <1>1, WorkCorrect, PTL

\* Whatever fails, is killed or meets another load at the destination, the name has
\* its old table until a whole one takes its place (SqlExportCommand::run, fail).
THEOREM OldTableIntactCorrect == Spec => OldTableIntact
  <1>1. WorkInv /\ [Next]_vars => [ReplacedAtOnce]_vars
    <2> SUFFICES ASSUME WorkInv, Next, NEW f \in Files,
                        db[f][Target] \in Tables \union {Original, View},
                        db'[f][Target] # db[f][Target]
                 PROVE  /\ db[f][Target] # View
                        /\ \E r \in Runs : /\ mode[r] = "replace" /\ pc[r] = "swap"
                                           /\ db'[f][Target] = Loaded(r)
      BY DEF ReplacedAtOnce
    <2>1. PICK r \in Runs : RunStep(r)
      BY DEF Next, EditCsv
    <2>2. handle[r] = f
      BY <2>1, NamesDiffer, WrittenAs
    <2>3. ~(pc[r] = "insert" /\ dest[r] = Target)
      BY <2>2, KindsApart DEF WorkInv, LockIsHeld
    <2>4. Swap(r) /\ db'[f][Target] = Loaded(r)
      BY <2>1, <2>3, NamesDiffer, WrittenAs
    <2>5. dest[r] = r /\ mode[r] = "replace" /\ pc[r] = "swap"
      BY <2>4 DEF Swap, WorkInv, StagingIsReady, RunIsAtWork
    <2> QED
      BY <2>2, <2>4, <2>5 DEF WorkInv, StagingIsReady, Opened
  <1> QED
    BY <1>1, WorkCorrect, PTL DEF Spec, OldTableIntact

-----------------------------------------------------------------------------
(* What is at the destination, when at most one load starts without one.   *)

\* The user had a database: nothing removes it, and no part of a table is in it.
UsersDatabase ==
  /\ path = UsersFile
  /\ \A r \in Runs :
       /\ pc[r] \in Opened \union {"open"} => existed[r]
       /\ pc[r] \in Opened => handle[r] = UsersFile
  /\ \A n \in Names : db[UsersFile][n] # Partial

\* There was none: the one run that was started makes it, and alone removes it.
OwnDatabase ==
  /\ \A r, q \in Runs : pc[r] # "never" /\ pc[q] # "never" => r = q
  /\ path # NoFile =>
       path \in Runs /\ pc[path] \in Opened \union {"done", "killed"}
  /\ \A r \in Runs :
       /\ pc[r] \in Opened \union {"open"} => ~existed[r]
       /\ pc[r] \in Opened => handle[r] = r /\ path = r
       /\ \A n \in Names : db[r][n] = Partial =>
            pc[r] = "killed" \/ (pc[r] = "done" /\ path = NoFile)

\* A staging table is only in the file its run has opened, and there only until it
\* is swapped, unless the run was stopped.
StagingIsGone ==
  \A r \in Runs : \A f \in Files :
    \/ db[f][r] = NoTable
    \/ f = handle[r] /\ pc[r] \in {"swap", "killed"}
    \/ f = handle[r] /\ pc[r] = "done" /\ rc[r] = 1

RowsAreIn == \A r \in Runs : pc[r] = "count" => db[handle[r]][Target] \in Tables

KeptInv ==
  /\ UsersDatabase \/ OwnDatabase
  /\ StagingIsGone
  /\ RowsAreIn
  /\ LoadedStays

\* Among no more than one there are not two.
LEMMA AtMostOne ==
    ASSUME NEW S, IsFiniteSet(S), Cardinality(S) <= 1, NEW x \in S, NEW y \in S
    PROVE  x = y
  <1> SUFFICES ASSUME x # y PROVE FALSE
    OBVIOUS
  <1>1. Cardinality({x}) = 1 /\ IsFiniteSet({x})
    BY FS_Singleton
  <1>2. Cardinality({x} \union {y}) = 2
    <2>1. Cardinality({x} \union {y}) = Cardinality({x}) + 1
      BY <1>1, FS_AddElement, Zenon
    <2> QED
      BY <1>1, <2>1
  <1>3. Cardinality({x} \union {y}) <= Cardinality(S)
    BY FS_Subset
  <1>4. Cardinality(S) \in Nat /\ 1 + 1 = 2
    BY FS_CardinalityType
  <1> QED
    BY <1>2, <1>3, <1>4, SMT

LEMMA KeptInit == FirstLoads <= 1 /\ Init => KeptInv
  <1> SUFFICES ASSUME FirstLoads <= 1, Init PROVE KeptInv
    OBVIOUS
  <1> USE NamesDiffer
  <1>1. \A f \in Files, n \in Names : db[f][n] \in {NoTable, View, Original}
    BY DEF Init, Empty
  <1>2. \A f \in Files, r \in Runs : db[f][r] = NoTable
    BY DEF Init, Empty
  <1>3. ASSUME path = UsersFile PROVE UsersDatabase
    <2>1. \A r \in Runs : pc[r] \in {"idle", "never"}
      BY DEF Init
    <2>2. \A n \in Names : db[UsersFile][n] # Partial
      BY <1>1, KindsApart
    <2> QED
      BY <1>3, <2>1, <2>2 DEF UsersDatabase, Opened
  <1>4. ASSUME path = NoFile PROVE OwnDatabase
    <2>1. Cardinality({r \in Runs : pc[r] = "idle"}) <= FirstLoads
      BY <1>4, NamesApart DEF Init
    <2>2. /\ IsFiniteSet({r \in Runs : pc[r] = "idle"})
          /\ Cardinality({r \in Runs : pc[r] = "idle"}) <= 1
      <3>1. IsFiniteSet({r \in Runs : pc[r] = "idle"})
        BY RunsAreFinite, FS_Subset
      <3> QED
        BY <2>1, <3>1, FS_CardinalityType
    <2>3. \A r, q \in Runs : pc[r] # "never" /\ pc[q] # "never" => r = q
      <3> SUFFICES ASSUME NEW r \in Runs, NEW q \in Runs, pc[r] # "never", pc[q] # "never"
                   PROVE  r = q
        OBVIOUS
      <3>1. r \in {x \in Runs : pc[x] = "idle"} /\ q \in {x \in Runs : pc[x] = "idle"}
        BY DEF Init
      <3> QED
        BY <2>2, <3>1, AtMostOne
    <2>4. \A r \in Runs : pc[r] \in {"idle", "never"}
      BY DEF Init
    <2>5. \A r \in Runs, n \in Names : db[r][n] # Partial
      BY <1>1, KindsApart
    <2> QED
      BY <1>4, <2>3, <2>4, <2>5 DEF OwnDatabase, Opened
  <1>5. StagingIsGone
    BY <1>2 DEF StagingIsGone
  <1>6. RowsAreIn /\ LoadedStays
    BY DEF Init, RowsAreIn, LoadedStays
  <1> QED
    BY <1>3, <1>4, <1>5, <1>6 DEF Init, KeptInv

\* The file at the destination changes when a run that found none makes it, or fails.
LEMMA PathStep ==
    ASSUME LoadTypes, NEW r \in Runs, RunStep(r)
    PROVE  \/ path' = path
           \/ Open(r) /\ ~Fail(r, db) /\ path = NoFile /\ path' = r
           \/ /\ ~existed[r] /\ pc[r] \in Opened \union {"open"}
              /\ path' = NoFile /\ pc'[r] = "done"
  <1>1. ASSUME NEW tables, Fail(r, tables)
        PROVE  path' = path \/ (~existed[r] /\ path' = NoFile /\ pc'[r] = "done")
    <2>1. pc' = [pc EXCEPT ![r] = "done"] /\ path' = IF existed[r] THEN path ELSE NoFile
      BY <1>1 DEF Fail
    <2> QED
      BY <2>1 DEF LoadTypes
  <1>2. CASE Open(r)
    BY <1>1, <1>2 DEF Open, Opened
  <1>3. CASE Begin(r) \/ Check(r) \/ Lookup(r) \/ Reset(r) \/ CreateTable(r)
    BY <1>3 DEF Begin, Check, Lookup, Reset, CreateTable
  <1>4. CASE Commit(r) \/ Swap(r) \/ Count(r) \/ Kill(r)
    BY <1>4 DEF Commit, Swap, Count, Kill
  <1>5. CASE ResetFails(r) \/ CreateFails(r) \/ SwapFails(r) \/ SqlError(r)
    BY <1>1, <1>5 DEF ResetFails, CreateFails, SwapFails, SqlError, Opened
  <1> QED
    BY <1>2, <1>3, <1>4, <1>5 DEF RunStep

\* Where a run gets to.
LEMMA RunGoes ==
    ASSUME LoadTypes, NEW r \in Runs, RunStep(r)
    PROVE  /\ pc'[r] = "open" => existed'[r] = (path # NoFile) /\ UNCHANGED <<path, db>>
           /\ pc'[r] \in Opened =>
                \/ pc[r] \in Opened
                \/ /\ pc[r] = "open" /\ handle'[r] = path' /\ UNCHANGED existed
                   /\ path' = IF path = NoFile THEN r ELSE path
           /\ pc'[r] = "count" => \/ Swap(r)
                                  \/ Commit(r) /\ dest[r] = Target
           /\ pc'[r] = "swap" => Commit(r)
           /\ pc'[r] = "done" => rc'[r] = 1 \/ Count(r)
           /\ pc'[r] \notin {"never", "idle"}
           /\ pc'[r] = "check" => pc[r] = "idle"
           /\ pc[r] \in Opened \union {"open"} =>
                pc'[r] \in Opened \union {"done", "killed"}
  <1> USE DEF LoadTypes, Opened
  <1>1. ASSUME NEW tables, Fail(r, tables) PROVE pc'[r] = "done" /\ rc'[r] = 1
    BY <1>1 DEF Fail
  <1>2. CASE Begin(r) \/ Check(r)
    BY <1>2 DEF Begin, Check
  <1>3. CASE Open(r)
    <2>1. CASE ~Fail(r, db)
      <3>1. /\ handle'[r] = path' /\ existed' = existed
            /\ path' = IF path = NoFile THEN r ELSE path
        BY <1>3, <2>1 DEF Open
      <3>2. pc[r] = "open" /\ pc'[r] \in {"lookup", "infer"}
        BY <1>3, <2>1 DEF Open
      <3> QED
        BY <3>1, <3>2
    <2> QED
      BY <1>1, <2>1
  <1>4. CASE Lookup(r)
    BY <1>4 DEF Lookup
  <1>5. CASE Reset(r) \/ CreateTable(r) \/ Kill(r)
    BY <1>5 DEF Reset, CreateTable, Kill
  <1>6. CASE Commit(r) \/ Swap(r) \/ Count(r)
    BY <1>6 DEF Commit, Swap, Count
  <1>7. CASE ResetFails(r) \/ CreateFails(r) \/ SwapFails(r) \/ SqlError(r)
    BY <1>1, <1>7 DEF ResetFails, CreateFails, SwapFails, SqlError
  <1> QED
    BY <1>2, <1>3, <1>4, <1>5, <1>6, <1>7 DEF RunStep

LEMMA UsersStep ==
    ASSUME WorkInv, UsersDatabase, NEW r \in Runs, RunStep(r)
    PROVE  UsersDatabase'
  <1> USE NamesDiffer DEF WorkInv, LoadTypes
  <1>1. path' = UsersFile
    BY PathStep, NamesApart DEF UsersDatabase
  <1>2. ASSUME NEW q \in Runs
        PROVE  /\ pc'[q] \in Opened \union {"open"} => existed'[q]
               /\ pc'[q] \in Opened => handle'[q] = UsersFile
    <2>1. CASE q # r
      BY <2>1, OthersKeep DEF UsersDatabase
    <2>2. CASE q = r
      <3>1. CASE pc'[r] = "open"
        BY <2>2, <3>1, RunGoes, NamesApart DEF UsersDatabase, Opened
      <3>2. CASE pc'[r] \in Opened /\ pc[r] \in Opened
        BY <2>2, <3>2, RunKeeps DEF UsersDatabase, Opened
      <3>3. CASE pc'[r] \in Opened /\ pc[r] \notin Opened
        BY <2>2, <3>3, RunGoes, NamesApart DEF UsersDatabase, Opened
      <3> QED
        BY <2>2, <3>1, <3>2, <3>3
    <2> QED
      BY <2>1, <2>2
  <1>3. ASSUME NEW n \in Names PROVE db'[UsersFile][n] # Partial
    <2>1. pc[r] = "insert" => existed[r]
      BY DEF UsersDatabase, Opened
    <2>2. db'[UsersFile][n] # db[UsersFile][n] => db'[UsersFile][n] # Partial
      BY <2>1, WrittenAs
    <2> QED
      BY <2>2 DEF UsersDatabase
  <1> QED
    BY <1>1, <1>2, <1>3 DEF UsersDatabase

LEMMA OwnStep ==
    ASSUME WorkInv, OwnDatabase, NEW r \in Runs, RunStep(r)
    PROVE  OwnDatabase'
  <1> USE NamesDiffer DEF WorkInv, LoadTypes
  <1>1. pc[r] # "never"
    BY RunKeeps
  <1>2. \A q \in Runs \ {r} : pc[q] = "never" /\ pc'[q] = "never"
    BY <1>1, OthersKeep DEF OwnDatabase
  <1>3. path \in {NoFile, r}
    BY <1>2 DEF OwnDatabase, Opened
  <1>4. pc[r] \notin Opened => path = NoFile
    BY <1>3, RunKeeps, NamesApart DEF OwnDatabase, Opened
  <1>5. /\ pc'[r] \in Opened \union {"open"} => ~existed'[r]
        /\ pc'[r] \in Opened => handle'[r] = r /\ path' = r
    <2>1. CASE pc'[r] = "open"
      <3>1. pc[r] \notin Opened
        BY <2>1, RunGoes DEF Opened
      <3> QED
        BY <2>1, <3>1, <1>4, RunGoes DEF Opened
    <2>2. CASE pc'[r] \in Opened /\ pc[r] \in Opened
      <3>1. UNCHANGED <<existed, handle>>
        BY <2>2, RunKeeps DEF Opened
      <3>2. path' = path
        BY <2>2, PathStep, NamesApart DEF Opened, OwnDatabase
      <3> QED
        BY <2>2, <3>1, <3>2 DEF OwnDatabase, Opened
    <2>3. CASE pc'[r] \in Opened /\ pc[r] \notin Opened
      BY <2>3, <1>4, RunGoes DEF OwnDatabase, Opened
    <2> QED
      BY <2>1, <2>2, <2>3
  <1>6. path' # NoFile => path' = r /\ pc'[r] \in Opened \union {"done", "killed"}
    <2>1. CASE path' = path
      BY <1>3, <1>4, <2>1, RunGoes
    <2>2. CASE Open(r) /\ ~Fail(r, db) /\ path = NoFile /\ path' = r
      BY <2>2, RunGoes DEF Open
    <2> QED
      BY <2>1, <2>2, PathStep
  <1>7. ASSUME NEW q \in Runs, NEW n \in Names, db'[q][n] = Partial
        PROVE  pc'[q] = "killed" \/ (pc'[q] = "done" /\ path' = NoFile)
    <2>1. CASE db[q][n] = Partial
      <3>1. q # r
        <4>1. pc[r] \in Steps \union {"idle"}
          BY RunKeeps
        <4>2. pc[r] # "killed" /\ pc[r] # "done"
          BY <4>1
        <4> QED
          BY <2>1, <4>2 DEF OwnDatabase
      <3> QED
        BY <1>2, <2>1, <3>1 DEF OwnDatabase
    <2>2. CASE db[q][n] # Partial
      <3>1. handle[r] = q /\ pc[r] = "insert" /\ pc'[r] \in {"done", "killed"}
        BY <1>7, <2>2, WrittenAs
      <3>2. q = r
        BY <3>1 DEF OwnDatabase, Opened
      <3>3. pc'[r] = "done" => path' = NoFile
        <4>1. SUFFICES ASSUME pc'[r] = "done" PROVE path' = NoFile
          OBVIOUS
        <4>2. \E tables : Fail(r, tables)
          BY <3>1, <4>1 DEF RunStep, Begin, Check, Open, Lookup, Reset, ResetFails,
             CreateTable, CreateFails, Commit, Swap, SwapFails, Count, SqlError, Kill
        <4> QED
          BY <3>1, <4>2 DEF Fail, OwnDatabase, Opened
      <3> QED
        BY <3>1, <3>2, <3>3
    <2> QED
      BY <2>1, <2>2
  <1>8. \A p, q \in Runs : pc'[p] # "never" /\ pc'[q] # "never" => p = q
    BY <1>2
  <1>9. ASSUME NEW q \in Runs \ {r}
        PROVE  pc'[q] \notin Opened \union {"open"}
    BY <1>2 DEF Opened
  <1> QED
    BY <1>5, <1>6, <1>7, <1>8, <1>9 DEF OwnDatabase

LEMMA StagingGoneStep ==
    ASSUME WorkInv, StagingIsGone, NEW r \in Runs, RunStep(r)
    PROVE  StagingIsGone'
  <1> USE NamesDiffer DEF WorkInv, LoadTypes
  <1>1. ASSUME NEW q \in Runs \ {r}, NEW f \in Files
        PROVE  \/ db'[f][q] = NoTable
               \/ f = handle'[q] /\ pc'[q] \in {"swap", "killed"}
               \/ f = handle'[q] /\ pc'[q] = "done" /\ rc'[q] = 1
    <2>1. db'[f][q] = db[f][q]
      BY WrittenAs
    <2>2. handle'[q] = handle[q] /\ pc'[q] = pc[q] /\ rc'[q] = rc[q]
      BY OthersKeep
    <2> QED
      BY <2>1, <2>2 DEF StagingIsGone
  <1>2. ASSUME NEW f \in Files, db'[f][r] # NoTable
        PROVE  /\ f = handle'[r]
               /\ pc'[r] \in {"swap", "killed"} \/ (pc'[r] = "done" /\ rc'[r] = 1)
    <2>1. CASE db'[f][r] # db[f][r]
      <3>1. handle[r] = f /\ pc[r] = "insert" /\ dest[r] = r
        BY <1>2, <2>1, WrittenAs
      <3>2. handle' = handle
        BY <3>1, RunKeeps
      <3>3. pc'[r] # "done" => pc'[r] \in {"swap", "killed"}
        <4>1. \E t : Writes(r, t)
          BY <2>1, <3>1, DbStep DEF Swap
        <4>2. Commit(r) => pc'[r] = "swap"
          BY <3>1 DEF Commit
        <4> QED
          BY <4>1, <4>2 DEF Writes
      <3> QED
        BY <3>1, <3>2, <3>3, RunGoes DEF Count
    <2>2. CASE db'[f][r] = db[f][r]
      <3>1. pc[r] = "swap" /\ handle[r] = f
        BY <1>2, <2>2, RunKeeps DEF StagingIsGone
      <3>2. handle' = handle
        BY <3>1, RunKeeps
      <3>3. ~Swap(r)
        BY <1>2, <3>1 DEF Swap
      <3>4. CASE \E tables : Fail(r, tables)
        BY <3>1, <3>2, <3>4, FailKeeps, RunGoes DEF Count
      <3>5. CASE \A tables : ~Fail(r, tables)
        <4>1. Kill(r)
          BY <3>1, <3>3, <3>5
             DEF RunStep, Begin, Check, Open, Lookup, Reset, ResetFails, CreateTable,
                 CreateFails, Commit, SwapFails, Count, SqlError
        <4> QED
          BY <3>1, <3>2, <4>1 DEF Kill
      <3> QED
        BY <3>4, <3>5
    <2> QED
      BY <2>1, <2>2
  <1> QED
    BY <1>1, <1>2 DEF StagingIsGone

LEMMA RowsInStep ==
    ASSUME WorkInv, RowsAreIn, NEW r \in Runs, RunStep(r)
    PROVE  RowsAreIn'
  <1> USE NamesDiffer DEF WorkInv, LoadTypes
  <1>1. ASSUME NEW f \in Files, db[f][Target] \in Tables
        PROVE  db'[f][Target] \in Tables
    <2>1. ~(pc[r] = "insert" /\ handle[r] = f /\ dest[r] = Target)
      BY <1>1, KindsApart DEF LockIsHeld
    <2>2. db'[f][Target] # db[f][Target] => db'[f][Target] = Loaded(r)
      BY <2>1, WrittenAs
    <2> QED
      BY <1>1, <2>2, LoadedIsATable
  <1>2. ASSUME NEW q \in Runs \ {r}, pc'[q] = "count"
        PROVE  db'[handle'[q]][Target] \in Tables
    <2>1. pc[q] = "count" /\ handle'[q] = handle[q] /\ handle[q] \in Files
      BY <1>2, OthersKeep DEF RunIsAtWork, Opened
    <2> QED
      BY <1>1, <2>1 DEF RowsAreIn
  <1>3. ASSUME pc'[r] = "count"
        PROVE  db'[handle'[r]][Target] \in Tables
    <2>1. CASE Swap(r)
      <3>1. handle' = handle /\ handle[r] \in Files /\ db[handle[r]][r] = Loaded(r)
        BY <2>1 DEF Swap, RunIsAtWork, StagingIsReady, Opened
      <3> QED
        BY <2>1, <3>1, LoadedIsATable DEF Swap
    <2>2. CASE Commit(r) /\ dest[r] = Target
      <3>1. handle' = handle /\ handle[r] \in Files
        BY <2>2 DEF Commit, RunIsAtWork, Opened
      <3> QED
        BY <2>2, <3>1, LoadedIsATable DEF Commit, Changed
    <2> QED
      BY <1>3, <2>1, <2>2, RunGoes
  <1> QED
    BY <1>2, <1>3 DEF RowsAreIn

LEMMA LoadedStep ==
    ASSUME WorkInv, KeptInv, NEW r \in Runs, RunStep(r)
    PROVE  LoadedStays'
  <1> USE NamesDiffer DEF WorkInv, LoadTypes
  <1>1. ASSUME NEW q \in Runs \ {r}, pc'[q] = "done", rc'[q] = 0
        PROVE  /\ handle'[q] = path'
               /\ db'[path'][Target] \in Tables
               /\ db'[path'][q] = NoTable
    <2>1. /\ pc[q] = "done" /\ rc[q] = 0 /\ handle'[q] = handle[q]
          /\ handle[q] = path /\ db[path][Target] \in Tables /\ db[path][q] = NoTable
      BY <1>1, OthersKeep DEF KeptInv, LoadedStays
    <2>2. UsersDatabase
      BY <1>1, <2>1, RunKeeps DEF KeptInv, OwnDatabase
    <2>3. path' = path /\ path \in Files
      BY <2>2, UsersStep DEF UsersDatabase
    <2>4. db'[path][q] = NoTable
      BY <1>1, <2>1, <2>3, WrittenAs
    <2>5. db'[path][Target] \in Tables
      <3>1. ~(pc[r] = "insert" /\ handle[r] = path /\ dest[r] = Target)
        BY <2>1, KindsApart DEF LockIsHeld
      <3>2. db'[path][Target] # db[path][Target] => db'[path][Target] = Loaded(r)
        BY <2>3, <3>1, WrittenAs
      <3> QED
        BY <2>1, <3>2, LoadedIsATable
    <2> QED
      BY <2>1, <2>3, <2>4, <2>5
  <1>2. ASSUME pc'[r] = "done", rc'[r] = 0
        PROVE  /\ handle'[r] = path'
               /\ db'[path'][Target] \in Tables
               /\ db'[path'][r] = NoTable
    <2>1. Count(r)
      BY <1>2, RunGoes
    <2>2. pc[r] = "count" /\ UNCHANGED <<handle, path, db>>
      BY <2>1 DEF Count
    <2>3. handle[r] = path /\ handle[r] \in Files
      BY <2>2 DEF KeptInv, UsersDatabase, OwnDatabase, RunIsAtWork, Opened
    <2> QED
      BY <2>2, <2>3 DEF KeptInv, RowsAreIn, StagingIsGone
  <1> QED
    BY <1>1, <1>2 DEF LoadedStays

LEMMA KeptStep == WorkInv /\ KeptInv /\ [Next]_vars => KeptInv'
  <1> SUFFICES ASSUME WorkInv, KeptInv, [Next]_vars PROVE KeptInv'
    OBVIOUS
  <1>1. ASSUME NEW r \in Runs, RunStep(r) PROVE KeptInv'
    BY <1>1, UsersStep, OwnStep, StagingGoneStep, RowsInStep, LoadedStep DEF KeptInv
  <1>2. CASE EditCsv \/ UNCHANGED vars
    <2>1. UNCHANGED <<path, db, pc, existed, handle, rc>>
      BY <1>2 DEF EditCsv, vars
    <2>2. (UsersDatabase => UsersDatabase') /\ (OwnDatabase => OwnDatabase')
      BY <2>1 DEF UsersDatabase, OwnDatabase
    <2>3. StagingIsGone' /\ RowsAreIn' /\ LoadedStays'
      BY <2>1 DEF KeptInv, StagingIsGone, RowsAreIn, LoadedStays
    <2> QED
      BY <2>2, <2>3 DEF KeptInv
  <1> QED
    BY <1>1, <1>2 DEF Next

LEMMA KeptCorrect ==
    ASSUME FirstLoads <= 1
    PROVE  Spec => []KeptInv
  <1>1. Init => KeptInv
    BY KeptInit
  <1> QED
    BY <1>1, KeptStep, WorkCorrect, PTL DEF Spec

\* At the destination no load leaves part of a table, unless it made the file itself,
\* without a journal, and was killed (LoadCsvIntoTable, fail). Two first loads at a time
\* are excepted: the second may be loading into the file the first removes.
THEOREM TablesAreWholeCorrect ==
    ASSUME FirstLoads <= 1
    PROVE  Spec => []TablesAreWhole
  <1>1. WorkInv /\ KeptInv => TablesAreWhole
    <2> SUFFICES ASSUME WorkInv, KeptInv, path # NoFile, NEW n \in Names,
                        db[path][n] = Partial
                 PROVE  path \in Runs /\ pc[path] = "killed"
      BY DEF TablesAreWhole
    <2>1. OwnDatabase
      BY DEF KeptInv, UsersDatabase
    <2> QED
      BY <2>1 DEF OwnDatabase
  <1> QED
    BY <1>1, KeptCorrect, WorkCorrect, PTL

\* A load that reported success is at the destination, under its name, and has left
\* nothing behind, whatever another load of the same destination does later
\* (SqlExportCommand::run); two first loads at a time are excepted.
THEOREM LoadedStaysCorrect ==
    ASSUME FirstLoads <= 1
    PROVE  Spec => []LoadedStays
  <1>1. KeptInv => LoadedStays
    BY DEF KeptInv
  <1> QED
    BY <1>1, KeptCorrect, PTL

=============================================================================
