-------------------------- MODULE QueryPanelProofs --------------------------
(***************************************************************************)
(* Proofs of what QueryPanel promises, for any number of edits, visits,    *)
(* runs and queries.  The properties speak of what is shown and of what    *)
(* the file has; the invariant that carries them says where an edit can    *)
(* be, which of the runs under way is the one of this moment, and what     *)
(* such a run knows at each of its stages.                                 *)
(***************************************************************************)
EXTENDS QueryPanel, TLAPS

Edits == 1..made

\* Each edit is in one place on its way to the server.
EditsOnTheirWay ==
    /\ made \in 0..MaxEdits /\ typed \in 0..made
    /\ due \subseteq Edits /\ posted \subseteq Edits /\ due \cap posted = {}
    /\ typed \notin due /\ typed \notin posted
    /\ table \subseteq Edits /\ file \subseteq Edits

\* The shell knows of every edit that the server has been sent.
DirtyTells == ~dirty => posted = {} /\ table = file

Stages == {"settling", "posted", "rows", "refused"}
Run == [gen : Nat, stage : Stages, sql : Texts, rows : SUBSET Edits]

\* At most one run of each turn; the one of the present turn, if there is one,
\* is what the panel waits for.
RunsHaveTurns ==
    /\ generation \in 1..(MaxTurns + 1) /\ input \in Texts
    /\ runs \subseteq Run
    /\ \A r \in runs : r.gen <= generation
    /\ \A r, s \in runs : r.gen = s.gen => r = s
    /\ \A r \in runs : r.gen = generation => active /\ running
    /\ running => \E r \in runs : r.gen = generation

\* The panel holds a result of this visit, or none.
ResultIsHeld ==
    /\ result = NoResult \/ result \in [sql : Texts, rows : SUBSET Edits]
    /\ result # NoResult => resultQuery \in {Empty, result.sql}
    /\ shown <=> active /\ result # NoResult
    /\ active /\ copyable => result # NoResult
    /\ active => typed = 0 /\ generation < MaxTurns + 1

\* Once its edits were in, they stay in for the run of the present turn, and for
\* the result.
RowsAreCurrent ==
    /\ \A r \in runs : r.gen = generation /\ r.stage # "settling" =>
         Settled /\ (r.stage = "rows" /\ ~discarded => r.rows = table)
    /\ shown => Settled /\ (~discarded => result.rows = table)

\* The edits made before the click on Charts are waited for, and then saved or
\* discarded.
ClickIsHonoured ==
    /\ opening \in {"no", "settling", "asking", "saving", "discarding", "open"}
    /\ clicked \subseteq Edits
    /\ opening # "no" => typed \notin clicked
    /\ opening \notin {"no", "settling"} => clicked \cap (due \union posted) = {}
    /\ opening = "open" => clicked \cap table \subseteq file

NotesAreCounted == asked \in Nat /\ pending \in 0..asked

PanelInv ==
    /\ EditsOnTheirWay /\ DirtyTells /\ RunsHaveTurns /\ ResultIsHeld
    /\ RowsAreCurrent /\ ClickIsHonoured /\ NotesAreCounted

USE BoundsAreNumbers DEF editVars, panelVars, noteVars, chartVars

-----------------------------------------------------------------------------
(* Each step keeps the invariant.                                          *)

LEMMA EditsAreBounded == EditsOnTheirWay => Edits \subseteq 1 .. MaxEdits
  BY DEF EditsOnTheirWay, Edits

\* A run that goes on to its next stage stays the only one of its turn.
LEMMA OneRunGoesOn ==
  ASSUME RunsHaveTurns, NEW r \in runs, NEW s \in Run, s.gen = r.gen, Becomes(r, s),
         UNCHANGED <<made, generation, input, active, running>>
  PROVE  RunsHaveTurns'
  <1>1. runs' = (runs \ {r}) \union {s} /\ runs' \subseteq Run'
    BY DEF Becomes, RunsHaveTurns, Run, Edits
  <1>2. \A q \in runs' : q = s \/ (q \in runs /\ q.gen # r.gen)
    BY <1>1 DEF RunsHaveTurns
  <1>3. \A q \in runs' : q.gen <= generation /\ (q.gen = generation => active /\ running)
    BY <1>2 DEF RunsHaveTurns
  <1>4. \A p, q \in runs' : p.gen = q.gen => p = q
    BY <1>2 DEF RunsHaveTurns
  <1>5. running => \E q \in runs' : q.gen = generation
    BY <1>1 DEF RunsHaveTurns
  <1>6. QED BY <1>1, <1>3, <1>4, <1>5 DEF RunsHaveTurns

LEMMA PanelInvNext == ASSUME PanelInv, Next PROVE PanelInv'
<1>1. ASSUME TypeEdit PROVE PanelInv'
  <2>1. EditsOnTheirWay'
    BY <1>1 DEF TypeEdit, Modal, PanelInv, EditsOnTheirWay, Edits
  <2>2. RunsHaveTurns'
    BY <1>1 DEF TypeEdit, Modal, PanelInv, RunsHaveTurns, EditsOnTheirWay, Edits, Stages,
      Texts, Run
  <2>3. ResultIsHeld'
    BY <1>1 DEF TypeEdit, Modal, PanelInv, ResultIsHeld, EditsOnTheirWay, Edits, Texts
  <2>4. ClickIsHonoured'
    BY <1>1 DEF TypeEdit, Modal, PanelInv, ClickIsHonoured, EditsOnTheirWay, Edits
  <2>5. DirtyTells' /\ RowsAreCurrent' /\ NotesAreCounted'
    BY <1>1 DEF TypeEdit, PanelInv, DirtyTells, RowsAreCurrent, NotesAreCounted, Settled
  <2>6. QED BY <2>1, <2>2, <2>3, <2>4, <2>5 DEF PanelInv
<1>2. ASSUME LeaveCell PROVE PanelInv'
  <2>1. EditsOnTheirWay'
    BY <1>2 DEF LeaveCell, StopEditing, PanelInv, EditsOnTheirWay, Edits
  <2>2. ResultIsHeld'
    BY <1>2 DEF LeaveCell, StopEditing, PanelInv, ResultIsHeld, Edits, Texts
  <2>3. RowsAreCurrent'
    BY <1>2 DEF LeaveCell, StopEditing, PanelInv, RowsAreCurrent, RunsHaveTurns, ResultIsHeld,
      Settled, Edits, Stages, Texts, Run
  <2>4. ClickIsHonoured'
    BY <1>2 DEF LeaveCell, StopEditing, PanelInv, ClickIsHonoured, Edits
  <2>5. DirtyTells' /\ RunsHaveTurns' /\ NotesAreCounted'
    BY <1>2 DEF LeaveCell, PanelInv, DirtyTells, RunsHaveTurns, NotesAreCounted, Edits, Stages,
      Texts, Run
  <2>6. QED BY <2>1, <2>2, <2>3, <2>4, <2>5 DEF PanelInv
<1>3. ASSUME PostEdit PROVE PanelInv'
  <2>1. EditsOnTheirWay'
    BY <1>3 DEF PostEdit, PanelInv, EditsOnTheirWay, Edits
  <2>2. DirtyTells'
    BY <1>3 DEF PostEdit, PanelInv, DirtyTells
  <2>3. RowsAreCurrent'
    BY <1>3 DEF PostEdit, PanelInv, RowsAreCurrent, Settled
  <2>4. ClickIsHonoured'
    BY <1>3 DEF PostEdit, PanelInv, ClickIsHonoured, Edits
  <2>5. RunsHaveTurns' /\ ResultIsHeld' /\ NotesAreCounted'
    BY <1>3 DEF PostEdit, PanelInv, RunsHaveTurns, ResultIsHeld, NotesAreCounted, Edits,
      Stages, Texts, Run
  <2>6. QED BY <2>1, <2>2, <2>3, <2>4, <2>5 DEF PanelInv
<1>4. ASSUME EditAnswered PROVE PanelInv'
  <2>1. EditsOnTheirWay'
    BY <1>4 DEF EditAnswered, PanelInv, EditsOnTheirWay, Edits
  <2>2. DirtyTells'
    BY <1>4 DEF EditAnswered, PanelInv, DirtyTells
  <2>3. RowsAreCurrent'
    BY <1>4 DEF EditAnswered, PanelInv, RowsAreCurrent, Settled
  <2>4. ClickIsHonoured'
    BY <1>4 DEF EditAnswered, PanelInv, ClickIsHonoured, Edits
  <2>5. RunsHaveTurns' /\ ResultIsHeld' /\ NotesAreCounted'
    BY <1>4 DEF EditAnswered, PanelInv, RunsHaveTurns, ResultIsHeld, NotesAreCounted, Edits,
      Stages, Texts, Run
  <2>6. QED BY <2>1, <2>2, <2>3, <2>4, <2>5 DEF PanelInv
<1>5. ASSUME EditRefused PROVE PanelInv'
  <2>1. EditsOnTheirWay'
    BY <1>5 DEF EditRefused, PanelInv, EditsOnTheirWay, Edits
  <2>2. DirtyTells'
    BY <1>5 DEF EditRefused, PanelInv, DirtyTells
  <2>3. RunsHaveTurns'
    BY <1>5 DEF EditRefused, PanelInv, RunsHaveTurns, Edits, Stages, Texts, Run
  <2>4. ResultIsHeld'
    <3>1. (active /\ copyable => result # NoResult)'
      <4> UNCHANGED <<active, result>>
        BY <1>5 DEF EditRefused
      <4>1. CASE copyable' = (result # NoResult)
        BY <4>1, Zenon
      <4>2. CASE UNCHANGED copyable
        BY <4>2, Zenon DEF PanelInv, ResultIsHeld
      <4>3. QED BY <1>5, <4>1, <4>2, Zenon DEF EditRefused
    <3>2. (result # NoResult => resultQuery \in {Empty, result.sql})'
      BY <1>5 DEF EditRefused, PanelInv, ResultIsHeld
    <3>3. QED BY <1>5, <3>1, <3>2 DEF EditRefused, Edits, PanelInv, ResultIsHeld
  <2>5. RowsAreCurrent'
    BY <1>5 DEF EditRefused, PanelInv, RowsAreCurrent, Settled
  <2>6. ClickIsHonoured'
    BY <1>5 DEF EditRefused, PanelInv, ClickIsHonoured, Edits
  <2>7. NotesAreCounted'
    BY <1>5 DEF EditRefused, PanelInv, NotesAreCounted
  <2>8. QED BY <2>1, <2>2, <2>3, <2>4, <2>5, <2>6, <2>7 DEF PanelInv
<1>6. ASSUME EnterQuery PROVE PanelInv'
  <2>1. EditsOnTheirWay'
    BY <1>6 DEF EnterQuery, Modal, StopEditing, PanelInv, EditsOnTheirWay, Edits
  <2>2. RunsHaveTurns'
    BY <1>6 DEF EnterQuery, Modal, StopEditing, PanelInv, RunsHaveTurns, Edits, Stages, Texts,
      Run
  <2>3. ResultIsHeld'
    BY <1>6 DEF EnterQuery, Modal, StopEditing, PanelInv, ResultIsHeld, RunsHaveTurns, Edits,
      Texts, Stages, Run
  <2>4. RowsAreCurrent'
    BY <1>6 DEF EnterQuery, Modal, StopEditing, PanelInv, RowsAreCurrent, RunsHaveTurns,
      Settled, Edits, Stages, Texts, Run
  <2>5. ClickIsHonoured'
    BY <1>6 DEF EnterQuery, Modal, StopEditing, PanelInv, ClickIsHonoured, Edits
  <2>6. DirtyTells' /\ NotesAreCounted'
    BY <1>6 DEF EnterQuery, PanelInv, DirtyTells, NotesAreCounted
  <2>7. QED BY <2>1, <2>2, <2>3, <2>4, <2>5, <2>6 DEF PanelInv
<1>7. ASSUME ExitQuery PROVE PanelInv'
  <2>1. RunsHaveTurns'
    BY <1>7 DEF ExitQuery, Modal, PanelInv, RunsHaveTurns, ResultIsHeld, Edits, Stages, Texts,
      Run
  <2>2. ResultIsHeld'
    BY <1>7 DEF ExitQuery, Modal, PanelInv, ResultIsHeld, Edits, Texts
  <2>3. RowsAreCurrent'
    BY <1>7 DEF ExitQuery, Modal, PanelInv, RowsAreCurrent, RunsHaveTurns, Settled, Edits,
      Stages, Texts, Run
  <2>4. EditsOnTheirWay' /\ DirtyTells' /\ ClickIsHonoured' /\ NotesAreCounted'
    BY <1>7 DEF ExitQuery, PanelInv, EditsOnTheirWay, DirtyTells, ClickIsHonoured,
      NotesAreCounted, Edits
  <2>5. QED BY <2>1, <2>2, <2>3, <2>4 DEF PanelInv
<1>8. ASSUME TypeQuery PROVE PanelInv'
  <2>1. RunsHaveTurns'
    BY <1>8 DEF TypeQuery, Modal, PanelInv, RunsHaveTurns, Edits, Stages, Texts, Run
  <2>2. EditsOnTheirWay' /\ DirtyTells' /\ ResultIsHeld' /\ RowsAreCurrent' /\ ClickIsHonoured'
      /\ NotesAreCounted'
    BY <1>8 DEF TypeQuery, PanelInv, EditsOnTheirWay, DirtyTells, ResultIsHeld, RowsAreCurrent,
      ClickIsHonoured, NotesAreCounted, Edits, Texts, Settled
  <2>3. QED BY <2>1, <2>2 DEF PanelInv
<1>9. ASSUME StartRun PROVE PanelInv'
  <2>1. EditsOnTheirWay'
    BY <1>9 DEF StartRun, Modal, StopEditing, PanelInv, EditsOnTheirWay, Edits
  <2>2. RunsHaveTurns'
    <3> DEFINE s == [gen |-> generation + 1, stage |-> "settling", sql |-> Empty, rows |-> {}]
    <3>1. runs' = runs \union {s} /\ generation' = generation + 1 /\ running' /\ active'
      BY <1>9 DEF StartRun
    <3>2. s \in Run /\ s.gen = generation'
      BY <3>1 DEF Run, Stages, Texts, PanelInv, RunsHaveTurns
    <3>3. \A q \in runs : q.gen \in Nat /\ q.gen <= generation
      BY DEF PanelInv, RunsHaveTurns, Run
    <3>4. generation \in Nat /\ generation' \in 1 .. MaxTurns + 1
      BY <1>9, <3>1 DEF StartRun, PanelInv, RunsHaveTurns
    <3> HIDE DEF s
    <3>5. \A q \in runs : q.gen # generation' /\ q.gen <= generation'
      BY <3>1, <3>3, <3>4
    <3>6. Run' = Run /\ input' \in Texts
      BY <1>9 DEF StartRun, Run, Edits, PanelInv, RunsHaveTurns
    <3>7. \A p, q \in runs' : p.gen = q.gen => p = q
      BY <3>1, <3>2, <3>5 DEF PanelInv, RunsHaveTurns
    <3>8. QED BY <3>1, <3>2, <3>4, <3>5, <3>6, <3>7 DEF PanelInv, RunsHaveTurns
  <2>3. ResultIsHeld'
    BY <1>9 DEF StartRun, Modal, StopEditing, PanelInv, ResultIsHeld, RunsHaveTurns, Edits,
      Texts, Stages, Run
  <2>4. RowsAreCurrent'
    BY <1>9 DEF StartRun, Modal, StopEditing, PanelInv, RowsAreCurrent, RunsHaveTurns,
      ResultIsHeld, Settled, Edits, Stages, Texts, Run
  <2>5. ClickIsHonoured'
    BY <1>9 DEF StartRun, Modal, StopEditing, PanelInv, ClickIsHonoured, Edits
  <2>6. DirtyTells' /\ NotesAreCounted'
    BY <1>9 DEF StartRun, PanelInv, DirtyTells, NotesAreCounted
  <2>7. QED BY <2>1, <2>2, <2>3, <2>4, <2>5, <2>6 DEF PanelInv
<1>10. ASSUME NEW r \in runs, PostQuery(r) PROVE PanelInv'
  <2>1. RunsHaveTurns'
    <3>1. CASE r.gen = generation
      <4> DEFINE s == [r EXCEPT !.stage = "posted", !.sql = input]
      <4>1. s \in Run /\ s.gen = r.gen
        BY DEF Run, Stages, PanelInv, RunsHaveTurns
      <4>2. QED BY <1>10, <3>1, <4>1, OneRunGoesOn DEF PostQuery, PanelInv
    <3>2. CASE r.gen # generation
      BY <1>10, <3>2 DEF PostQuery, Edits, Run, PanelInv, RunsHaveTurns
    <3>3. QED BY <3>1, <3>2
  <2>2. RowsAreCurrent'
    <3>1. \A q \in runs' : q \in runs \/ q.stage = "posted"
      BY <1>10 DEF PostQuery, Becomes, Run, PanelInv, RunsHaveTurns
    <3>2. QED BY <1>10, <3>1 DEF PostQuery, Settled, PanelInv, RowsAreCurrent
  <2>3. EditsOnTheirWay' /\ DirtyTells' /\ ResultIsHeld' /\ ClickIsHonoured' /\ NotesAreCounted'
    BY <1>10 DEF PostQuery, PanelInv, EditsOnTheirWay, DirtyTells, ResultIsHeld,
      ClickIsHonoured, NotesAreCounted, Edits, Texts
  <2>4. QED BY <2>1, <2>2, <2>3 DEF PanelInv
<1>11. ASSUME NEW r \in runs, Execute(r) PROVE PanelInv'
  <2>1. RunsHaveTurns'
    <3>1. PICK s \in BuildSqlQueryResult(r) : Becomes(r, s)
      BY <1>11 DEF Execute
    <3>2. s \in Run /\ s.gen = r.gen
      BY <3>1 DEF BuildSqlQueryResult, LoadViewerDataIntoSqlite, Run, Stages, Edits, PanelInv,
        RunsHaveTurns, EditsOnTheirWay
    <3>3. QED BY <1>11, <3>1, <3>2, OneRunGoesOn DEF Execute, PanelInv
  <2>2. RowsAreCurrent'
    <3>1. \A q \in runs' : q \in runs \/ (q.gen = r.gen /\ q.stage \in {"rows", "refused"}
                                        /\ (q.stage = "rows" => q.rows = table))
      BY <1>11 DEF Execute, Becomes, BuildSqlQueryResult, LoadViewerDataIntoSqlite, Run,
        PanelInv, RunsHaveTurns
    <3>2. QED BY <1>11, <3>1 DEF Execute, Settled, PanelInv, RowsAreCurrent
  <2>3. EditsOnTheirWay' /\ DirtyTells' /\ ResultIsHeld' /\ ClickIsHonoured' /\ NotesAreCounted'
    BY <1>11 DEF Execute, PanelInv, EditsOnTheirWay, DirtyTells, ResultIsHeld, ClickIsHonoured,
      NotesAreCounted, Edits, Texts
  <2>4. QED BY <2>1, <2>2, <2>3 DEF PanelInv
<1>12. ASSUME NEW r \in runs, TakeRows(r) PROVE PanelInv'
  <2>1. RunsHaveTurns'
    BY <1>12 DEF TakeRows, PanelInv, RunsHaveTurns, Edits, Stages, Texts, Run
  <2>2. ResultIsHeld'
    <3>1. CASE r.gen = generation
      <4>1. result' = [sql |-> r.sql, rows |-> r.rows] /\ resultQuery' = result'.sql
        BY <1>12, <3>1 DEF TakeRows
      <4>2. result' \in [sql : Texts, rows : SUBSET Edits]
        BY <4>1 DEF PanelInv, RunsHaveTurns, Run
      <4>3. result' # NoResult
        BY <4>2, ResultsAreApart, EditsAreBounded DEF PanelInv
      <4>4. active /\ shown'
        BY <1>12, <3>1 DEF TakeRows, PanelInv, RunsHaveTurns
      <4>5. QED BY <1>12, <4>1, <4>2, <4>3, <4>4 DEF TakeRows, Edits, PanelInv, ResultIsHeld
    <3>2. CASE r.gen # generation
      BY <1>12, <3>2 DEF TakeRows, Edits, PanelInv, ResultIsHeld
    <3>3. QED BY <3>1, <3>2
  <2>3. RowsAreCurrent'
    BY <1>12 DEF TakeRows, PanelInv, RowsAreCurrent, Settled
  <2>4. EditsOnTheirWay' /\ DirtyTells' /\ ClickIsHonoured' /\ NotesAreCounted'
    BY <1>12 DEF TakeRows, PanelInv, EditsOnTheirWay, DirtyTells, ClickIsHonoured,
      NotesAreCounted, Edits
  <2>5. QED BY <2>1, <2>2, <2>3, <2>4 DEF PanelInv
<1>13. ASSUME NEW r \in runs, TakeError(r) PROVE PanelInv'
  <2>1. RunsHaveTurns'
    BY <1>13 DEF TakeError, PanelInv, RunsHaveTurns, Edits, Stages, Texts, Run
  <2>2. ResultIsHeld'
    <3>1. (active /\ copyable => result # NoResult)'
      <4>1. CASE r.gen = generation
        BY <1>13, <4>1, Zenon DEF TakeError
      <4>2. CASE r.gen # generation
        BY <1>13, <4>2, Zenon DEF TakeError, PanelInv, ResultIsHeld
      <4>3. QED BY <4>1, <4>2
    <3>2. (result # NoResult => resultQuery \in {Empty, result.sql})'
      BY <1>13 DEF TakeError, PanelInv, ResultIsHeld
    <3>3. QED BY <1>13, <3>1, <3>2 DEF TakeError, Edits, PanelInv, ResultIsHeld
  <2>3. RowsAreCurrent'
    BY <1>13 DEF TakeError, PanelInv, RowsAreCurrent, Settled
  <2>4. EditsOnTheirWay' /\ DirtyTells' /\ ClickIsHonoured' /\ NotesAreCounted'
    BY <1>13 DEF TakeError, PanelInv, EditsOnTheirWay, DirtyTells, ClickIsHonoured,
      NotesAreCounted, Edits
  <2>5. QED BY <2>1, <2>2, <2>3, <2>4 DEF PanelInv
<1>14. ASSUME TakeCapability PROVE PanelInv'
  <2>1. EditsOnTheirWay' /\ DirtyTells' /\ RunsHaveTurns' /\ ResultIsHeld' /\ RowsAreCurrent'
      /\ ClickIsHonoured' /\ NotesAreCounted'
    BY <1>14 DEF TakeCapability, PanelInv, EditsOnTheirWay, DirtyTells, RunsHaveTurns,
      ResultIsHeld, RowsAreCurrent, ClickIsHonoured, NotesAreCounted, Edits, Stages, Texts,
      Run, Settled
  <2>2. QED BY <2>1 DEF PanelInv
<1>15. ASSUME Insert PROVE PanelInv'
  <2>1. NotesAreCounted'
    BY <1>15 DEF Insert, Modal, Exportable, PanelInv, NotesAreCounted
  <2>2. EditsOnTheirWay' /\ DirtyTells' /\ RunsHaveTurns' /\ ResultIsHeld' /\ RowsAreCurrent'
      /\ ClickIsHonoured'
    BY <1>15 DEF Insert, PanelInv, EditsOnTheirWay, DirtyTells, RunsHaveTurns, ResultIsHeld,
      RowsAreCurrent, ClickIsHonoured, Edits, Stages, Texts, Run, Settled
  <2>3. QED BY <2>1, <2>2 DEF PanelInv
<1>16. ASSUME InsertAnswered PROVE PanelInv'
  <2>1. NotesAreCounted'
    BY <1>16 DEF InsertAnswered, PanelInv, NotesAreCounted
  <2>2. EditsOnTheirWay' /\ DirtyTells' /\ RunsHaveTurns' /\ ResultIsHeld' /\ RowsAreCurrent'
      /\ ClickIsHonoured'
    BY <1>16 DEF InsertAnswered, PanelInv, EditsOnTheirWay, DirtyTells, RunsHaveTurns,
      ResultIsHeld, RowsAreCurrent, ClickIsHonoured, Edits, Stages, Texts, Run, Settled
  <2>3. QED BY <2>1, <2>2 DEF PanelInv
<1>17. ASSUME ClickCharts PROVE PanelInv'
  <2>1. EditsOnTheirWay'
    BY <1>17 DEF ClickCharts, StopEditing, PanelInv, EditsOnTheirWay, Edits
  <2>2. ResultIsHeld'
    BY <1>17 DEF ClickCharts, StopEditing, PanelInv, ResultIsHeld, Edits, Texts
  <2>3. RowsAreCurrent'
    BY <1>17 DEF ClickCharts, StopEditing, PanelInv, RowsAreCurrent, RunsHaveTurns,
      ResultIsHeld, Settled, Edits, Stages, Texts, Run
  <2>4. ClickIsHonoured'
    BY <1>17 DEF ClickCharts, StopEditing, PanelInv, ClickIsHonoured, Edits
  <2>5. DirtyTells' /\ RunsHaveTurns' /\ NotesAreCounted'
    BY <1>17 DEF ClickCharts, PanelInv, DirtyTells, RunsHaveTurns, NotesAreCounted, Edits,
      Stages, Texts, Run
  <2>6. QED BY <2>1, <2>2, <2>3, <2>4, <2>5 DEF PanelInv
<1>18. ASSUME ChartsSettled PROVE PanelInv'
  <2>1. ClickIsHonoured'
    BY <1>18 DEF ChartsSettled, Settled, PanelInv, ClickIsHonoured, DirtyTells, Edits
  <2>2. EditsOnTheirWay' /\ DirtyTells' /\ RunsHaveTurns' /\ ResultIsHeld' /\ RowsAreCurrent'
      /\ NotesAreCounted'
    BY <1>18 DEF ChartsSettled, PanelInv, EditsOnTheirWay, DirtyTells, RunsHaveTurns,
      ResultIsHeld, RowsAreCurrent, NotesAreCounted, Edits, Stages, Texts, Run, Settled
  <2>3. QED BY <2>1, <2>2 DEF PanelInv
<1>19. ASSUME Choose PROVE PanelInv'
  <2>1. EditsOnTheirWay'
    <3>1. CASE StopEditing
      BY <1>19, <3>1 DEF Choose, StopEditing, PanelInv, EditsOnTheirWay, Edits
    <3>2. CASE UNCHANGED <<typed, due>>
      BY <1>19, <3>2 DEF Choose, PanelInv, EditsOnTheirWay, Edits
    <3>3. QED BY <1>19, <3>1, <3>2 DEF Choose
  <2>2. ResultIsHeld'
    BY <1>19 DEF Choose, StopEditing, PanelInv, ResultIsHeld, Edits, Texts
  <2>3. RowsAreCurrent'
    <3>1. CASE StopEditing
      BY <1>19, <3>1 DEF Choose, StopEditing, Settled, PanelInv, EditsOnTheirWay,
        RunsHaveTurns, ResultIsHeld, RowsAreCurrent
    <3>2. CASE UNCHANGED <<typed, due>>
      BY <1>19, <3>2 DEF Choose, Settled, PanelInv, RowsAreCurrent
    <3>3. QED BY <1>19, <3>1, <3>2 DEF Choose
  <2>4. ClickIsHonoured'
    <3>1. CASE opening' \in {"saving", "discarding"} /\ StopEditing
      BY <1>19, <3>1 DEF Choose, StopEditing, Edits, PanelInv, EditsOnTheirWay, ClickIsHonoured
    <3>2. CASE opening' = "no" /\ UNCHANGED <<typed, due>>
      BY <1>19, <3>2 DEF Choose, Edits, PanelInv, ClickIsHonoured
    <3>3. QED BY <1>19, <3>1, <3>2 DEF Choose
  <2>5. DirtyTells' /\ RunsHaveTurns' /\ NotesAreCounted'
    BY <1>19 DEF Choose, PanelInv, DirtyTells, RunsHaveTurns, NotesAreCounted, Edits, Stages,
      Texts, Run
  <2>6. QED BY <2>1, <2>2, <2>3, <2>4, <2>5 DEF PanelInv
<1>20. ASSUME Proceed PROVE PanelInv'
  <2>1. EditsOnTheirWay'
    <3>1. table' \in {table, file} /\ file' \in {table, file}
      BY <1>20 DEF Proceed
    <3>2. QED BY <1>20, <3>1 DEF Proceed, PanelInv, EditsOnTheirWay, Edits
  <2>2. DirtyTells'
    BY <1>20 DEF Proceed, Settled, PanelInv, DirtyTells
  <2>3. RowsAreCurrent'
    BY <1>20 DEF Proceed, Settled, PanelInv, RowsAreCurrent
  <2>4. ClickIsHonoured'
    BY <1>20 DEF Proceed, Settled, PanelInv, ClickIsHonoured, Edits
  <2>5. RunsHaveTurns' /\ ResultIsHeld' /\ NotesAreCounted'
    BY <1>20 DEF Proceed, PanelInv, RunsHaveTurns, ResultIsHeld, NotesAreCounted, Edits,
      Stages, Texts, Run
  <2>6. QED BY <2>1, <2>2, <2>3, <2>4, <2>5 DEF PanelInv
<1>21. ASSUME CloseCharts PROVE PanelInv'
  <2>1. ClickIsHonoured'
    BY <1>21 DEF CloseCharts, PanelInv, ClickIsHonoured, Edits
  <2>2. EditsOnTheirWay' /\ DirtyTells' /\ RunsHaveTurns' /\ ResultIsHeld' /\ RowsAreCurrent'
      /\ NotesAreCounted'
    BY <1>21 DEF CloseCharts, PanelInv, EditsOnTheirWay, DirtyTells, RunsHaveTurns,
      ResultIsHeld, RowsAreCurrent, NotesAreCounted, Edits, Stages, Texts, Run, Settled
  <2>3. QED BY <2>1, <2>2 DEF PanelInv
<1>22. QED
  BY <1>1, <1>2, <1>3, <1>4, <1>5, <1>6, <1>7, <1>8, <1>9, <1>10, <1>11, <1>12, <1>13, <1>14,
    <1>15, <1>16, <1>17, <1>18, <1>19, <1>20, <1>21 DEF Next, RunStep

LEMMA PanelInvInit == Init => PanelInv
  BY DEF Init, PanelInv, Edits, EditsOnTheirWay, DirtyTells, RunsHaveTurns, Stages, Texts, Run,
    ResultIsHeld, RowsAreCurrent, ClickIsHonoured, NotesAreCounted, Settled

LEMMA PanelInvHolds == Spec => []PanelInv
<1>1. ASSUME PanelInv, UNCHANGED vars PROVE PanelInv'
  <2>1. UNCHANGED <<made, typed, due, posted, table, file, dirty>>
      /\ UNCHANGED <<active, generation, running, input, result, resultQuery, shown, copyable, runs>>
      /\ UNCHANGED <<enabled, pending, note, asked>>
      /\ UNCHANGED <<opening, opens, clicked, discarded>>
    BY <1>1 DEF vars
  <2>2. QED
    BY <1>1, <2>1 DEF PanelInv, Edits, EditsOnTheirWay, DirtyTells, RunsHaveTurns, Stages,
      Texts, Run, ResultIsHeld, RowsAreCurrent, ClickIsHonoured, NotesAreCounted, Settled
<1>2. QED BY <1>1, PanelInvInit, PanelInvNext, PTL DEF Spec

-----------------------------------------------------------------------------
(* What the panel promises.                                                *)

\* Every variable has its type, each edit is in one place, and a panel that waits has a run
\* of this visit.
THEOREM PanelTypesCorrect == Spec => []QueryTypeOK
<1>1. ASSUME PanelInv PROVE QueryTypeOK
  <2>1. /\ made \in 0 .. MaxEdits /\ typed \in 0 .. made
        /\ due \subseteq 1 .. made /\ posted \subseteq 1 .. made /\ due \cap posted = {}
        /\ table \subseteq 1 .. made /\ file \subseteq 1 .. made
        /\ (~dirty /\ posted = {} => table = file)
    BY <1>1 DEF PanelInv, EditsOnTheirWay, DirtyTells, Edits
  <2>2. generation \in 1 .. (MaxTurns + 1) /\ (running => \E r \in runs : r.gen = generation)
    BY <1>1 DEF PanelInv, RunsHaveTurns
  <2>3. /\ result = NoResult \/ result \in [sql : Texts, rows : SUBSET (1 .. made)]
        /\ shown => result # NoResult
        /\ active /\ copyable => shown
    BY <1>1, Zenon DEF PanelInv, ResultIsHeld, Edits
  <2>4. pending \in 0 .. asked
        /\ opening \in {"no", "settling", "asking", "saving", "discarding", "open"}
    BY <1>1 DEF PanelInv, NotesAreCounted, ClickIsHonoured
  <2>5. QED BY <2>1, <2>2, <2>3, <2>4, Zenon DEF QueryTypeOK
<1>2. QED BY <1>1, PanelInvHolds, PTL

\* The rows in the result grid are those of the table with every edit made so far, whatever
\* the panel was left and entered for, and however late the server answered.
THEOREM ResultsSeeEveryEditCorrect == Spec => []ResultsSeeEveryEdit
<1>1. PanelInv => ResultsSeeEveryEdit
  BY DEF PanelInv, ResultIsHeld, RowsAreCurrent, ResultsSeeEveryEdit
<1>2. QED BY <1>1, PanelInvHolds, PTL

\* While the charts dialog is open, every edit made before the click that opened it is in the
\* file, or was discarded.
THEOREM ChartsSeeTheFileCorrect == Spec => []ChartsSeeTheFile
<1>1. PanelInv => ChartsSeeTheFile
  BY DEF PanelInv, EditsOnTheirWay, ClickIsHonoured, ChartsSeeTheFile, Edits
<1>2. QED BY <1>1, PanelInvHolds, PTL

\* A note that runs the query over the file shows the rows the user saw: Insert exports the
\* text whose rows are shown, and says whether the file lags behind them.
THEOREM NoteShowsTheResultCorrect == Spec => NoteShowsTheResult
<1>1. ASSUME PanelInv, Insert PROVE NoteIsOfTheResult
  <2>1. /\ active /\ result # NoResult /\ input = resultQuery /\ resultQuery # Empty
        /\ note' = [sql |-> resultQuery, save |-> dirty]
    BY <1>1 DEF Insert, Exportable
  <2>2. resultQuery = result.sql
    BY <1>1, <2>1 DEF PanelInv, ResultIsHeld
  <2>3. ~discarded => result.rows = table
    BY <1>1, <2>1 DEF PanelInv, ResultIsHeld, RowsAreCurrent
  <2>4. dirty \/ table = file
    BY <1>1 DEF PanelInv, DirtyTells
  <2>5. QED BY <2>1, <2>2, <2>3, <2>4 DEF NoteIsOfTheResult
<1>2. ASSUME InsertAnswered PROVE NoteIsOfTheResult
  BY <1>2 DEF InsertAnswered, NoteIsOfTheResult
<1>3. ASSUME note' = note PROVE NoteIsOfTheResult
  BY <1>3 DEF NoteIsOfTheResult
<1>4. ASSUME Next, ~Insert, ~InsertAnswered PROVE note' = note
  BY <1>4 DEF Next, RunStep, TypeEdit, LeaveCell, PostEdit, EditAnswered, EditRefused,
    EnterQuery, ExitQuery, TypeQuery, StartRun, PostQuery, Execute, TakeRows, TakeError,
    TakeCapability, ClickCharts, ChartsSettled, Choose, Proceed, CloseCharts
<1>5. ASSUME UNCHANGED vars PROVE note' = note
  BY <1>5 DEF vars
<1>6. ASSUME PanelInv, [Next]_vars PROVE [NoteIsOfTheResult]_vars
  BY <1>1, <1>2, <1>3, <1>4, <1>5, <1>6
<1>7. QED BY <1>6, PanelInvHolds, PTL DEF Spec, NoteShowsTheResult

=============================================================================
