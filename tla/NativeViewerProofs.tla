------------------------- MODULE NativeViewerProofs -------------------------
(***************************************************************************)
(* The native viewer's invariants, for every file, any number of mutations *)
(* and pages under way, and any order in which they are served and taken.  *)
(***************************************************************************)
EXTENDS NativeViewer, SequenceTheorems, FiniteSetTheorems, WellFoundedInduction, TLAPS

Ops == {"editCell", "swapRows"} \union RowOps \union ColumnOps
Call == [id : Nat, op : Ops, phase : {"sent", "done", "told", "refused"}, at : Nat \ {0}, with : Nat,
         width : Nat, row : Nat, col : Name \union {NoPage}, name : Name \union {NoPage},
         cols : Seq(Name), count : Nat]
Read == [id : 1..MaxReads, alive : BOOLEAN, answer : Table \union {NoPage}]

Types ==
    /\ file \in Table /\ table \in Table
    /\ calls \subseteq Call /\ reads \subseteq Read
    /\ shown \in Seq(Name) /\ order \in Seq(Name) /\ current \in Seq(Name)
    /\ page \in Table \union {NoPage} /\ count \in Nat
    /\ dirty \in BOOLEAN /\ dataDirty \in BOOLEAN /\ unchanged \in BOOLEAN /\ loading \in BOOLEAN
    /\ strayed \in BOOLEAN /\ replaced \in BOOLEAN
    /\ saving \in {"no", "settling", "sent", "done", "told", "refused"}
    /\ resetting \in {"no", "settling", "asked"}
    /\ payload \in Seq(Name) /\ (saving = "told" => told \in Seq(Name) \X Nat)
    /\ made \in Nat /\ resets \in Nat /\ overlapped \subseteq {"calls", "save"}

\* Names of columns differ, rows and edits are those there have been so far, and
\* an edit that the server has not taken is not in a table.
TablesFit ==
    \A t \in {file, table} :
        /\ \A i \in DOMAIN t.rows : t.rows[i] \in 1..(Rows + made)
        /\ IsInjective(t.cols)
        /\ \A e \in t.edits : e[2] \in 1..made
        /\ \A e \in t.edits, c \in calls : c.phase \in {"sent", "refused"} => e[2] # c.id

\* What a call has to name, and what each answer is the answer to.
CallsFit ==
    /\ \A c, d \in calls : c.id = d.id => c = d
    /\ \A c \in calls :
         /\ c.id \in 1..made
         /\ c.op \in {"insertColumn", "renameColumn"} => c.name \in Name
         /\ c.row # 0 => c.op \in {"editCell", "swapRows", "deleteRow"}
         /\ c.phase = "told" => c.op \in RowOps \union ColumnOps

\* One block is being fetched for an empty grid, and none for a full one.
ReadsFit ==
    /\ \A q, r \in reads : q.id = r.id \/ (q.alive /\ r.alive) => q = r
    /\ page # NoPage => \A r \in reads : ~r.alive

\* What may be in the grid, now or when its block arrives.
Pages == {p \in {page} \union {r.answer : r \in {q \in reads : q.alive}} : p # NoPage}

Answered(c) == c.phase \in {"done", "told"}

\* A call that has changed the server's rows empties the grid when it is taken.
RowsAreCurrent ==
    (\A c \in calls : Answered(c) => c.op \notin {"swapRows", "reset"} \union RowOps) =>
        \A p \in Pages : p.rows = table.rows

\* The row that was clicked is where the call says, while no other call is made.
CallsHit ==
    "calls" \notin overlapped =>
        /\ \A c, d \in calls : c = d
        /\ \A c \in calls :
             /\ c.op = "editCell" => c.row # 0
             /\ c.phase = "sent" /\ c.row # 0 /\ c.at \in DOMAIN table.rows => table.rows[c.at] = c.row

\* A save waits for the mutations before it, and a reset for the save.
SavesWait ==
    "save" \notin overlapped =>
        /\ saving \in {"sent", "done", "told", "refused"} => calls = {} /\ unchanged
        /\ \A c \in calls : c.op = "reset" => calls = {c} /\ saving = "no" /\ loading

\* The server's table is the file's when the page believes so, or will.
DirtyTells ==
    /\ dataDirty => dirty
    /\ replaced => saving \in {"done", "told"}
    /\ "save" \notin overlapped =>
         /\ calls # {} => dataDirty
         /\ ~dataDirty \/ saving \in {"done", "told"} => table = file
         /\ \A c \in calls : c.op = "reset" /\ Answered(c) => table = file

\* The page's columns are the server's, but for an answer that is not taken yet.
ColumnsFit ==
    overlapped = {} =>
        /\ shown = current /\ Len(order) = Len(shown) /\ Range(order) = Range(shown)
        /\ ~dirty => order = shown
        /\ \A c \in calls : c.phase = "told" => c.cols = table.cols
        /\ saving = "told" => told[1] = table.cols
        /\ (\A c \in calls : Answered(c) => c.op \notin ColumnOps) /\ saving \notin {"done", "told"} =>
             shown = table.cols
        /\ saving \in {"sent", "done", "told"} =>
             IF payload = <<>> THEN order = shown ELSE payload = order
        /\ saving \in {"done", "told"} => table.cols = IF payload = <<>> THEN shown ELSE payload

Unanswered == {c \in calls : c.op = "editCell" /\ ~Answered(c)}

\* So are its texts, and an edit is in the grid before it is in the table.
TextsFit ==
    overlapped = {} =>
        /\ Unanswered # {} => page # NoPage
        /\ (\A c \in calls : Answered(c) => c.op = "editCell") /\ saving \notin {"done", "told"} =>
             \A p \in Pages :
                 /\ p.cols = table.cols
                 /\ p.edits = table.edits \union {<<c.row, c.id>> : c \in Unanswered}

IInv ==
    /\ Types /\ TablesFit /\ CallsFit /\ ReadsFit /\ RowsAreCurrent /\ CallsHit
    /\ SavesWait /\ DirtyTells /\ ColumnsFit /\ TextsFit
    /\ strayed => "calls" \in overlapped
-----------------------------------------------------------------------------
(* Sequences.                                                              *)

\* Inserting an item shifts those from its position on by one.
LEMMA InsertAtFits ==
    ASSUME NEW S, NEW s \in Seq(S), NEW i \in 1 .. Len(s) + 1, NEW e \in S
    PROVE  /\ InsertAt(s, i, e) \in Seq(S) /\ Len(InsertAt(s, i, e)) = Len(s) + 1
           /\ DOMAIN InsertAt(s, i, e) = 1 .. Len(s) + 1
           /\ \A j \in 1 .. Len(s) + 1 :
                InsertAt(s, i, e)[j] = IF j < i THEN s[j] ELSE IF j = i THEN e ELSE s[j - 1]
  <1> DEFINE a == SubSeq(s, 1, i - 1)
             b == SubSeq(s, i, Len(s))
             m == <<e>>
  <1>1. Len(s) \in Nat /\ i \in Nat /\ DOMAIN s = 1 .. Len(s) /\ \A j \in 1 .. Len(s) : s[j] \in S
    BY LenProperties, ElementOfSeq
  <1>2. /\ a \in Seq(S) /\ Len(a) = i - 1
        /\ \A j \in 1 .. i - 1 : a[j] = s[j]
    BY <1>1, SubSeqProperties
  <1>3. /\ b \in Seq(S) /\ Len(b) = Len(s) - i + 1
        /\ \A j \in 1 .. Len(s) - i + 1 : b[j] = s[i + j - 1]
    BY <1>1, SubSeqProperties
  <1>4. m \in Seq(S) /\ Len(m) = 1 /\ m[1] = e
    OBVIOUS
  <1>5. InsertAt(s, i, e) = (a \o m) \o b
    BY DEF InsertAt
  <1> HIDE DEF a, b, m
  <1> DEFINE c == a \o m
  <1>6. /\ c \in Seq(S) /\ Len(c) = i
        /\ \A j \in 1 .. i : c[j] = IF j <= i - 1 THEN a[j] ELSE m[j - (i - 1)]
    <2>1. /\ c \in Seq(S) /\ Len(c) = Len(a) + Len(m)
          /\ \A j \in 1 .. Len(a) + Len(m) : c[j] = IF j <= Len(a) THEN a[j] ELSE m[j - Len(a)]
      BY <1>2, <1>4, ConcatProperties
    <2>2. Len(a) + Len(m) = i
      BY <1>1, <1>2, <1>4
    <2> QED
      BY <1>2, <2>1, <2>2
  <1> HIDE DEF c
  <1>7. /\ c \o b \in Seq(S) /\ Len(c \o b) = Len(s) + 1
        /\ \A j \in 1 .. Len(s) + 1 : (c \o b)[j] = IF j <= i THEN c[j] ELSE b[j - i]
    <2>1. /\ c \o b \in Seq(S) /\ Len(c \o b) = Len(c) + Len(b)
          /\ \A j \in 1 .. Len(c) + Len(b) :
                (c \o b)[j] = IF j <= Len(c) THEN c[j] ELSE b[j - Len(c)]
      <3>1. c \in Seq(S) /\ b \in Seq(S)
        BY <1>3, <1>6
      <3> QED
        BY <3>1, ConcatProperties
    <2>2. Len(c) + Len(b) = Len(s) + 1
      BY <1>1, <1>3, <1>6
    <2> QED
      BY <1>6, <2>1, <2>2
  <1>8. InsertAt(s, i, e) = c \o b
    BY <1>5 DEF c
  <1> DEFINE t == c \o b
  <1>9. DOMAIN t = 1 .. Len(t)
    BY <1>7, LenProperties
  <1> HIDE DEF t
  <1>10. ASSUME NEW j \in 1 .. Len(s) + 1
         PROVE  t[j] = IF j < i THEN s[j] ELSE IF j = i THEN e ELSE s[j - 1]
    <2>1. CASE j < i
      BY <1>1, <1>2, <1>6, <1>7, <2>1 DEF t
    <2>2. CASE j = i
      BY <1>1, <1>4, <1>6, <1>7, <2>2 DEF t
    <2>3. CASE j > i
      <3>1. t[j] = b[j - i] /\ j - i \in 1 .. Len(s) - i + 1
        BY <1>1, <1>7, <2>3 DEF t
      <3>2. b[j - i] = s[i + (j - i) - 1]
        BY <1>3, <3>1
      <3>3. i + (j - i) - 1 = j - 1
        BY <1>1
      <3> QED
        BY <1>1, <2>3, <3>1, <3>2, <3>3
    <2> QED
      BY <1>1, <2>1, <2>2, <2>3
  <1> QED
    BY <1>7, <1>8, <1>9, <1>10 DEF t

\* Removing an item shifts those behind it back by one.
LEMMA RemoveAtFits ==
    ASSUME NEW S, NEW s \in Seq(S), NEW i \in 1 .. Len(s)
    PROVE  /\ RemoveAt(s, i) \in Seq(S) /\ Len(RemoveAt(s, i)) = Len(s) - 1
           /\ DOMAIN RemoveAt(s, i) = 1 .. Len(s) - 1
           /\ \A j \in 1 .. Len(s) - 1 :
                RemoveAt(s, i)[j] = IF j < i THEN s[j] ELSE s[j + 1]
  <1> DEFINE a == SubSeq(s, 1, i - 1)
             b == SubSeq(s, i + 1, Len(s))
             t == a \o b
  <1>1. Len(s) \in Nat /\ i \in Nat /\ \A j \in 1 .. Len(s) : s[j] \in S
    BY LenProperties, ElementOfSeq
  <1>2. /\ a \in Seq(S) /\ Len(a) = i - 1
        /\ \A j \in 1 .. i - 1 : a[j] = s[j]
    BY <1>1, SubSeqProperties
  <1>3. /\ b \in Seq(S) /\ Len(b) = Len(s) - i
        /\ \A j \in 1 .. Len(s) - i : b[j] = s[i + 1 + j - 1]
    BY <1>1, SubSeqProperties
  <1>4. RemoveAt(s, i) = t
    BY DEF RemoveAt
  <1> HIDE DEF a, b
  <1>5. /\ t \in Seq(S) /\ Len(t) = Len(s) - 1
        /\ \A j \in 1 .. Len(s) - 1 : t[j] = IF j <= i - 1 THEN a[j] ELSE b[j - (i - 1)]
    <2>1. /\ t \in Seq(S) /\ Len(t) = Len(a) + Len(b)
          /\ \A j \in 1 .. Len(a) + Len(b) : t[j] = IF j <= Len(a) THEN a[j] ELSE b[j - Len(a)]
      <3>1. a \in Seq(S) /\ b \in Seq(S)
        BY <1>2, <1>3
      <3> QED
        BY <3>1, ConcatProperties
    <2>2. Len(a) + Len(b) = Len(s) - 1
      BY <1>1, <1>2, <1>3
    <2> HIDE DEF t
    <2> QED
      BY <1>2, <2>1, <2>2
  <1> HIDE DEF t
  <1>6. DOMAIN t = 1 .. Len(t)
    BY <1>5, LenProperties
  <1>7. ASSUME NEW j \in 1 .. Len(s) - 1
        PROVE  t[j] = IF j < i THEN s[j] ELSE s[j + 1]
    <2>1. CASE j < i
      BY <1>1, <1>2, <1>5, <2>1
    <2>2. CASE ~(j < i)
      <3>1. t[j] = b[j - (i - 1)] /\ j - (i - 1) \in 1 .. Len(s) - i
        BY <1>1, <1>5, <2>2
      <3>2. b[j - (i - 1)] = s[i + 1 + (j - (i - 1)) - 1]
        BY <1>3, <3>1
      <3>3. i + 1 + (j - (i - 1)) - 1 = j + 1
        BY <1>1
      <3> QED
        BY <2>2, <3>1, <3>2, <3>3
    <2> QED
      BY <2>1, <2>2
  <1> QED
    BY <1>4, <1>5, <1>6, <1>7

-----------------------------------------------------------------------------
(* What the server makes of the table.                                     *)

LEMMA ValuesDiffer ==
    /\ NoPage \notin Table /\ Columns \in Seq(Name) /\ IsInjective(Columns)
    /\ Rows \in Nat /\ MaxSteps \in Nat /\ MaxReads \in Nat /\ MaxResets \in Nat
  BY NativeViewerAssumption

\* Every call that is answered with success leaves a table whose rows have been
\* made and whose columns differ, and which only an edit, a mutation of rows, one
\* of columns or a reset has changed.
LEMMA OutcomeFits ==
    ASSUME Types, TablesFit, CallsFit, NEW c \in calls, NEW after \in Outcomes(c), NEW t \in after
    PROVE  /\ t \in Table /\ IsInjective(t.cols)
           /\ \A i \in DOMAIN t.rows : t.rows[i] \in 1..(Rows + made)
           /\ c.op \in {"editCell", "deleteRow", "swapRows"} => c.at \in DOMAIN table.rows
           /\ c.op = "editCell" =>
                /\ t.rows = table.rows /\ t.cols = table.cols
                /\ t.edits = table.edits \union {<<table.rows[c.at], c.id>>}
           /\ c.op \in {"swapRows"} \union RowOps => t.cols = table.cols /\ t.edits = table.edits
           /\ c.op \in ColumnOps /\ c.op # "reset" => t.rows = table.rows /\ t.edits = table.edits
           /\ c.op = "reset" => t = file
  <1> DEFINE S == 1..(Rows + made)
  <1>1. /\ c \in Call /\ table \in Table /\ file \in Table /\ made \in Nat /\ Rows \in Nat
        /\ c.at \in Nat \ {0} /\ c.with \in Nat /\ c.id \in 1..made
    BY ValuesDiffer DEF Types, Call, CallsFit
  <1>2. /\ table.rows \in Seq(Nat) /\ table.cols \in Seq(Name) /\ table.edits \in SUBSET (Nat \X Nat)
        /\ table.rows \in Seq(S) /\ IsInjective(table.cols)
    <2>1. \A i \in 1..Len(table.rows) : table.rows[i] \in S
      BY <1>1, LenProperties DEF Table, TablesFit
    <2>0. table.rows \in Seq(Nat)
      BY <1>1 DEF Table
    <2>2. table.rows \in Seq(S)
      <3>1. Len(table.rows) \in Nat /\ table.rows \in [1..Len(table.rows) -> Nat]
        BY <2>0, LenProperties
      <3>2. table.rows \in [1..Len(table.rows) -> S]
        BY <2>1, <3>1
      <3> QED
        BY <3>1, <3>2, SeqDef
    <2> QED
      BY <1>1, <2>2 DEF Table, TablesFit
  <1>3. /\ file.rows \in Seq(Nat) /\ file.cols \in Seq(Name) /\ IsInjective(file.cols)
        /\ \A i \in DOMAIN file.rows : file.rows[i] \in S
    BY <1>1 DEF TablesFit, Table
  <1>s. \A q \in Seq(S) : q \in Seq(Nat) /\ \A i \in DOMAIN q : q[i] \in S
    <2> TAKE q \in Seq(S)
    <2>1. \A i \in 1..Len(q) : q[i] \in S
      BY ElementOfSeq
    <2>2. S \subseteq Nat
      BY <1>1
    <2> QED
      BY <2>1, <2>2, LenProperties
  <1>i. \A i \in 1..Len(table.cols), j \in 1..Len(table.cols) :
            table.cols[i] = table.cols[j] => i = j
    BY <1>2 DEF IsInjective
  <1>o. c.op \in Ops
    BY <1>1 DEF Call
  <1> HIDE DEF S
  <1>a. CASE c.op = "editCell"
    <2>1. t = [table EXCEPT !.edits = @ \union {<<table.rows[c.at], c.id>>}] /\ c.at \in DOMAIN table.rows
      BY <1>a DEF Outcomes, EditCell
    <2>2. table.rows[c.at] \in Nat /\ c.id \in Nat
      BY <1>1, <1>2, <2>1
    <2> DEFINE edits == table.edits \union {<<table.rows[c.at], c.id>>}
    <2>3. edits \in SUBSET (Nat \X Nat)
      BY <1>2, <2>2
    <2>4. t = [rows |-> table.rows, cols |-> table.cols, edits |-> edits]
      BY <1>1, <2>1 DEF Table
    <2> HIDE DEF edits
    <2>5. t \in Table /\ t.rows = table.rows /\ t.cols = table.cols /\ t.edits = edits
      BY <1>2, <2>3, <2>4 DEF Table
    <2> QED
      BY <1>2, <1>a, <1>s, <2>1, <2>5 DEF RowOps, ColumnOps, S, edits
  <1>b. CASE c.op = "deleteRow"
    <2>1. t = [table EXCEPT !.rows = RemoveAt(table.rows, c.at)] /\ c.at \in DOMAIN table.rows
      BY <1>b DEF Outcomes, DeleteRow
    <2>2. RemoveAt(table.rows, c.at) \in Seq(S)
      BY <1>2, <2>1, RemoveAtFits
    <2> QED
      BY <1>1, <1>2, <1>b, <1>s, <2>1, <2>2 DEF Table, RowOps, ColumnOps, S
  <1>c. CASE c.op = "insertRow"
    <2>1. t = [table EXCEPT !.rows = InsertAt(table.rows, c.at, Rows + c.id)] /\ c.at <= Len(table.rows) + 1
      BY <1>c DEF Outcomes, InsertRow
    <2>2. Rows + c.id \in S /\ c.at \in 1..(Len(table.rows) + 1)
      BY <1>1, <1>2, <2>1, LenProperties DEF S
    <2>3. InsertAt(table.rows, c.at, Rows + c.id) \in Seq(S)
      BY <1>2, <2>2, InsertAtFits
    <2> QED
      BY <1>1, <1>2, <1>c, <1>s, <2>1, <2>3 DEF Table, RowOps, ColumnOps, S
  <1>d. CASE c.op = "swapRows"
    <2>1. /\ t = [table EXCEPT !.rows = [table.rows EXCEPT ![c.at] = table.rows[c.with],
                                                         ![c.with] = table.rows[c.at]]]
          /\ c.at \in DOMAIN table.rows /\ c.with \in DOMAIN table.rows
      BY <1>d DEF Outcomes, SwapRows
    <2>2. [table.rows EXCEPT ![c.at] = table.rows[c.with], ![c.with] = table.rows[c.at]] \in Seq(S)
      BY <1>2, <2>1
    <2> QED
      BY <1>1, <1>2, <1>d, <1>s, <2>1, <2>2 DEF Table, RowOps, ColumnOps, S
  <1>e. CASE c.op = "insertColumn"
    <2> DEFINE cols == InsertAt(table.cols, c.at, c.name)
    <2>1. /\ t = [table EXCEPT !.cols = cols]
          /\ c.at <= Len(table.cols) + 1 /\ c.name \notin Range(table.cols)
      BY <1>e DEF Outcomes, InsertColumn
    <2>2. c.name \in Name /\ c.at \in 1..(Len(table.cols) + 1)
      BY <1>1, <1>2, <1>e, <2>1, LenProperties DEF CallsFit
    <2>3. /\ cols \in Seq(Name) /\ DOMAIN cols = 1..(Len(table.cols) + 1) /\ Len(table.cols) \in Nat
          /\ \A j \in 1..(Len(table.cols) + 1) :
               cols[j] = IF j < c.at THEN table.cols[j] ELSE IF j = c.at THEN c.name ELSE table.cols[j - 1]
      <3>1. table.cols \in Seq(Name)
        BY <1>2
      <3>2. Len(table.cols) \in Nat
        BY <3>1, LenProperties
      <3>3. /\ cols \in Seq(Name) /\ DOMAIN cols = 1 .. Len(table.cols) + 1
            /\ \A j \in 1 .. Len(table.cols) + 1 :
                 cols[j] = IF j < c.at THEN table.cols[j] ELSE IF j = c.at THEN c.name ELSE table.cols[j - 1]
        <4> DEFINE s == table.cols
        <4>1. c.name \in Name /\ s \in Seq(Name) /\ c.at \in 1 .. Len(s) + 1
          BY <2>2, <3>1
        <4> HIDE DEF s
        <4>2. /\ InsertAt(s, c.at, c.name) \in Seq(Name)
              /\ DOMAIN InsertAt(s, c.at, c.name) = 1 .. Len(s) + 1
              /\ \A j \in 1 .. Len(s) + 1 : InsertAt(s, c.at, c.name)[j]
                   = IF j < c.at THEN s[j] ELSE IF j = c.at THEN c.name ELSE s[j - 1]
          BY SMTT(30), <4>1, InsertAtFits
        <4> QED
          BY <4>2 DEF s
      <3> QED
        BY <3>2, <3>3
    <2>4. \A i \in 1..Len(table.cols) : table.cols[i] # c.name
      BY <1>2, <2>1, LenProperties DEF Range
    <2> HIDE DEF cols
    <2>5. IsInjective(cols)
      <3> SUFFICES ASSUME NEW j \in DOMAIN cols, NEW k \in DOMAIN cols, cols[j] = cols[k], j < k
                   PROVE  FALSE
        <4>1. \A j, k \in DOMAIN cols : j < k \/ j = k \/ k < j
          BY <2>3
        <4> QED
          BY <4>1 DEF IsInjective
      <3>1. CASE j < c.at /\ k < c.at
        BY <1>i, <2>2, <2>3, <3>1
      <3>2. CASE j < c.at /\ k = c.at
        BY <2>3, <2>4, <3>2
      <3>3. CASE j < c.at /\ k > c.at
        BY SMTT(30), <1>i, <2>2, <2>3, <3>3
      <3>4. CASE j = c.at /\ k > c.at
        BY <2>2, <2>3, <2>4, <3>4
      <3>5. CASE j > c.at
        <4>1. j - 1 \in 1..Len(table.cols) /\ k - 1 \in 1..Len(table.cols) /\ k > c.at
          BY <2>2, <2>3, <3>5
        <4>2. cols[j] = table.cols[j - 1] /\ cols[k] = table.cols[k - 1]
          BY SMTT(30), <2>2, <2>3, <3>5, <4>1
        <4>3. j - 1 = k - 1
          BY <1>i, <4>1, <4>2
        <4> QED
          BY <2>3, <4>3
      <3> QED
        BY <2>2, <2>3, <3>1, <3>2, <3>3, <3>4, <3>5
    <2> QED
      BY <1>1, <1>2, <1>e, <1>s, <2>1, <2>3, <2>5 DEF Table, RowOps, ColumnOps, S
  <1>f. CASE c.op = "renameColumn"
    <2> DEFINE cols == [i \in DOMAIN table.cols |-> IF table.cols[i] = c.col THEN c.name ELSE table.cols[i]]
    <2>1. t = [table EXCEPT !.cols = cols] /\ c.name \notin Range(table.cols)
      BY <1>f DEF Outcomes, RenameColumn
    <2>2. c.name \in Name
      BY <1>f DEF CallsFit
    <2>3. cols \in Seq(Name)
      BY <1>2, <2>2
    <2>4. \A i \in 1..Len(table.cols) : table.cols[i] # c.name
      BY <1>2, <2>1, LenProperties DEF Range
    <2>6. DOMAIN cols = 1..Len(table.cols)
      BY <1>2, LenProperties
    <2>5. IsInjective(cols)
      BY <1>2, <1>i, <2>4, <2>6 DEF IsInjective
    <2> HIDE DEF cols
    <2> QED
      BY <1>1, <1>2, <1>f, <1>s, <2>1, <2>3, <2>5 DEF Table, RowOps, ColumnOps, S
  <1>g. CASE c.op = "deleteColumn"
    <2>1. PICK k \in DOMAIN table.cols : t = [table EXCEPT !.cols = RemoveAt(table.cols, k)]
      BY <1>g DEF Outcomes, DeleteColumn
    <2> DEFINE cols == RemoveAt(table.cols, k)
    <2>2. /\ cols \in Seq(Name) /\ DOMAIN cols = 1..(Len(table.cols) - 1) /\ Len(table.cols) \in Nat
          /\ k \in 1..Len(table.cols)
          /\ \A j \in 1..(Len(table.cols) - 1) : cols[j] = IF j < k THEN table.cols[j] ELSE table.cols[j + 1]
      <3>1. table.cols \in Seq(Name)
        BY <1>2
      <3>2. k \in 1..Len(table.cols) /\ Len(table.cols) \in Nat
        BY <3>1, LenProperties
      <3> QED
        BY <3>1, <3>2, RemoveAtFits
    <2>3. t = [table EXCEPT !.cols = cols]
      BY <2>1
    <2> HIDE DEF cols
    <2>4. IsInjective(cols)
      <3> DEFINE At(j) == IF j < k THEN j ELSE j + 1
      <3>1. \A j \in DOMAIN cols : At(j) \in 1..Len(table.cols) /\ cols[j] = table.cols[At(j)]
        BY <2>2
      <3>2. \A j, l \in DOMAIN cols : At(j) = At(l) => j = l
        BY <2>2
      <3> HIDE DEF At
      <3>3. \A j, l \in DOMAIN cols : cols[j] = cols[l] => j = l
        <4> TAKE j, l \in DOMAIN cols
        <4>1. table.cols[At(j)] = table.cols[At(l)] => At(j) = At(l)
          BY <1>i, <3>1
        <4> QED
          BY <3>1, <3>2, <4>1
      <3> QED
        BY <3>3 DEF IsInjective
    <2> QED
      BY <1>1, <1>2, <1>g, <1>s, <2>2, <2>3, <2>4 DEF Table, RowOps, ColumnOps, S
  <1>h. CASE c.op = "reset"
    <2>1. t = file
      BY <1>h DEF Outcomes, ResetTable
    <2> QED
      BY <1>1, <1>3, <1>h, <2>1 DEF RowOps, ColumnOps, S
  <1> QED
    BY <1>o, <1>a, <1>b, <1>c, <1>d, <1>e, <1>f, <1>g, <1>h DEF Ops, RowOps, ColumnOps

-----------------------------------------------------------------------------
(* The page's helpers.                                                     *)

\* A set of numbers that has 0, and with each number the next one, has them all.
LEMMA NatSetInduction ==
    ASSUME NEW T, T \subseteq Nat, 0 \in T, \A n \in T : n + 1 \in T
    PROVE  T = Nat
  <1> DEFINE R == {ss \in Nat \X Nat : ss[1] < ss[2]}
  <1> SUFFICES ASSUME Nat \ T # {} PROVE FALSE
    OBVIOUS
  <1>1. IsWellFoundedOn(R, Nat)
    BY ONLY NatLessThanWellFounded DEF OpToRel
  <1> HIDE DEF R
  <1>2. PICK x \in Nat \ T : \A y \in Nat \ T : <<y, x>> \notin R
    BY <1>1, WFMin
  <1>3. x # 0 /\ x - 1 \in Nat
    BY <1>2
  <1>4. <<x - 1, x>> \in R
    BY <1>3 DEF R
  <1>5. x - 1 \in T
    BY <1>2, <1>3, <1>4
  <1> QED
    BY <1>2, <1>3, <1>5

\* currentGridColumns keeps columns that are all shown.
LEMMA KnownKeepsAll ==
    ASSUME NEW cols \in Seq(Name), Range(cols) \subseteq Range(shown)
    PROVE  Known(cols) = cols
  <1> DEFINE n == Len(cols)
             none == <<>>
             Kept(f, i) == IF cols[i] \in Range(shown) THEN Append(f[i - 1], cols[i]) ELSE f[i - 1]
             After(f) == [i \in 0..n |-> IF i = 0 THEN none ELSE Kept(f, i)]
             kept == CHOOSE f : f = After(f)
             g == [i \in 0..n |-> SubSeq(cols, 1, i)]
  <1>1. n \in Nat /\ DOMAIN cols = 1..n /\ \A i \in 1..n : cols[i] \in Range(shown)
    BY LenProperties DEF Range
  <1>2. Known(cols) = kept[n]
    BY DEF Known
  <1>3. \A f : \A i \in 1..n : Kept(f, i) = Append(f[i - 1], cols[i])
    BY <1>1
  <1>4. SubSeq(cols, 1, 0) = none
    OBVIOUS
  <1>5. \A i \in 1..n : SubSeq(cols, 1, i) = Append(SubSeq(cols, 1, i - 1), cols[i])
    BY <1>1, SubSeqRecursiveSecond
  <1>6. SubSeq(cols, 1, n) = cols
    BY <1>1, SubSeqFull
  <1> HIDE DEF n, none, Kept
  <1>7. g = After(g)
    <2>1. \A i \in 1..n : i # 0 /\ i \in 0..n /\ i - 1 \in 0..n
      BY <1>1
    <2>2. \A i \in 1..n : g[i] = Kept(g, i)
      <3> TAKE i \in 1..n
      <3>1. g[i] = SubSeq(cols, 1, i) /\ g[i - 1] = SubSeq(cols, 1, i - 1)
        BY <2>1
      <3>2. Kept(g, i) = Append(g[i - 1], cols[i])
        BY <1>3
      <3> HIDE DEF g
      <3> QED
        BY <1>5, <3>1, <3>2
    <2>3. g[0] = none
      BY <1>1, <1>4
    <2>4. \A i \in 0..n : i = 0 \/ i \in 1..n
      BY <1>1
    <2> HIDE DEF Kept
    <2> QED
      BY <2>2, <2>3, <2>4
  <1> HIDE DEF g
  <1>8. kept = After(kept)
    BY <1>7
  <1> HIDE DEF kept
  <1> DEFINE T == {i \in Nat : i <= n => kept[i] = SubSeq(cols, 1, i)}
  <1>9. T = Nat
    <2>1. 0 \in T
      BY <1>1, <1>4, <1>8
    <2>2. ASSUME NEW i \in T PROVE i + 1 \in T
      <3>1. SUFFICES ASSUME i + 1 <= n PROVE kept[i + 1] = SubSeq(cols, 1, i + 1)
        OBVIOUS
      <3>2. i \in Nat /\ i + 1 \in 1..n /\ i + 1 \in 0..n /\ i + 1 # 0 /\ (i + 1) - 1 = i /\ i <= n
        BY <1>1, <3>1
      <3>3. kept[i] = SubSeq(cols, 1, i)
        BY <3>2
      <3>4. kept[i + 1] = Kept(kept, i + 1)
        BY <1>8, <3>2
      <3>5. Kept(kept, i + 1) = Append(kept[(i + 1) - 1], cols[i + 1])
        BY <1>3, <3>2
      <3> QED
        BY <1>5, <3>2, <3>3, <3>4, <3>5
    <2> HIDE DEF T
    <2>3. T \subseteq Nat
      BY DEF T
    <2> QED
      BY <2>1, <2>2, <2>3, NatSetInduction
  <1> QED
    BY <1>1, <1>2, <1>6, <1>9

\* Purging the grid leaves one block under way, under a number of its own.
LEMMA RefreshFits ==
    ASSUME Types, ReadsFit, RefreshRows
    PROVE  reads' \subseteq Read /\ page' = NoPage /\ ReadsFit' /\ Pages' = {}
  <1> DEFINE Free == {i \in 1..MaxReads : \A r \in reads : r.id # i}
             i == CHOOSE i \in 1..MaxReads : \A r \in reads : r.id # i
             new == [id |-> i, alive |-> TRUE, answer |-> NoPage]
             Dead(r) == [r EXCEPT !.alive = FALSE]
  <1>1. /\ Cardinality(reads) < MaxReads /\ page' = NoPage
        /\ reads' = {Dead(r) : r \in reads} \union {new}
    BY DEF RefreshRows
  <1>2. Free # {}
    <2> SUFFICES ASSUME Free = {} PROVE FALSE
      OBVIOUS
    <2> DEFINE f == [r \in reads |-> r.id]
    <2>1. MaxReads \in Nat
      BY ValuesDiffer
    <2>2. f \in Injection(reads, 1..MaxReads)
      <3>1. f \in [reads -> 1..MaxReads]
        BY DEF Types, Read
      <3>2. \A q, r \in reads : f[q] = f[r] => q = r
        BY DEF ReadsFit
      <3> HIDE DEF f
      <3> QED
        BY <3>1, <3>2 DEF Injection, IsInjective
    <2>3. f \in Surjection(reads, 1..MaxReads)
      BY <2>2 DEF Surjection, Injection
    <2>4. IsFiniteSet(1..MaxReads) /\ Cardinality(1..MaxReads) = MaxReads
      BY <2>1, FS_Interval
    <2>5. IsFiniteSet(reads) /\ Cardinality(reads) \in Nat
      BY <2>2, <2>4, FS_Injection, FS_CardinalityType
    <2>6. MaxReads <= Cardinality(reads)
      BY <2>3, <2>4, <2>5, FS_Surjection
    <2> QED
      BY <1>1, <2>1, <2>5, <2>6
  <1>3. i \in 1..MaxReads /\ \A r \in reads : r.id # i
    BY <1>2
  <1> HIDE DEF i
  <1>4. \A r \in reads : Dead(r) \in Read /\ Dead(r).id = r.id /\ ~Dead(r).alive
    BY DEF Types, Read
  <1>5. new \in Read /\ new.id = i /\ new.alive /\ new.answer = NoPage
    BY <1>3 DEF Read
  <1> HIDE DEF new, Dead
  <1>6. reads' \subseteq Read
    BY <1>1, <1>4, <1>5
  <1>7. ReadsFit'
    BY <1>1, <1>3, <1>4, <1>5 DEF ReadsFit
  <1>8. Pages' = {}
    BY <1>1, <1>4, <1>5 DEF Pages
  <1> QED
    BY <1>1, <1>6, <1>7, <1>8

\* A call keeps its type when its fields are filled in.
LEMMA CallsMade ==
    ASSUME NEW c \in Call
    PROVE  /\ \A i \in Nat \ {0}, n \in Nat : /\ [c EXCEPT !.row = n, !.at = i] \in Call
                                             /\ [c EXCEPT !.at = i, !.width = n] \in Call
           /\ \A i \in Nat \ {0}, n \in Name : [c EXCEPT !.at = i, !.name = n] \in Call
           /\ \A k \in Name, n \in Name : [c EXCEPT !.col = k, !.name = n] \in Call
           /\ \A k \in Name : [c EXCEPT !.col = k] \in Call
           /\ \A i \in Nat \ {0} : [c EXCEPT !.with = i] \in Call
  BY DEF Call

\* An empty call is one.
LEMMA NewCallFits ==
    ASSUME made \in Nat, NEW op \in Ops
    PROVE  NewCall(op) \in Call
  <1>1. <<>> \in Seq(Name)
    OBVIOUS
  <1> QED
    BY <1>1 DEF NewCall, Call

\* What the user asks for: a fresh call, and an edit is in the grid at once.
Asked(c) ==
    /\ c \in Call /\ c.id = made + 1 /\ c.phase = "sent" /\ c.op # "reset"
    /\ c.row # 0 \/ c.op = "editCell" =>
                    /\ c.op \in {"editCell", "swapRows", "deleteRow"}
                    /\ page # NoPage /\ c.at \in DOMAIN page.rows /\ c.row = page.rows[c.at]
    /\ c.op \in {"insertColumn", "renameColumn"} => c.name \in Name
    /\ \/ c.op # "editCell" /\ page' = page
       \/ /\ c.op = "editCell" /\ page # NoPage
          /\ page' = [page EXCEPT !.edits = @ \union {<<c.row, c.id>>}]

UserCalls == Edit \/ Delete \/ Insert \/ Move \/ AddColumn \/ Rename \/ DropColumn

LEMMA UserCallsFit ==
    ASSUME Types, UserCalls
    PROVE  \E c : Asked(c) /\ Act(c)
  <1>1. /\ made \in Nat /\ count \in Nat /\ shown \in Seq(Name) /\ Len(shown) \in Nat
        /\ page \in Table \union {NoPage}
    BY LenProperties DEF Types
  <1>2. \A i \in RowsShown : /\ page # NoPage /\ i \in DOMAIN page.rows /\ i \in Nat \ {0}
                             /\ page.rows[i] \in Nat
    <2> TAKE i \in RowsShown
    <2>1. page # NoPage /\ i \in DOMAIN page.rows
      BY DEF RowsShown
    <2>2. page.rows \in Seq(Nat)
      BY <1>1, <2>1 DEF Table
    <2> QED
      BY <2>1, <2>2, LenProperties
  <1>3. Range(shown) \subseteq Name
    BY <1>1, LenProperties DEF Range
  <1>4. NewColumns \subseteq Name
    BY DEF Name
  <1>5. <<>> \in Seq(Name)
    OBVIOUS
  <1>6. NoPage \notin Table
    BY ValuesDiffer
  <1>a. ASSUME Edit PROVE \E c : Asked(c) /\ Act(c)
    <2>1. PICK i \in RowsShown, col \in Range(shown) :
            LET c == [RowAt(i, "editCell") EXCEPT !.col = col] IN
              Act(c) /\ page' = [page EXCEPT !.edits = @ \union {<<page.rows[i], c.id>>}]
      BY <1>a DEF Edit
    <2> DEFINE c == [RowAt(i, "editCell") EXCEPT !.col = col]
    <2>3. c.id = made + 1 /\ c.op = "editCell" /\ c.phase = "sent" /\ c.row = page.rows[i] /\ c.at = i
      BY DEF NewCall, RowAt
    <2>4. Act(c)
      BY <2>1
    <2>5. page' = [page EXCEPT !.edits = @ \union {<<c.row, c.id>>}]
      BY <2>1, <2>3
    <2>6. c \in Call
      <3>1. NewCall("editCell") \in Call
        BY <1>1, NewCallFits DEF Ops, RowOps, ColumnOps
      <3>2. RowAt(i, "editCell") \in Call
        BY <1>2, <3>1, CallsMade DEF RowAt
      <3>3. col \in Name
        BY <1>3
      <3> QED
        BY <3>2, <3>3, CallsMade
    <2> HIDE DEF c
    <2> QED
      BY <1>2, <2>3, <2>4, <2>5, <2>6 DEF Asked, RowOps, ColumnOps
  <1>b. ASSUME Delete PROVE \E c : Asked(c) /\ Act(c)
    <2>1. PICK i \in RowsShown : Act(RowAt(i, "deleteRow")) /\ UNCHANGED page
      BY <1>b DEF Delete
    <2> DEFINE c == RowAt(i, "deleteRow")
    <2>3. c.id = made + 1 /\ c.op = "deleteRow" /\ c.phase = "sent" /\ c.row = page.rows[i] /\ c.at = i
      BY DEF NewCall, RowAt
    <2>4. Act(c)
      BY <2>1
    <2>5. page' = page
      BY <2>1
    <2>6. c \in Call
      <3>1. NewCall("deleteRow") \in Call
        BY <1>1, NewCallFits DEF Ops, RowOps, ColumnOps
      <3> QED
        BY <1>1, <1>2, <1>3, <3>1, CallsMade DEF RowAt
    <2> HIDE DEF c
    <2> QED
      BY <1>2, <2>3, <2>4, <2>5, <2>6 DEF Asked, RowOps, ColumnOps
  <1>c. ASSUME Insert PROVE \E c : Asked(c) /\ Act(c)
    <2>1. PICK i \in RowsShown \union {count + 1} :
            Act([NewCall("insertRow") EXCEPT !.at = i, !.width = Len(shown)]) /\ UNCHANGED page
      BY <1>c DEF Insert
    <2>2. i \in Nat \ {0}
      BY <1>1, <1>2
    <2> DEFINE c == [NewCall("insertRow") EXCEPT !.at = i, !.width = Len(shown)]
    <2>3. c.id = made + 1 /\ c.op = "insertRow" /\ c.phase = "sent" /\ c.row = 0
      BY DEF NewCall, RowAt
    <2>4. Act(c)
      BY <2>1
    <2>5. page' = page
      BY <2>1
    <2>6. c \in Call
      <3>1. NewCall("insertRow") \in Call
        BY <1>1, NewCallFits DEF Ops, RowOps, ColumnOps
      <3> QED
        BY <1>1, <1>2, <1>3, <2>2, <3>1, CallsMade DEF RowAt
    <2> HIDE DEF c
    <2> QED
      BY <1>2, <2>2, <2>3, <2>4, <2>5, <2>6 DEF Asked, RowOps, ColumnOps
  <1>d. ASSUME Move PROVE \E c : Asked(c) /\ Act(c)
    <2>1. PICK i \in RowsShown : Act([RowAt(i, "swapRows") EXCEPT !.with = i + 1]) /\ UNCHANGED page
      BY <1>d DEF Move
    <2> DEFINE c == [RowAt(i, "swapRows") EXCEPT !.with = i + 1]
    <2>3. c.id = made + 1 /\ c.op = "swapRows" /\ c.phase = "sent" /\ c.row = page.rows[i] /\ c.at = i
      BY DEF NewCall, RowAt
    <2>4. Act(c)
      BY <2>1
    <2>5. page' = page
      BY <2>1
    <2>6. c \in Call
      <3>1. NewCall("swapRows") \in Call
        BY <1>1, NewCallFits DEF Ops, RowOps, ColumnOps
      <3>2. RowAt(i, "swapRows") \in Call
        BY <1>2, <3>1, CallsMade DEF RowAt
      <3>3. i + 1 \in Nat \ {0}
        BY <1>2
      <3> QED
        BY <3>2, <3>3, CallsMade
    <2> HIDE DEF c
    <2> QED
      BY <1>2, <2>3, <2>4, <2>5, <2>6 DEF Asked, RowOps, ColumnOps
  <1>e. ASSUME AddColumn PROVE \E c : Asked(c) /\ Act(c)
    <2>1. PICK n \in NewColumns, i \in 1..(Len(shown) + 1) :
            Act([NewCall("insertColumn") EXCEPT !.at = i, !.name = n]) /\ UNCHANGED page
      BY <1>e DEF AddColumn
    <2>2. i \in Nat \ {0} /\ n \in Name
      BY <1>1, <1>4
    <2> DEFINE c == [NewCall("insertColumn") EXCEPT !.at = i, !.name = n]
    <2>3. c.id = made + 1 /\ c.op = "insertColumn" /\ c.phase = "sent" /\ c.row = 0 /\ c.name = n
      BY DEF NewCall, RowAt
    <2>4. Act(c)
      BY <2>1
    <2>5. page' = page
      BY <2>1
    <2>6. c \in Call
      <3>1. NewCall("insertColumn") \in Call
        BY <1>1, NewCallFits DEF Ops, RowOps, ColumnOps
      <3> QED
        BY <1>1, <1>2, <1>3, <2>2, <3>1, CallsMade DEF RowAt
    <2> HIDE DEF c
    <2> QED
      BY <1>2, <2>2, <2>3, <2>4, <2>5, <2>6 DEF Asked, RowOps, ColumnOps
  <1>f. ASSUME Rename PROVE \E c : Asked(c) /\ Act(c)
    <2>1. PICK k \in Range(shown), n \in NewColumns :
            Act([NewCall("renameColumn") EXCEPT !.col = k, !.name = n]) /\ UNCHANGED page
      BY <1>f DEF Rename
    <2>2. k \in Name /\ n \in Name
      BY <1>3, <1>4
    <2> DEFINE c == [NewCall("renameColumn") EXCEPT !.col = k, !.name = n]
    <2>3. c.id = made + 1 /\ c.op = "renameColumn" /\ c.phase = "sent" /\ c.row = 0 /\ c.name = n
      BY DEF NewCall, RowAt
    <2>4. Act(c)
      BY <2>1
    <2>5. page' = page
      BY <2>1
    <2>6. c \in Call
      <3>1. NewCall("renameColumn") \in Call
        BY <1>1, NewCallFits DEF Ops, RowOps, ColumnOps
      <3> QED
        BY <1>1, <1>2, <1>3, <2>2, <3>1, CallsMade DEF RowAt
    <2> HIDE DEF c
    <2> QED
      BY <1>2, <2>2, <2>3, <2>4, <2>5, <2>6 DEF Asked, RowOps, ColumnOps
  <1>g. ASSUME DropColumn PROVE \E c : Asked(c) /\ Act(c)
    <2>1. PICK k \in Range(shown) :
            Act([NewCall("deleteColumn") EXCEPT !.col = k]) /\ UNCHANGED page
      BY <1>g DEF DropColumn
    <2>2. k \in Name
      BY <1>3
    <2> DEFINE c == [NewCall("deleteColumn") EXCEPT !.col = k]
    <2>3. c.id = made + 1 /\ c.op = "deleteColumn" /\ c.phase = "sent" /\ c.row = 0
      BY DEF NewCall, RowAt
    <2>4. Act(c)
      BY <2>1
    <2>5. page' = page
      BY <2>1
    <2>6. c \in Call
      <3>1. NewCall("deleteColumn") \in Call
        BY <1>1, NewCallFits DEF Ops, RowOps, ColumnOps
      <3> QED
        BY <1>1, <1>2, <1>3, <2>2, <3>1, CallsMade DEF RowAt
    <2> HIDE DEF c
    <2> QED
      BY <1>2, <2>2, <2>3, <2>4, <2>5, <2>6 DEF Asked, RowOps, ColumnOps
  <1> QED
    BY <1>a, <1>b, <1>c, <1>d, <1>e, <1>f, <1>g DEF UserCalls

-----------------------------------------------------------------------------
(* The server's steps.                                                     *)

\* A call that moves on without a change of the table: it is refused, or its
\* schema has been told.
LEMMA CallAdvances ==
    ASSUME IInv, NEW c \in calls, NEW d \in Call,
           d.id = c.id, d.op = c.op, d.row = c.row, d.at = c.at, d.name = c.name,
           \/ c.phase = "sent" /\ d.phase = "refused"
           \/ c.phase = "done" /\ d.phase = "told" /\ d.cols = table.cols /\ c.op \in RowOps \union ColumnOps,
           calls' = (calls \ {c}) \union {d},
           UNCHANGED <<serverVars, viewVars, saveVars, stepVars, reads, dirty, dataDirty,
                       overlapped, strayed>>
    PROVE  IInv'
  <1>1. /\ file' = file /\ table' = table /\ shown' = shown /\ order' = order /\ current' = current
        /\ page' = page /\ count' = count /\ saving' = saving /\ payload' = payload /\ told' = told
        /\ unchanged' = unchanged /\ loading' = loading /\ replaced' = replaced
        /\ resetting' = resetting /\ resets' = resets /\ made' = made /\ reads' = reads
        /\ dirty' = dirty /\ dataDirty' = dataDirty /\ overlapped' = overlapped /\ strayed' = strayed
    BY DEF serverVars, viewVars, saveVars, stepVars
  <1>2. Answered(d) = Answered(c) /\ d.phase # "sent" /\ (d.phase = "told" => d.cols = table.cols)
    BY DEF Answered
  <1>3. Pages' = Pages
    BY <1>1 DEF Pages
  <1>4. \A e \in calls' : e \in calls \/ e = d
    OBVIOUS
  <1>5. \A e \in calls : e = c \/ (e \in calls' /\ e.id # c.id)
    BY DEF IInv, CallsFit
  <1>6. Types'
    BY <1>1 DEF IInv, Types
  <1>7. TablesFit'
    BY <1>1, <1>4 DEF IInv, TablesFit
  <1>8. CallsFit'
    BY <1>1, <1>4, <1>5 DEF IInv, CallsFit, Call
  <1>9. ReadsFit'
    BY <1>1 DEF IInv, ReadsFit
  <1>10. RowsAreCurrent'
    BY <1>1, <1>2, <1>3, <1>5 DEF IInv, RowsAreCurrent, Answered
  <1>11. CallsHit'
    BY <1>1, <1>2 DEF IInv, CallsHit
  <1>12. SavesWait'
    BY <1>1 DEF IInv, SavesWait
  <1>13. DirtyTells'
    BY <1>1, <1>2, <1>4 DEF IInv, DirtyTells, Answered
  <1>14. ColumnsFit'
    BY <1>1, <1>2, <1>4, <1>5 DEF IInv, ColumnsFit, Answered
  <1>15. TextsFit'
    <2>1. ASSUME overlapped = {} PROVE calls = {c} /\ calls' = {d}
      BY <2>1 DEF IInv, CallsHit
    <2>2. ASSUME overlapped = {}
          PROVE  {<<e.row, e.id>> : e \in Unanswered'} = {<<e.row, e.id>> : e \in Unanswered}
                 /\ (Unanswered' # {} => Unanswered # {})
      BY <1>2, <2>1, <2>2 DEF Unanswered, Answered
    <2> QED
      BY <1>1, <1>2, <1>3, <2>1, <2>2 DEF IInv, TextsFit, Answered
  <1> QED
    BY <1>1, <1>6, <1>7, <1>8, <1>9, <1>10, <1>11, <1>12, <1>13, <1>14, <1>15 DEF IInv

\* The server tells the schema to a call that it has served.
LEMMA SchemaStep ==
    ASSUME IInv, NEW c \in calls, Schema(c)
    PROVE  IInv'
  <1> DEFINE d == [c EXCEPT !.phase = "told", !.cols = table.cols, !.count = Len(table.rows)]
  <1>1. table.cols \in Seq(Name) /\ Len(table.rows) \in Nat
    BY LenProperties DEF IInv, Types, Table
  <1>2. c \in Call
    BY DEF IInv, Types
  <1>3. /\ d \in Call /\ d.id = c.id /\ d.op = c.op /\ d.row = c.row /\ d.at = c.at /\ d.name = c.name
        /\ d.phase = "told" /\ d.cols = table.cols
    BY <1>1, <1>2 DEF Call
  <1>4. calls' = (calls \ {c}) \union {d}
    BY DEF Schema
  <1> HIDE DEF d
  <1> QED
    BY <1>3, <1>4, CallAdvances DEF Schema

\* The server serves a mutation: the table it leaves is the page's, but for the
\* answer that is not taken yet.
LEMMA ServedStep ==
    ASSUME IInv, NEW c \in calls, c.phase = "sent", NEW d, d = [c EXCEPT !.phase = "done"],
           calls' = (calls \ {c}) \union {d},
           NEW after \in Outcomes(c), table' \in after,
           strayed' = (strayed \/ (c.row # 0 /\ table.rows[c.at] # c.row)),
           UNCHANGED <<file, viewVars, saveVars, stepVars, reads, dirty, dataDirty, overlapped>>
    PROVE  IInv'
  <1>1. /\ file' = file /\ shown' = shown /\ order' = order /\ current' = current
        /\ page' = page /\ count' = count /\ saving' = saving /\ payload' = payload /\ told' = told
        /\ unchanged' = unchanged /\ loading' = loading /\ replaced' = replaced
        /\ resetting' = resetting /\ resets' = resets /\ made' = made /\ reads' = reads
        /\ dirty' = dirty /\ dataDirty' = dataDirty /\ overlapped' = overlapped
    BY DEF viewVars, saveVars, stepVars
  <1>2. /\ c \in Call /\ d \in Call /\ d.id = c.id /\ d.op = c.op /\ d.row = c.row /\ d.at = c.at
        /\ d.name = c.name /\ d.cols = c.cols /\ d.phase = "done" /\ Answered(d) /\ ~Answered(c)
    BY DEF IInv, Types, Call, Answered
  <1>3. Pages' = Pages
    BY <1>1 DEF Pages
  <1>4. \A e \in calls' : (e \in calls /\ e # c) \/ e = d
    OBVIOUS
  <1>5. \A e \in calls : e = c \/ (e \in calls' /\ e.id # c.id)
    BY DEF IInv, CallsFit
  <1>6. /\ table' \in Table /\ IsInjective(table'.cols)
        /\ \A i \in DOMAIN table'.rows : table'.rows[i] \in 1..(Rows + made)
        /\ c.op \in {"editCell", "deleteRow", "swapRows"} => c.at \in DOMAIN table.rows
        /\ c.op = "editCell" =>
             /\ table'.rows = table.rows /\ table'.cols = table.cols
             /\ table'.edits = table.edits \union {<<table.rows[c.at], c.id>>}
        /\ c.op \in {"swapRows"} \union RowOps => table'.cols = table.cols /\ table'.edits = table.edits
        /\ c.op \in ColumnOps /\ c.op # "reset" => table'.rows = table.rows /\ table'.edits = table.edits
        /\ c.op = "reset" => table' = file
    BY OutcomeFits DEF IInv
  <1>o. \/ c.op \in {"editCell", "swapRows", "reset"} \union RowOps
          \/ (c.op \in ColumnOps /\ c.op # "reset")
    <2>1. c.op \in Ops
      BY <1>2 DEF Call
    <2> QED
      BY <2>1 DEF Ops, RowOps, ColumnOps
  <1> HIDE DEF IInv
  <1>7. Types'
    <2>1. calls' \subseteq Call
      BY <1>2 DEF IInv, Types
    <2>2. strayed' \in BOOLEAN
      OBVIOUS
    <2> QED
      BY <1>1, <1>6, <2>1, <2>2 DEF IInv, Types
  <1>8. TablesFit'
    <2>1. \A e \in table'.edits : e \in table.edits \/ e \in file.edits \/ e[2] = c.id
      BY <1>6, <1>o DEF RowOps, ColumnOps
    <2>2. c.id \in 1..made
      BY DEF IInv, CallsFit
    <2>3. /\ \A e \in file.edits \union table.edits : e[2] \in 1..made
          /\ \A e \in file.edits \union table.edits, x \in calls :
               x.phase \in {"sent", "refused"} => e[2] # x.id
          /\ IsInjective(file.cols)
          /\ \A i \in DOMAIN file.rows : file.rows[i] \in 1..(Rows + made)
      BY DEF IInv, TablesFit
    <2>4. \A x \in calls' : x.phase \in {"sent", "refused"} => x \in calls /\ x.id # c.id
      BY <1>2, <1>5
    <2>5. \A e \in table'.edits : e[2] \in 1..made
      BY <2>1, <2>2, <2>3
    <2>6. \A e \in table'.edits, x \in calls' : x.phase \in {"sent", "refused"} => e[2] # x.id
      BY <2>1, <2>3, <2>4
    <2>7. \A e \in file.edits, x \in calls' : x.phase \in {"sent", "refused"} => e[2] # x.id
      BY <2>3, <2>4
    <2> QED
      BY <1>1, <1>6, <2>3, <2>5, <2>6, <2>7 DEF TablesFit
  <1>9. CallsFit'
    <2>1. ASSUME NEW x \in calls', NEW y \in calls', x.id = y.id PROVE x = y
      <3>1. \A e \in calls : e # c => e.id # c.id
        BY <1>5
      <3>2. \A e, f \in calls : e.id = f.id => e = f
        BY DEF IInv, CallsFit
      <3>3. CASE x = d \/ y = d
        BY <1>2, <1>4, <2>1, <3>1, <3>3
      <3>4. CASE x # d /\ y # d
        BY <1>4, <2>1, <3>2, <3>4
      <3> QED
        BY <3>3, <3>4
    <2>2. ASSUME NEW x \in calls'
          PROVE  /\ x.id \in 1..made
                 /\ x.op \in {"insertColumn", "renameColumn"} => x.name \in Name
                 /\ x.row # 0 => x.op \in {"editCell", "swapRows", "deleteRow"}
                 /\ x.phase = "told" => x.op \in RowOps \union ColumnOps
      BY <1>2, <1>4 DEF IInv, CallsFit
    <2> QED
      BY <1>1, <2>1, <2>2 DEF CallsFit
  <1>10. ReadsFit'
    BY <1>1 DEF IInv, ReadsFit
  <1>11. RowsAreCurrent'
    <2>1. SUFFICES ASSUME \A e \in calls' : Answered(e) => e.op \notin {"swapRows", "reset"} \union RowOps
                   PROVE  \A p \in Pages' : p.rows = table'.rows
      BY DEF RowsAreCurrent, Answered
    <2>2. c.op \notin {"swapRows", "reset"} \union RowOps
      BY <1>2, <2>1
    <2>3. table'.rows = table.rows
      BY <1>6, <1>o, <2>2
    <2>4. \A e \in calls : Answered(e) => e.op \notin {"swapRows", "reset"} \union RowOps
      BY <1>2, <1>5, <2>1
    <2> QED
      BY <1>3, <2>3, <2>4 DEF IInv, RowsAreCurrent
  <1>12. ASSUME "calls" \notin overlapped
         PROVE  calls = {c} /\ calls' = {d} /\ (c.row # 0 => table.rows[c.at] = c.row)
    <2>1. c.row # 0 => c.op \in {"editCell", "swapRows", "deleteRow"}
      BY DEF IInv, CallsFit
    <2>2. calls = {c} /\ calls' = {d}
      BY <1>12 DEF IInv, CallsHit
    <2>3. c.row # 0 /\ c.at \in DOMAIN table.rows => table.rows[c.at] = c.row
      BY <1>12 DEF IInv, CallsHit
    <2>4. c.row # 0 => c.at \in DOMAIN table.rows
      BY <1>6, <2>1
    <2> QED
      BY <2>2, <2>3, <2>4
  <1>13. CallsHit'
    <2>1. \A x \in calls : "calls" \notin overlapped /\ x.op = "editCell" => x.row # 0
      BY DEF IInv, CallsHit
    <2>2. ASSUME "calls" \notin overlapped
          PROVE  calls' = {d} /\ (d.op = "editCell" => d.row # 0) /\ d.phase # "sent"
      BY <1>2, <1>12, <2>1, <2>2
    <2> QED
      BY <1>1, <2>2 DEF CallsHit
  <1>14. strayed' => "calls" \in overlapped
    BY <1>12 DEF IInv
  <1>15. ASSUME "save" \notin overlapped
         PROVE  saving \notin {"sent", "done", "told", "refused"} /\ dataDirty
                /\ (\A e \in calls : e.op = "reset" => calls = {e})
    BY <1>15 DEF IInv, SavesWait, DirtyTells
  <1>16. SavesWait'
    <2>1. ASSUME "save" \notin overlapped, NEW x \in calls', x.op = "reset"
          PROVE  calls' = {x} /\ saving = "no" /\ loading
      <3>1. x = d
        BY <1>4, <1>15, <2>1
      <3>2. c.op = "reset"
        BY <1>2, <2>1, <3>1
      <3>3. calls = {c} /\ saving = "no" /\ loading
        BY <2>1, <3>2 DEF IInv, SavesWait
      <3> QED
        BY <3>1, <3>3
    <2> QED
      BY <1>1, <1>15, <2>1 DEF SavesWait
  <1>17. DirtyTells'
    <2>1. ASSUME "save" \notin overlapped, NEW e \in calls', e.op = "reset"
          PROVE  table' = file'
      <3>1. e = d \/ (e \in calls /\ e # c)
        BY <1>4
      <3>2. e # d => FALSE
        BY <1>15, <2>1, <3>1
      <3> QED
        BY <1>1, <1>2, <1>6, <2>1, <3>2
    <2> QED
      BY <1>1, <1>15, <2>1 DEF IInv, DirtyTells
  <1>18. ColumnsFit'
    <2>1. SUFFICES ASSUME overlapped = {} PROVE ColumnsFit'
      BY <1>1 DEF ColumnsFit
    <2>2. calls = {c} /\ calls' = {d} /\ saving \notin {"sent", "done", "told"}
      BY <1>12, <1>15, <2>1
    <2>3. c.op \notin ColumnOps => table'.cols = table.cols
      BY <1>6, <1>o DEF ColumnOps
    <2>4. /\ shown = current /\ Len(order) = Len(shown) /\ Range(order) = Range(shown)
          /\ ~dirty => order = shown
          /\ shown = table.cols
      BY <1>2, <2>1, <2>2 DEF IInv, ColumnsFit
    <2>5. (\A e \in calls' : Answered(e)' => e.op \notin ColumnOps) => c.op \notin ColumnOps
      BY <1>2, <2>2 DEF Answered
    <2>6. \A e \in calls' : e.phase # "told"
      BY <1>2, <2>2
    <2>7. saving' \notin {"sent", "done", "told"}
      BY <1>1, <2>2
    <2> QED
      BY <1>1, <2>3, <2>4, <2>5, <2>6, <2>7 DEF ColumnsFit
  <1>19. TextsFit'
    <2>1. SUFFICES ASSUME overlapped = {} PROVE TextsFit'
      BY <1>1 DEF TextsFit
    <2>2. /\ calls = {c} /\ calls' = {d} /\ saving \notin {"sent", "done", "told"}
          /\ c.row # 0 => table.rows[c.at] = c.row
      BY <1>12, <1>15, <2>1
    <2>3. Unanswered' = {}
      BY <1>2, <2>2 DEF Unanswered, Answered
    <2>4. ASSUME c.op = "editCell", NEW p \in Pages
          PROVE  p.cols = table'.cols /\ p.edits = table'.edits
      <3>1. Unanswered = {c}
        BY <1>2, <2>2, <2>4 DEF Unanswered
      <3>2. p.cols = table.cols /\ p.edits = table.edits \union {<<e.row, e.id>> : e \in Unanswered}
        BY <1>2, <2>1, <2>2, <2>4 DEF IInv, TextsFit
      <3>3. c.row # 0
        BY <2>1, <2>2, <2>4 DEF IInv, CallsHit
      <3> QED
        BY <1>6, <2>2, <2>4, <3>1, <3>2, <3>3
    <2>5. (\A e \in calls' : Answered(e)' => e.op = "editCell") => c.op = "editCell"
      BY <1>2, <2>2 DEF Answered
    <2> QED
      BY <1>1, <1>3, <2>3, <2>4, <2>5 DEF TextsFit
  <1> QED
    BY <1>1, <1>7, <1>8, <1>9, <1>10, <1>11, <1>13, <1>14, <1>16, <1>17, <1>18, <1>19 DEF IInv

\* The server takes a mutation, and serves or refuses it.
LEMMA HandleStep ==
    ASSUME IInv, NEW c \in calls, Handle(c)
    PROVE  IInv'
  <1>1. PICK after \in Outcomes(c) :
          IF after = {}
            THEN calls' = Put(c, "refused") /\ UNCHANGED <<table, strayed>>
            ELSE /\ table' \in after
                 /\ calls' = Put(c, "done")
                 /\ strayed' = (strayed \/ (c.row # 0 /\ table.rows[c.at] # c.row))
    BY DEF Handle
  <1>2. c.phase = "sent" /\ c \in Call
    BY DEF Handle, IInv, Types
  <1>3. CASE after = {}
    <2> DEFINE d == [c EXCEPT !.phase = "refused"]
    <2>1. /\ d \in Call /\ d.id = c.id /\ d.op = c.op /\ d.row = c.row /\ d.at = c.at
          /\ d.name = c.name /\ d.phase = "refused"
      BY <1>2 DEF Call
    <2>2. calls' = (calls \ {c}) \union {d}
      BY <1>1, <1>3 DEF Put
    <2>3. UNCHANGED <<serverVars, viewVars, saveVars, stepVars, reads, dirty, dataDirty,
                      overlapped, strayed>>
      BY <1>1, <1>3 DEF Handle, serverVars
    <2> HIDE DEF d
    <2> QED
      BY <1>2, <2>1, <2>2, <2>3, CallAdvances
  <1>4. CASE after # {}
    <2> DEFINE d == [c EXCEPT !.phase = "done"]
    <2>1. /\ calls' = (calls \ {c}) \union {d} /\ table' \in after
          /\ strayed' = (strayed \/ (c.row # 0 /\ table.rows[c.at] # c.row))
      BY <1>1, <1>4 DEF Put
    <2> QED
      BY <1>2, <2>1, ServedStep DEF Handle
  <1> QED
    BY <1>3, <1>4

\* A block is read: nothing is missing from it, since no edit waits for one.
LEMMA ReadRowsStep ==
    ASSUME IInv, NEW r \in reads, ReadRows(r)
    PROVE  IInv'
  <1> DEFINE d == [r EXCEPT !.answer = table]
  <1>1. /\ file' = file /\ table' = table /\ shown' = shown /\ order' = order /\ current' = current
        /\ page' = page /\ count' = count /\ saving' = saving /\ payload' = payload /\ told' = told
        /\ unchanged' = unchanged /\ loading' = loading /\ replaced' = replaced
        /\ resetting' = resetting /\ resets' = resets /\ made' = made /\ calls' = calls
        /\ dirty' = dirty /\ dataDirty' = dataDirty /\ overlapped' = overlapped /\ strayed' = strayed
        /\ reads' = (reads \ {r}) \union {d}
    BY DEF ReadRows, serverVars, viewVars, saveVars, stepVars
  <1>2. table \in Table /\ r \in Read
    BY DEF IInv, Types
  <1>3. d \in Read /\ d.id = r.id /\ d.alive = r.alive /\ d.answer = table
    BY <1>2 DEF Read
  <1> HIDE DEF d
  <1>4. \A e \in reads' : (e \in reads /\ e # r) \/ e = d
    BY <1>1
  <1>5. \A p \in Pages' : p \in Pages \/ (p = table /\ r.alive)
    BY <1>1, <1>3, <1>4 DEF Pages
  <1> HIDE DEF IInv
  <1>6. Types'
    BY <1>1, <1>3 DEF IInv, Types
  <1>7. TablesFit' /\ CallsFit' /\ CallsHit' /\ SavesWait' /\ DirtyTells' /\ ColumnsFit'
    BY <1>1 DEF IInv, TablesFit, CallsFit, CallsHit, SavesWait, DirtyTells, ColumnsFit, Answered
  <1>8. ReadsFit'
    <2>1. ASSUME NEW x \in reads', NEW y \in reads', x.id = y.id \/ (x.alive /\ y.alive) PROVE x = y
      <3>1. \A e \in reads : e # r => ~(e.id = r.id \/ (e.alive /\ r.alive))
        BY DEF IInv, ReadsFit
      <3> QED
        BY <1>3, <1>4, <2>1, <3>1 DEF IInv, ReadsFit
    <2>2. page # NoPage => \A x \in reads' : ~x.alive
      BY <1>3, <1>4 DEF IInv, ReadsFit
    <2> QED
      BY <1>1, <2>1, <2>2 DEF ReadsFit
  <1>9. RowsAreCurrent'
    BY <1>1, <1>5 DEF IInv, RowsAreCurrent, Answered
  <1>10. TextsFit'
    <2>1. Unanswered' = Unanswered
      BY <1>1 DEF Unanswered, Answered
    <2>2. overlapped = {} /\ r.alive => Unanswered = {}
      BY DEF IInv, TextsFit, ReadsFit
    <2>3. Unanswered = {} => table.edits = table.edits \union {<<c.row, c.id>> : c \in Unanswered}
      OBVIOUS
    <2> QED
      BY <1>1, <1>5, <2>1, <2>2, <2>3 DEF IInv, TextsFit, Answered
  <1> QED
    BY <1>1, <1>6, <1>7, <1>8, <1>9, <1>10 DEF IInv

\* The same rows, the same edits, and the columns in the page's order.
LEMMA WrittenFits ==
    ASSUME Types, TablesFit, payload = <<>> \/ (Range(payload) = Range(table.cols) /\ Len(payload) = Len(table.cols))
    PROVE  /\ Written \in Table /\ Written.rows = table.rows /\ Written.edits = table.edits
           /\ Written.cols = (IF payload = <<>> THEN table.cols ELSE payload)
           /\ IsInjective(Written.cols)
  <1> DEFINE cols == IF payload = <<>> THEN table.cols ELSE payload
  <1>1. table \in Table /\ payload \in Seq(Name) /\ IsInjective(table.cols)
    BY DEF Types, TablesFit
  <1>2. table.cols \in Seq(Name)
    BY <1>1 DEF Table
  <1>3. cols \in Seq(Name)
    BY <1>1, <1>2
  <1>4. Written = [table EXCEPT !.cols = cols]
    BY DEF Written
  <1>5. IsInjective(cols)
    <2>1. CASE payload = <<>>
      BY <1>1, <2>1
    <2>2. CASE payload # <<>>
      <3> DEFINE R == Range(table.cols)
                 n == Len(table.cols)
      <3>1. n \in Nat /\ DOMAIN table.cols = 1..n /\ DOMAIN payload = 1..n /\ Range(payload) = R
        BY <1>1, <1>2, <2>2, LenProperties
      <3>2. IsFiniteSet(1..n) /\ Cardinality(1..n) = n
        BY <3>1, FS_Interval
      <3>3. table.cols \in Bijection(1..n, R)
        <4>1. table.cols \in [1..n -> R]
          BY <1>2, <3>1, LenProperties DEF Range
        <4>2. table.cols \in Injection(1..n, R)
          BY <1>1, <4>1 DEF Injection
        <4>3. \A y \in R : \E i \in 1..n : table.cols[i] = y
          BY <3>1 DEF Range
        <4>4. table.cols \in Surjection(1..n, R)
          BY <4>1, <4>3 DEF Surjection
        <4> QED
          BY <4>2, <4>4 DEF Bijection
      <3>4. IsFiniteSet(R) /\ Cardinality(R) = n
        BY <3>2, <3>3, FS_Bijection DEF ExistsBijection
      <3>5. payload \in Surjection(1..n, R)
        <4>1. payload \in [1..n -> R]
          BY <1>1, <3>1, LenProperties DEF Range
        <4>2. \A y \in R : \E i \in 1..n : payload[i] = y
          BY <3>1 DEF Range
        <4> QED
          BY <4>1, <4>2 DEF Surjection
      <3> HIDE DEF R, n
      <3>6. payload \in Injection(1..n, R)
        BY <3>2, <3>4, <3>5, FS_SurjSameCardinalityImpliesInj
      <3> QED
        BY <2>2, <3>6 DEF Injection
    <2> QED
      BY <2>1, <2>2
  <1> HIDE DEF cols
  <1>6. Written \in Table /\ Written.rows = table.rows /\ Written.edits = table.edits /\ Written.cols = cols
    BY <1>1, <1>3, <1>4 DEF Table
  <1> QED
    BY <1>5, <1>6 DEF cols

\* A save is refused, or the file becomes what the page meant to save.
LEMMA SaveStep ==
    ASSUME IInv, Save
    PROVE  IInv'
  <1>1. /\ saving = "sent" /\ shown' = shown /\ order' = order /\ current' = current
        /\ page' = page /\ count' = count /\ payload' = payload /\ told' = told
        /\ unchanged' = unchanged /\ loading' = loading /\ reads' = reads
        /\ resetting' = resetting /\ resets' = resets /\ made' = made /\ calls' = calls
        /\ dirty' = dirty /\ dataDirty' = dataDirty /\ overlapped' = overlapped /\ strayed' = strayed
    BY DEF Save, viewVars, stepVars
  <1>2. \/ saving' = "refused" /\ file' = file /\ table' = table /\ replaced' = replaced
        \/ /\ payload = <<>> \/ (Range(payload) = Range(table.cols) /\ Len(payload) = Len(table.cols))
           /\ file' = Written /\ table' = Written /\ replaced' = TRUE /\ saving' = "done"
    BY DEF Save, serverVars
  <1>3. /\ file' \in Table /\ table' \in Table /\ table'.rows = table.rows
        /\ table'.edits = table.edits
        /\ IsInjective(table'.cols) /\ IsInjective(file'.cols)
        /\ file'.edits = file.edits \/ file'.edits = table.edits
        /\ file'.rows = file.rows \/ file'.rows = table.rows
    <2>1. table \in Table /\ file \in Table /\ IsInjective(table.cols) /\ IsInjective(file.cols)
      BY DEF IInv, Types, TablesFit
    <2>2. CASE file' = file /\ table' = table
      BY <2>1, <2>2
    <2>3. CASE file' = Written /\ table' = Written
          /\ (payload = <<>> \/ (Range(payload) = Range(table.cols) /\ Len(payload) = Len(table.cols)))
      BY <2>3, WrittenFits DEF IInv
    <2> QED
      BY <1>2, <2>2, <2>3
  <1>4. Pages' = Pages /\ Unanswered' = Unanswered
    BY <1>1 DEF Pages, Unanswered, Answered
  <1>5. ASSUME "save" \notin overlapped PROVE calls = {} /\ unchanged
    BY <1>1, <1>5 DEF IInv, SavesWait
  <1> HIDE DEF IInv
  <1>6. Types'
    BY <1>1, <1>2, <1>3 DEF IInv, Types
  <1>7. TablesFit'
    BY <1>1, <1>3 DEF IInv, TablesFit
  <1>8. CallsFit' /\ ReadsFit'
    BY <1>1 DEF IInv, CallsFit, ReadsFit
  <1>9. RowsAreCurrent' /\ CallsHit'
    BY <1>1, <1>3, <1>4 DEF IInv, RowsAreCurrent, CallsHit, Answered
  <1>10. SavesWait'
    BY <1>1, <1>5 DEF SavesWait
  <1>11. DirtyTells'
    BY <1>1, <1>2, <1>5 DEF IInv, DirtyTells
  <1>12. ColumnsFit'
    <2>1. SUFFICES ASSUME overlapped = {} PROVE ColumnsFit'
      BY <1>1 DEF ColumnsFit
    <2>2. calls = {}
      BY <1>5, <2>1
    <2>3. /\ shown = current /\ Len(order) = Len(shown) /\ Range(order) = Range(shown)
          /\ ~dirty => order = shown
          /\ shown = table.cols
          /\ IF payload = <<>> THEN order = shown ELSE payload = order
      BY <1>1, <2>1, <2>2 DEF IInv, ColumnsFit
    <2>4. saving' = "done" => table'.cols = IF payload = <<>> THEN shown ELSE payload
      BY <1>2, <2>3, WrittenFits DEF IInv
    <2>5. saving' \in {"done", "refused"} /\ (saving' = "refused" => table' = table)
      BY <1>2
    <2> QED
      BY <1>1, <2>2, <2>3, <2>4, <2>5 DEF ColumnsFit
  <1>13. TextsFit'
    <2>1. SUFFICES ASSUME overlapped = {} PROVE TextsFit'
      BY <1>1 DEF TextsFit
    <2>2. CASE saving' = "done"
      BY <1>1, <1>4, <2>1, <2>2 DEF IInv, TextsFit
    <2>3. CASE saving' = "refused" /\ table' = table
      BY <1>1, <1>4, <2>1, <2>3 DEF IInv, TextsFit, Answered
    <2> QED
      BY <1>2, <2>2, <2>3
  <1> QED
    BY <1>1, <1>6, <1>7, <1>8, <1>9, <1>10, <1>11, <1>12, <1>13 DEF IInv

\* The adapter is told what the save has left.
LEMMA SavedSchemaStep ==
    ASSUME IInv, SavedSchema
    PROVE  IInv'
  <1>1. /\ saving = "done" /\ saving' = "told" /\ told' = <<table.cols, Len(table.rows)>>
        /\ file' = file /\ table' = table /\ shown' = shown /\ order' = order /\ current' = current
        /\ page' = page /\ count' = count /\ payload' = payload
        /\ unchanged' = unchanged /\ loading' = loading /\ replaced' = replaced /\ reads' = reads
        /\ resetting' = resetting /\ resets' = resets /\ made' = made /\ calls' = calls
        /\ dirty' = dirty /\ dataDirty' = dataDirty /\ overlapped' = overlapped /\ strayed' = strayed
    BY DEF SavedSchema, serverVars, viewVars, stepVars
  <1>2. table.cols \in Seq(Name) /\ Len(table.rows) \in Nat
    BY LenProperties DEF IInv, Types, Table
  <1>3. Pages' = Pages /\ Unanswered' = Unanswered
    BY <1>1 DEF Pages, Unanswered, Answered
  <1>4. told' \in Seq(Name) \X Nat /\ told'[1] = table.cols
    BY <1>1, <1>2
  <1>5. Types'
    BY <1>1, <1>4 DEF IInv, Types
  <1>6. TablesFit' /\ CallsFit' /\ ReadsFit' /\ CallsHit' /\ SavesWait' /\ DirtyTells'
    BY <1>1 DEF IInv, TablesFit, CallsFit, ReadsFit, CallsHit, SavesWait, DirtyTells, Answered
  <1>7. RowsAreCurrent'
    BY <1>1, <1>3 DEF IInv, RowsAreCurrent, Answered
  <1>8. ColumnsFit'
    BY <1>1, <1>4 DEF IInv, ColumnsFit, Answered
  <1>9. TextsFit'
    BY <1>1, <1>3 DEF IInv, TextsFit, Answered
  <1> QED
    BY <1>1, <1>5, <1>6, <1>7, <1>8, <1>9 DEF IInv

-----------------------------------------------------------------------------
(* The user's steps.                                                       *)

\* A call is sent from a page that is not blocked.
LEMMA UserCallStep ==
    ASSUME IInv, NEW c, Asked(c), Act(c)
    PROVE  IInv'
  <1>1. /\ file' = file /\ table' = table /\ shown' = shown /\ order' = order /\ current' = current
        /\ count' = count /\ saving' = saving /\ payload' = payload /\ told' = told
        /\ loading' = loading /\ replaced' = replaced /\ reads' = reads
        /\ resetting' = resetting /\ resets' = resets /\ strayed' = strayed
        /\ calls' = calls \union {c} /\ made' = made + 1
        /\ dirty' = TRUE /\ dataDirty' = TRUE /\ unchanged' = FALSE
        /\ saving = "no" /\ ~loading
        /\ overlapped' = overlapped \union (IF calls # {} THEN {"calls"} ELSE {})
    BY DEF Act, Blocked, Dispatch, serverVars
  <1>2. /\ c \in Call /\ c.id = made + 1 /\ c.phase = "sent" /\ c.op # "reset" /\ ~Answered(c)
        /\ c.row # 0 => /\ c.op \in {"editCell", "swapRows", "deleteRow"}
                        /\ page # NoPage /\ c.at \in DOMAIN page.rows /\ c.row = page.rows[c.at]
        /\ c.op = "editCell" => page # NoPage /\ c.at \in DOMAIN page.rows /\ c.row = page.rows[c.at]
        /\ c.op \in {"insertColumn", "renameColumn"} => c.name \in Name
    BY DEF Asked, Answered
  <1>3. /\ made \in Nat /\ Rows \in Nat /\ page \in Table \union {NoPage} /\ NoPage \notin Table
        /\ table \in Table
    BY ValuesDiffer DEF IInv, Types
  <1>4. \/ c.op # "editCell" /\ page' = page
        \/ /\ c.op = "editCell" /\ page \in Table /\ page' \in Table /\ page'.rows = page.rows
           /\ page'.cols = page.cols /\ page'.edits = page.edits \union {<<c.row, c.id>>}
    <2>1. c.row \in Nat /\ c.id \in Nat
      BY <1>2 DEF Call
    <2>2. ASSUME c.op = "editCell", page # NoPage,
                 page' = [page EXCEPT !.edits = @ \union {<<c.row, c.id>>}]
          PROVE  /\ page \in Table /\ page' \in Table /\ page'.rows = page.rows
                 /\ page'.cols = page.cols /\ page'.edits = page.edits \union {<<c.row, c.id>>}
      <3> DEFINE edits == page.edits \union {<<c.row, c.id>>}
      <3>1. page \in Table
        BY <1>3, <2>2
      <3>2. edits \in SUBSET (Nat \X Nat)
        BY <2>1, <3>1 DEF Table
      <3>3. page' = [page EXCEPT !.edits = edits]
        BY <2>2
      <3> HIDE DEF edits
      <3>4. page' \in Table /\ page'.rows = page.rows /\ page'.cols = page.cols /\ page'.edits = edits
        BY <3>1, <3>2, <3>3 DEF Table
      <3> QED
        BY <3>1, <3>4 DEF edits
    <2> QED
      BY <2>2 DEF Asked
  <1>5. \A p \in Pages' : p \in Pages \/ (p = page' /\ page \in Pages /\ p.rows = page.rows)
    BY <1>1, <1>3, <1>4 DEF Pages
  <1>6. \A e \in calls' : e \in calls \/ e = c
    BY <1>1
  <1>7. ASSUME "calls" \notin overlapped' PROVE calls = {} /\ calls' = {c} /\ "calls" \notin overlapped
    BY <1>1, <1>7
  <1> HIDE DEF IInv
  <1>8. Types'
    <2>1. calls' \subseteq Call
      BY <1>1, <1>2 DEF IInv, Types
    <2>2. page' \in Table \union {NoPage}
      BY <1>3, <1>4
    <2>3. overlapped' \subseteq {"calls", "save"} /\ made' \in Nat
      BY <1>1, <1>3 DEF IInv, Types
    <2> QED
      BY <1>1, <2>1, <2>2, <2>3 DEF IInv, Types
  <1>9. TablesFit'
    <2>1. \A t \in {file, table} :
            /\ \A i \in DOMAIN t.rows : t.rows[i] \in 1..(Rows + made)
            /\ IsInjective(t.cols)
            /\ \A e \in t.edits : e[2] \in 1..made
            /\ \A e \in t.edits, x \in calls : x.phase \in {"sent", "refused"} => e[2] # x.id
      BY DEF IInv, TablesFit
    <2>2. /\ \A k \in 1..made : k \in 1..(made + 1) /\ k # made + 1
          /\ \A k \in 1..(Rows + made) : k \in 1..(Rows + (made + 1))
      BY <1>3
    <2> QED
      BY <1>1, <1>2, <1>6, <2>1, <2>2 DEF TablesFit
  <1>10. CallsFit'
    <2>1. ASSUME NEW x \in calls
          PROVE  /\ x.id \in 1..(made + 1) /\ x.id # c.id
                 /\ x.op \in {"insertColumn", "renameColumn"} => x.name \in Name
                 /\ x.row # 0 => x.op \in {"editCell", "swapRows", "deleteRow"}
                 /\ x.phase = "told" => x.op \in RowOps \union ColumnOps
      BY <1>2, <1>3 DEF IInv, CallsFit
    <2>2. /\ c.id \in 1..(made + 1) /\ c.phase # "told"
          /\ c.op \in {"insertColumn", "renameColumn"} => c.name \in Name
          /\ c.row # 0 => c.op \in {"editCell", "swapRows", "deleteRow"}
      BY <1>2, <1>3
    <2>3. \A x, y \in calls' : x.id = y.id => x = y
      BY <1>6, <2>1 DEF IInv, CallsFit
    <2> QED
      BY <1>1, <1>6, <2>1, <2>2, <2>3 DEF CallsFit
  <1>11. ReadsFit'
    BY <1>1, <1>3, <1>4 DEF IInv, ReadsFit
  <1>12. RowsAreCurrent'
    <2>1. SUFFICES ASSUME \A e \in calls' : Answered(e) => e.op \notin {"swapRows", "reset"} \union RowOps
                   PROVE  \A p \in Pages' : p.rows = table.rows
      BY <1>1 DEF RowsAreCurrent, Answered
    <2>2. \A p \in Pages : p.rows = table.rows
      BY <1>1, <2>1 DEF IInv, RowsAreCurrent
    <2> QED
      BY <1>5, <2>2
  <1>13. CallsHit'
    <2>1. SUFFICES ASSUME "calls" \notin overlapped' PROVE CallsHit'
      BY DEF CallsHit
    <2>2. calls = {} /\ calls' = {c}
      BY <1>7, <2>1
    <2>3. page # NoPage => page.rows = table.rows
      BY <2>2 DEF IInv, RowsAreCurrent, Pages
    <2>4. \A i \in DOMAIN table.rows : table.rows[i] # 0
      BY <1>3 DEF IInv, TablesFit
    <2>5. c.op = "editCell" => c.row # 0
      BY <1>2, <2>3, <2>4
    <2>6. c.row # 0 => table.rows[c.at] = c.row
      BY <1>2, <2>3
    <2> QED
      BY <1>1, <2>2, <2>5, <2>6 DEF CallsHit
  <1>14. ASSUME "save" \notin overlapped' PROVE "save" \notin overlapped /\ \A e \in calls : e.op # "reset"
    BY <1>1, <1>14 DEF IInv, SavesWait
  <1>15. SavesWait'
    BY <1>1, <1>2, <1>6, <1>14 DEF SavesWait
  <1>16. DirtyTells'
    BY <1>1, <1>2, <1>6, <1>14 DEF IInv, DirtyTells
  <1>17. ColumnsFit'
    <2>1. SUFFICES ASSUME overlapped' = {} PROVE ColumnsFit'
      BY DEF ColumnsFit
    <2>2. calls = {} /\ calls' = {c} /\ overlapped = {}
      BY <1>1, <1>7, <2>1
    <2> QED
      BY <1>1, <1>2, <2>2 DEF IInv, ColumnsFit
  <1>18. TextsFit'
    <2>1. SUFFICES ASSUME overlapped' = {} PROVE TextsFit'
      BY DEF TextsFit
    <2>2. calls = {} /\ calls' = {c} /\ overlapped = {}
      BY <1>1, <1>7, <2>1
    <2>3. \A p \in Pages : p.cols = table.cols /\ p.edits = table.edits
      <3>1. Unanswered = {}
        BY <2>2 DEF Unanswered
      <3>2. \A p \in Pages : p.edits = table.edits \union {<<e.row, e.id>> : e \in Unanswered}
                             /\ p.cols = table.cols
        BY <1>1, <2>2 DEF IInv, TextsFit
      <3> QED
        BY <3>1, <3>2
    <2>4. CASE c.op # "editCell"
      <3>1. Unanswered' = {}
        BY <2>2, <2>4 DEF Unanswered
      <3>2. Pages' = Pages
        BY <1>1, <1>4, <2>4 DEF Pages
      <3> QED
        BY <1>1, <2>3, <3>1, <3>2 DEF TextsFit
    <2>5. CASE c.op = "editCell"
      <3>1. Unanswered' = {c}
        BY <1>2, <2>2, <2>5 DEF Unanswered, Answered
      <3>2. page \in Pages /\ page' # NoPage /\ \A r \in reads : ~r.alive
        BY <1>3, <1>4, <2>5 DEF IInv, ReadsFit, Pages
      <3>3. \A p \in Pages' : p = page'
        BY <1>1, <3>2 DEF Pages
      <3>4. page'.cols = table.cols /\ page'.edits = table.edits \union {<<c.row, c.id>>}
        BY <1>4, <2>3, <2>5, <3>2
      <3>5. {<<e.row, e.id>> : e \in Unanswered'} = {<<c.row, c.id>>}
        BY <3>1
      <3> QED
        BY <1>1, <3>1, <3>2, <3>3, <3>4, <3>5 DEF TextsFit
    <2> QED
      BY <2>4, <2>5
  <1> QED
    BY <1>1, <1>8, <1>9, <1>10, <1>11, <1>12, <1>13, <1>15, <1>16, <1>17, <1>18 DEF IInv

\* A column moved to the end: the same columns, as many of them.
LEMMA RotationFits ==
    ASSUME NEW s \in Seq(Name), Len(s) > 1
    PROVE  LET r == Tail(s) \o <<Head(s)>> IN
           r \in Seq(Name) /\ Len(r) = Len(s) /\ Range(r) = Range(s)
  <1> DEFINE r == Tail(s) \o <<Head(s)>>
             n == Len(s)
  <1>1. n \in Nat /\ DOMAIN s = 1..n /\ Head(s) = s[1] /\ s # <<>> /\ s[1] \in Name
    BY LenProperties
  <1>2. /\ Tail(s) \in Seq(Name) /\ Len(Tail(s)) = n - 1
        /\ \A i \in 1..(n - 1) : Tail(s)[i] = s[i + 1]
    BY <1>1, HeadTailProperties
  <1>3. <<Head(s)>> \in Seq(Name) /\ Len(<<Head(s)>>) = 1 /\ <<Head(s)>>[1] = s[1]
    BY <1>1
  <1>4. r \in Seq(Name) /\ Len(r) = n
    BY <1>1, <1>2, <1>3, ConcatProperties
  <1>5. \A i \in 1..n : r[i] = IF i < n THEN s[i + 1] ELSE s[1]
    BY <1>1, <1>2, <1>3, ConcatProperties
  <1> HIDE DEF r
  <1>6. DOMAIN r = 1..n
    BY <1>4, LenProperties
  <1>7. \A x \in Range(r) : x \in Range(s)
    BY <1>1, <1>5, <1>6 DEF Range
  <1>8. \A x \in Range(s) : x \in Range(r)
    <2>1. ASSUME NEW i \in 1..n PROVE s[i] \in Range(r)
      <3>1. CASE i = 1
        <4>1. n \in DOMAIN r /\ r[n] = s[i]
          BY <1>1, <1>5, <1>6, <3>1
        <4> QED
          BY <4>1 DEF Range
      <3>2. CASE i # 1
        <4>1. i - 1 \in 1..n /\ i - 1 < n /\ (i - 1) + 1 = i
          BY <1>1, <3>2
        <4>2. i - 1 \in DOMAIN r /\ r[i - 1] = s[i]
          BY <1>5, <1>6, <4>1
        <4> QED
          BY <4>2 DEF Range
      <3> QED
        BY <3>1, <3>2
    <2> HIDE DEF n
    <2> QED
      BY <1>1, <2>1 DEF Range
  <1> QED
    BY <1>4, <1>7, <1>8 DEF r

\* A sequence that starts another one of its length is that one.
LEMMA SameStart ==
    ASSUME NEW s \in Seq(Name), NEW t \in Seq(Name), Len(s) = Len(t), StartsLike(s, t)
    PROVE  s = t
  BY LenProperties, SeqEqual DEF StartsLike

\* A column is moved in the grid: what is shown stays.
LEMMA MoveColumnStep ==
    ASSUME IInv, MoveColumn
    PROVE  IInv'
  <1>1. /\ file' = file /\ table' = table /\ shown' = shown /\ current' = current
        /\ page' = page /\ count' = count /\ saving' = saving /\ payload' = payload /\ told' = told
        /\ loading' = loading /\ replaced' = replaced /\ reads' = reads /\ calls' = calls
        /\ resetting' = resetting /\ resets' = resets /\ strayed' = strayed
        /\ dataDirty' = dataDirty /\ overlapped' = overlapped
        /\ made' = made + 1 /\ unchanged' = FALSE /\ saving = "no" /\ ~loading
    BY DEF MoveColumn, Blocked, serverVars
  <1>m. /\ order' = Tail(order) \o <<Head(order)>> /\ Len(order) > 1
        /\ dirty' = (dataDirty \/ ~StartsLike(Known(order'), shown))
    BY DEF MoveColumn
  <1>2. order \in Seq(Name) /\ shown \in Seq(Name) /\ made \in Nat /\ Rows \in Nat
    BY ValuesDiffer DEF IInv, Types
  <1>3. order' \in Seq(Name) /\ Len(order') = Len(order) /\ Range(order') = Range(order)
    BY <1>2, <1>m, RotationFits
  <1>4. Pages' = Pages /\ Unanswered' = Unanswered
    BY <1>1 DEF Pages, Unanswered, Answered
  <1> HIDE DEF IInv
  <1>5. Types'
    <2>1. dirty' \in BOOLEAN
      BY <1>m DEF StartsLike
    <2> QED
      <3>1. /\ file' \in Table /\ table' \in Table /\ calls' \subseteq Call /\ reads' \subseteq Read
            /\ shown' \in Seq(Name) /\ order' \in Seq(Name) /\ current' \in Seq(Name)
            /\ page' \in Table \union {NoPage} /\ count' \in Nat
        BY <1>1, <1>3 DEF IInv, Types
      <3>2. /\ dataDirty' \in BOOLEAN /\ unchanged' \in BOOLEAN
            /\ loading' \in BOOLEAN /\ strayed' \in BOOLEAN /\ replaced' \in BOOLEAN
        BY <1>1 DEF IInv, Types
      <3>3. /\ saving' \in {"no", "settling", "sent", "done", "told", "refused"}
            /\ resetting' \in {"no", "settling", "asked"}
            /\ payload' \in Seq(Name) /\ (saving' = "told" => told' \in Seq(Name) \X Nat)
            /\ made' \in Nat /\ resets' \in Nat /\ overlapped' \subseteq {"calls", "save"}
        BY <1>1, <1>2 DEF IInv, Types
      <3> QED
        BY <2>1, <3>1, <3>2, <3>3 DEF Types
  <1>6. TablesFit' /\ CallsFit'
    <2>1. /\ \A k \in 1..made : k \in 1..(made + 1)
          /\ \A k \in 1..(Rows + made) : k \in 1..(Rows + (made + 1))
      BY <1>2
    <2> QED
      BY <1>1, <2>1 DEF IInv, TablesFit, CallsFit
  <1>7. ReadsFit' /\ CallsHit' /\ SavesWait' /\ DirtyTells'
    BY <1>1, <1>m DEF IInv, ReadsFit, CallsHit, SavesWait, DirtyTells, Answered
  <1>8. RowsAreCurrent' /\ TextsFit'
    BY <1>1, <1>4 DEF IInv, RowsAreCurrent, TextsFit, Answered
  <1>9. ColumnsFit'
    <2>1. SUFFICES ASSUME overlapped = {} PROVE ColumnsFit'
      BY <1>1 DEF ColumnsFit
    <2>2. shown = current /\ Len(order) = Len(shown) /\ Range(order) = Range(shown)
      BY <2>1 DEF IInv, ColumnsFit
    <2>3. Known(order') = order'
      BY <1>3, <2>2, KnownKeepsAll
    <2>4. ~dirty' => order' = shown
      BY <1>2, <1>3, <1>m, <2>2, <2>3, SameStart
    <2> QED
      BY <1>1, <1>3, <2>1, <2>2, <2>4 DEF IInv, ColumnsFit, Answered
  <1> QED
    BY <1>1, <1>5, <1>6, <1>7, <1>8, <1>9 DEF IInv

\* The save or the reset that waits for the mutations before it.
LEMMA StartStep ==
    ASSUME IInv, StartSave \/ StartReset
    PROVE  IInv'
  <1>1. /\ file' = file /\ table' = table /\ shown' = shown /\ order' = order /\ current' = current
        /\ page' = page /\ count' = count /\ payload' = payload /\ told' = told
        /\ unchanged' = unchanged /\ loading' = loading /\ replaced' = replaced /\ reads' = reads
        /\ made' = made /\ calls' = calls
        /\ dirty' = dirty /\ dataDirty' = dataDirty /\ overlapped' = overlapped /\ strayed' = strayed
        /\ saving = "no" /\ ~loading /\ saving' \in {"no", "settling"}
        /\ resetting' \in {resetting, "settling"} /\ resets' \in {resets, resets + 1}
    BY DEF StartSave, StartReset, Blocked, serverVars, viewVars, saveVars, stepVars
  <1>2. Pages' = Pages /\ Unanswered' = Unanswered
    BY <1>1 DEF Pages, Unanswered, Answered
  <1> HIDE DEF IInv
  <1>3. Types'
    BY <1>1 DEF IInv, Types
  <1>4. TablesFit' /\ CallsFit' /\ ReadsFit' /\ CallsHit'
    BY <1>1 DEF IInv, TablesFit, CallsFit, ReadsFit, CallsHit, Answered
  <1>5. SavesWait' /\ DirtyTells' /\ ColumnsFit'
    BY <1>1 DEF IInv, SavesWait, DirtyTells, ColumnsFit, Answered
  <1>6. RowsAreCurrent' /\ TextsFit'
    BY <1>1, <1>2 DEF IInv, RowsAreCurrent, TextsFit, Answered
  <1> QED
    BY <1>1, <1>3, <1>4, <1>5, <1>6 DEF IInv

-----------------------------------------------------------------------------
(* The page takes what the server has answered.                            *)

\* What is left of the calls when one has been taken.
LEMMA TakenFits ==
    ASSUME IInv, NEW c \in calls, Taken(c)
    PROVE  /\ file' = file /\ table' = table /\ made' = made /\ overlapped' = overlapped
           /\ resets' = resets /\ strayed' = strayed /\ calls' = calls \ {c}
           /\ TablesFit' /\ CallsFit' /\ CallsHit'
           /\ "calls" \notin overlapped => calls = {c} /\ calls' = {}
           /\ "save" \notin overlapped =>
                /\ saving \in {"no", "settling"} /\ dataDirty /\ ~replaced
                /\ \A e \in calls : e.op = "reset" => e = c /\ calls' = {}
  <1>1. /\ file' = file /\ table' = table /\ made' = made /\ overlapped' = overlapped
        /\ resets' = resets /\ strayed' = strayed /\ calls' = calls \ {c}
    BY DEF Taken, serverVars
  <1>2. TablesFit' /\ CallsFit' /\ CallsHit'
    BY <1>1 DEF IInv, TablesFit, CallsFit, CallsHit
  <1>3. "calls" \notin overlapped => calls = {c} /\ calls' = {}
    BY <1>1 DEF IInv, CallsHit
  <1>4. ASSUME "save" \notin overlapped
        PROVE  /\ saving \in {"no", "settling"} /\ dataDirty /\ ~replaced
               /\ \A e \in calls : e.op = "reset" => e = c /\ calls' = {}
    <2>1. saving \in {"no", "settling"}
      BY <1>4 DEF IInv, Types, SavesWait
    <2>2. dataDirty /\ ~replaced
      BY <1>4, <2>1 DEF IInv, DirtyTells
    <2>3. \A e \in calls : e.op = "reset" => e = c /\ calls' = {}
      BY <1>1, <1>4 DEF IInv, SavesWait
    <2> QED
      BY <2>1, <2>2, <2>3
  <1> QED
    BY <1>1, <1>2, <1>3, <1>4

\* An edit has been made: it is in the grid already.
LEMMA EditedStep ==
    ASSUME IInv, NEW c \in calls, Edited(c)
    PROVE  IInv'
  <1>0. c.op = "editCell" /\ c.phase = "done" /\ Taken(c)
    BY DEF Edited
  <1>1. /\ shown' = shown /\ order' = order /\ current' = current
        /\ page' = page /\ count' = count /\ saving' = saving /\ payload' = payload /\ told' = told
        /\ loading' = loading /\ replaced' = replaced /\ resetting' = resetting /\ reads' = reads
        /\ dirty' = TRUE /\ dataDirty' = TRUE /\ unchanged' = FALSE
    BY DEF Edited, MarkDataDirty, viewVars
  <1>2. /\ file' = file /\ table' = table /\ made' = made /\ overlapped' = overlapped
        /\ resets' = resets /\ strayed' = strayed /\ calls' = calls \ {c}
        /\ TablesFit' /\ CallsFit' /\ CallsHit'
        /\ "calls" \notin overlapped => calls = {c} /\ calls' = {}
        /\ "save" \notin overlapped =>
             /\ saving \in {"no", "settling"} /\ dataDirty /\ ~replaced
             /\ \A e \in calls : e.op = "reset" => e = c /\ calls' = {}
    BY <1>0, TakenFits
  <1>3. Pages' = Pages
    BY <1>1 DEF Pages
  <1> HIDE DEF IInv
  <1>4. Types'
    BY <1>1, <1>2 DEF IInv, Types
  <1>5. ReadsFit'
    BY <1>1 DEF IInv, ReadsFit
  <1>6. SavesWait' /\ DirtyTells'
    BY <1>1, <1>2 DEF IInv, SavesWait, DirtyTells
  <1>7. RowsAreCurrent'
    BY <1>0, <1>1, <1>2, <1>3 DEF IInv, RowsAreCurrent, Answered, RowOps
  <1>8. ColumnsFit'
    BY <1>0, <1>1, <1>2 DEF IInv, ColumnsFit, Answered, ColumnOps
  <1>9. TextsFit'
    <2>1. SUFFICES ASSUME overlapped = {} PROVE TextsFit'
      BY <1>2 DEF TextsFit
    <2>2. Unanswered = {} /\ Unanswered' = {}
      BY <1>0, <1>2, <2>1 DEF Unanswered, Answered
    <2>3. \A e \in calls : Answered(e) => e.op = "editCell"
      BY <1>0, <1>2, <2>1
    <2>4. saving \notin {"done", "told"}
      BY <1>2, <2>1
    <2>5. \A p \in Pages : p.cols = table.cols /\ p.edits = table.edits \union {<<e.row, e.id>> : e \in Unanswered}
      BY <2>1, <2>3, <2>4 DEF IInv, TextsFit
    <2> QED
      BY <1>2, <1>3, <2>2, <2>5 DEF TextsFit
  <1> QED
    BY <1>2, <1>4, <1>5, <1>6, <1>7, <1>8, <1>9 DEF IInv

\* Rows have been moved, put in or taken out: the grid is emptied, and the
\* columns that the page is told are the ones it shows.
LEMMA RowsTakenStep ==
    ASSUME IInv, NEW c \in calls, Swapped(c) \/ RowsChanged(c)
    PROVE  IInv'
  <1>0. /\ c.op \in {"swapRows", "deleteRow", "insertRow"} /\ Answered(c) /\ Taken(c) /\ RefreshRows
        /\ order' = order /\ saving' = saving /\ payload' = payload /\ told' = told
        /\ loading' = loading /\ replaced' = replaced /\ resetting' = resetting
        /\ dirty' = TRUE /\ dataDirty' = TRUE /\ unchanged' = FALSE
        /\ \/ shown' = shown /\ current' = current /\ count' = count
           \/ shown' = c.cols /\ current' = c.cols /\ count' = c.count /\ c.phase = "told"
    BY DEF Swapped, RowsChanged, MarkDataDirty, ApplySchema, Answered, RowOps
  <1>1. c \in Call
    BY DEF IInv, Types
  <1>2. /\ file' = file /\ table' = table /\ made' = made /\ overlapped' = overlapped
        /\ resets' = resets /\ strayed' = strayed /\ calls' = calls \ {c}
        /\ TablesFit' /\ CallsFit' /\ CallsHit'
        /\ "calls" \notin overlapped => calls = {c} /\ calls' = {}
        /\ "save" \notin overlapped =>
             /\ saving \in {"no", "settling"} /\ dataDirty /\ ~replaced
             /\ \A e \in calls : e.op = "reset" => e = c /\ calls' = {}
    BY <1>0, TakenFits
  <1>3. reads' \subseteq Read /\ page' = NoPage /\ ReadsFit' /\ Pages' = {}
    BY <1>0, RefreshFits DEF IInv
  <1> HIDE DEF IInv
  <1>4. Types'
    <2>1. shown' \in Seq(Name) /\ current' \in Seq(Name) /\ count' \in Nat
      BY <1>0, <1>1 DEF IInv, Types, Call
    <2> QED
      BY <1>0, <1>2, <1>3, <2>1 DEF IInv, Types
  <1>5. SavesWait' /\ DirtyTells'
    BY <1>0, <1>2 DEF IInv, SavesWait, DirtyTells
  <1>6. RowsAreCurrent'
    BY <1>3 DEF RowsAreCurrent
  <1>7. ColumnsFit'
    <2>1. SUFFICES ASSUME overlapped = {} PROVE ColumnsFit'
      BY <1>2 DEF ColumnsFit
    <2>2. calls = {c} /\ calls' = {} /\ saving \in {"no", "settling"}
      BY <1>2, <2>1
    <2>3. c.op \notin ColumnOps
      BY <1>0 DEF ColumnOps
    <2>4. /\ shown = current /\ Len(order) = Len(shown) /\ Range(order) = Range(shown)
          /\ shown = table.cols /\ (c.phase = "told" => c.cols = table.cols)
      BY <2>1, <2>2, <2>3 DEF IInv, ColumnsFit
    <2>5. shown' = shown /\ current' = shown
      BY <1>0, <2>4
    <2> QED
      BY <1>0, <1>2, <2>2, <2>4, <2>5 DEF ColumnsFit
  <1>8. TextsFit'
    <2>1. SUFFICES ASSUME overlapped = {} PROVE TextsFit'
      BY <1>2 DEF TextsFit
    <2>2. Unanswered' = {}
      BY <1>2, <2>1 DEF Unanswered
    <2> QED
      BY <1>3, <2>2 DEF TextsFit
  <1> QED
    BY <1>2, <1>3, <1>4, <1>5, <1>6, <1>7, <1>8 DEF IInv

\* Columns have changed, or the table is the file's again.
LEMMA ColumnsChangedStep ==
    ASSUME IInv, NEW c \in calls, ColumnsChanged(c)
    PROVE  IInv'
  <1>0. /\ c.op \in ColumnOps /\ c.phase = "told" /\ Answered(c) /\ Taken(c) /\ RefreshRows
        /\ order' = c.cols /\ saving' = saving /\ payload' = payload /\ told' = told
        /\ replaced' = replaced /\ shown' = c.cols /\ current' = c.cols /\ count' = c.count
        /\ unchanged' = FALSE
        /\ \/ /\ c.op = "reset" /\ dirty' = FALSE /\ dataDirty' = FALSE /\ loading' = FALSE
              /\ resetting' = "no"
           \/ dirty' = TRUE /\ dataDirty' = TRUE /\ loading' = loading /\ resetting' = resetting
    BY DEF ColumnsChanged, MarkDataDirty, ApplySchema, Answered
  <1>1. c \in Call
    BY DEF IInv, Types
  <1>2. /\ file' = file /\ table' = table /\ made' = made /\ overlapped' = overlapped
        /\ resets' = resets /\ strayed' = strayed /\ calls' = calls \ {c}
        /\ TablesFit' /\ CallsFit' /\ CallsHit'
        /\ "calls" \notin overlapped => calls = {c} /\ calls' = {}
        /\ "save" \notin overlapped =>
             /\ saving \in {"no", "settling"} /\ dataDirty /\ ~replaced
             /\ \A e \in calls : e.op = "reset" => e = c /\ calls' = {}
    BY <1>0, TakenFits
  <1>3. reads' \subseteq Read /\ page' = NoPage /\ ReadsFit' /\ Pages' = {}
    BY <1>0, RefreshFits DEF IInv
  <1> HIDE DEF IInv
  <1>4. Types'
    <2>1. c.cols \in Seq(Name) /\ c.count \in Nat
      BY <1>1 DEF Call
    <2>2. dirty' \in BOOLEAN /\ dataDirty' \in BOOLEAN /\ loading' \in BOOLEAN
          /\ resetting' \in {"no", "settling", "asked"}
      BY <1>0 DEF IInv, Types
    <2> QED
      BY <1>0, <1>2, <1>3, <2>1, <2>2 DEF IInv, Types
  <1>5. SavesWait'
    BY <1>0, <1>2 DEF SavesWait
  <1>6. DirtyTells'
    <2>1. dataDirty' => dirty'
      BY <1>0
    <2>2. replaced' => saving' \in {"done", "told"}
      BY <1>0 DEF IInv, DirtyTells
    <2>3. ASSUME "save" \notin overlapped, c.op = "reset" PROVE calls' = {} /\ table' = file'
      BY <1>0, <1>2, <2>3 DEF IInv, DirtyTells
    <2>4. ASSUME "save" \notin overlapped, c.op # "reset"
          PROVE dataDirty' /\ saving' \notin {"done", "told"} /\ \A e \in calls' : e.op # "reset"
      BY <1>0, <1>2, <2>4
    <2> QED
      BY <1>2, <2>1, <2>2, <2>3, <2>4 DEF DirtyTells
  <1>7. RowsAreCurrent'
    BY <1>3 DEF RowsAreCurrent
  <1>8. ColumnsFit'
    <2>1. SUFFICES ASSUME overlapped = {} PROVE ColumnsFit'
      BY <1>2 DEF ColumnsFit
    <2>2. calls = {c} /\ calls' = {} /\ saving \in {"no", "settling"}
      BY <1>2, <2>1
    <2>3. c.cols = table.cols
      BY <1>0, <2>1, <2>2 DEF IInv, ColumnsFit
    <2> QED
      BY <1>0, <1>2, <2>2, <2>3 DEF ColumnsFit
  <1>9. TextsFit'
    <2>1. SUFFICES ASSUME overlapped = {} PROVE TextsFit'
      BY <1>2 DEF TextsFit
    <2>2. Unanswered' = {}
      BY <1>2, <2>1 DEF Unanswered
    <2> QED
      BY <1>3, <2>2 DEF TextsFit
  <1> QED
    BY <1>2, <1>3, <1>4, <1>5, <1>6, <1>7, <1>8, <1>9 DEF IInv

\* A call has been refused: an edit's text is taken out of the grid.
LEMMA RefusedStep ==
    ASSUME IInv, NEW c \in calls, Refused(c)
    PROVE  IInv'
  <1>0. c.phase = "refused" /\ Taken(c) /\ ~Answered(c)
    BY DEF Refused, Answered
  <1>1. /\ shown' = shown /\ order' = order /\ current' = current
        /\ count' = count /\ payload' = payload /\ told' = told
        /\ replaced' = replaced /\ reads' = reads
        /\ dirty' = dirty /\ dataDirty' = dataDirty /\ unchanged' = unchanged
        /\ loading' = (loading /\ c.op # "reset")
        /\ resetting' \in {resetting, "no"}
        /\ saving' = saving \/ (saving = "settling" /\ saving' = "no")
        /\ page' = IF c.op = "editCell" /\ page # NoPage
                     THEN [page EXCEPT !.edits = {e \in @ : e[2] # c.id}] ELSE page
    BY DEF Refused
  <1>2. /\ file' = file /\ table' = table /\ made' = made /\ overlapped' = overlapped
        /\ resets' = resets /\ strayed' = strayed /\ calls' = calls \ {c}
        /\ TablesFit' /\ CallsFit' /\ CallsHit'
        /\ "calls" \notin overlapped => calls = {c} /\ calls' = {}
        /\ "save" \notin overlapped =>
             /\ saving \in {"no", "settling"} /\ dataDirty /\ ~replaced
             /\ \A e \in calls : e.op = "reset" => e = c /\ calls' = {}
    BY <1>0, TakenFits
  <1>3. page \in Table \union {NoPage} /\ NoPage \notin Table
    BY ValuesDiffer DEF IInv, Types
  <1>4. \/ page' = page /\ (c.op # "editCell" \/ page = NoPage)
        \/ /\ c.op = "editCell" /\ page \in Table /\ page' \in Table /\ page'.rows = page.rows
           /\ page'.cols = page.cols /\ page'.edits = {e \in page.edits : e[2] # c.id}
    <2>1. ASSUME c.op = "editCell", page # NoPage
          PROVE  /\ page \in Table /\ page' \in Table /\ page'.rows = page.rows
                 /\ page'.cols = page.cols /\ page'.edits = {e \in page.edits : e[2] # c.id}
      <3> DEFINE edits == {e \in page.edits : e[2] # c.id}
      <3>1. page \in Table
        BY <1>3, <2>1
      <3>2. edits \in SUBSET (Nat \X Nat)
        BY <3>1 DEF Table
      <3>3. page' = [page EXCEPT !.edits = edits]
        BY <1>1, <2>1
      <3> HIDE DEF edits
      <3>4. page' \in Table /\ page'.rows = page.rows /\ page'.cols = page.cols /\ page'.edits = edits
        BY <3>1, <3>2, <3>3 DEF Table
      <3> QED
        BY <3>1, <3>4 DEF edits
    <2> QED
      BY <1>1, <2>1
  <1>5. \A p \in Pages' : p \in Pages \/ (p = page' /\ page \in Pages /\ p.rows = page.rows)
    BY <1>1, <1>3, <1>4 DEF Pages
  <1> HIDE DEF IInv
  <1>6. Types'
    <2>1. page' \in Table \union {NoPage} /\ saving' \in {"no", "settling", "sent", "done", "told", "refused"}
          /\ resetting' \in {"no", "settling", "asked"} /\ loading' \in BOOLEAN
          /\ (saving' = "told" => told' \in Seq(Name) \X Nat)
      BY <1>1, <1>3, <1>4 DEF IInv, Types
    <2> QED
      BY <1>1, <1>2, <2>1 DEF IInv, Types
  <1>7. ReadsFit'
    BY <1>1, <1>3, <1>4 DEF IInv, ReadsFit
  <1>8. RowsAreCurrent'
    BY <1>0, <1>2, <1>5 DEF IInv, RowsAreCurrent, Answered
  <1>9. SavesWait'
    BY <1>1, <1>2 DEF SavesWait
  <1>10. DirtyTells'
    BY <1>1, <1>2 DEF IInv, DirtyTells
  <1>11. ColumnsFit'
    <2>1. SUFFICES ASSUME overlapped = {} PROVE ColumnsFit'
      BY <1>2 DEF ColumnsFit
    <2>2. calls = {c} /\ calls' = {} /\ saving \in {"no", "settling"} /\ saving' \in {"no", "settling"}
      BY <1>1, <1>2, <2>1
    <2>3. /\ shown = current /\ Len(order) = Len(shown) /\ Range(order) = Range(shown)
          /\ ~dirty => order = shown
          /\ shown = table.cols
      BY <1>0, <2>1, <2>2 DEF IInv, ColumnsFit
    <2> QED
      BY <1>1, <1>2, <2>2, <2>3 DEF ColumnsFit
  <1>12. TextsFit'
    <2>1. SUFFICES ASSUME overlapped = {} PROVE TextsFit'
      BY <1>2 DEF TextsFit
    <2>2. calls = {c} /\ calls' = {} /\ saving \in {"no", "settling"}
      BY <1>2, <2>1
    <2>3. Unanswered' = {} /\ Unanswered = (IF c.op = "editCell" THEN {c} ELSE {})
      BY <1>0, <2>2 DEF Unanswered
    <2>4. \A p \in Pages : p.cols = table.cols /\ p.edits = table.edits \union {<<e.row, e.id>> : e \in Unanswered}
      BY <1>0, <2>1, <2>2 DEF IInv, TextsFit
    <2>5. CASE c.op # "editCell"
      <3>1. Pages' = Pages
        BY <1>1, <1>4, <2>5 DEF Pages
      <3> QED
        BY <1>2, <2>3, <2>4, <2>5, <3>1 DEF TextsFit
    <2>6. CASE c.op = "editCell"
      <3>1. page # NoPage
        BY <2>1, <2>3, <2>6 DEF IInv, TextsFit
      <3>2. page \in Pages /\ page' # NoPage /\ \A r \in reads : ~r.alive
        BY <1>3, <1>4, <3>1 DEF IInv, ReadsFit, Pages
      <3>3. \A p \in Pages' : p = page'
        BY <1>1, <3>2 DEF Pages
      <3>4. page.cols = table.cols /\ page.edits = table.edits \union {<<c.row, c.id>>}
        BY <2>3, <2>4, <2>6, <3>2
      <3>5. \A e \in table.edits : e[2] # c.id
        BY <1>0 DEF IInv, TablesFit
      <3>6. page'.cols = table.cols /\ page'.edits = {e \in page.edits : e[2] # c.id}
        BY <1>4, <2>6, <3>1, <3>4
      <3>7. page'.edits = table.edits
        BY <3>4, <3>5, <3>6
      <3> QED
        BY <1>2, <2>3, <3>3, <3>6, <3>7 DEF TextsFit
    <2> QED
      BY <2>5, <2>6
  <1> QED
    BY <1>2, <1>6, <1>7, <1>8, <1>9, <1>10, <1>11, <1>12 DEF IInv

\* A block has come: it is shown unless it is a dead one.
LEMMA TakeRowsStep ==
    ASSUME IInv, NEW r \in reads, TakeRows(r)
    PROVE  IInv'
  <1>1. /\ file' = file /\ table' = table /\ shown' = shown /\ order' = order /\ current' = current
        /\ saving' = saving /\ payload' = payload /\ told' = told
        /\ unchanged' = unchanged /\ loading' = loading /\ replaced' = replaced
        /\ resetting' = resetting /\ resets' = resets /\ made' = made /\ calls' = calls
        /\ dirty' = dirty /\ dataDirty' = dataDirty /\ overlapped' = overlapped /\ strayed' = strayed
        /\ reads' = reads \ {r} /\ r.answer # NoPage /\ count' = Len(r.answer.rows)
        /\ page' = IF r.alive THEN r.answer ELSE page
    BY DEF TakeRows, serverVars, saveVars, stepVars
  <1>2. r \in Read /\ r.answer \in Table /\ count' \in Nat
    <2>1. r \in Read
      BY DEF IInv, Types
    <2>2. r.answer \in Table
      BY <1>1, <2>1 DEF Read
    <2>3. Len(r.answer.rows) \in Nat
      BY <2>2, LenProperties DEF Table
    <2> QED
      BY <1>1, <2>1, <2>2, <2>3
  <1>3. \A p \in Pages' : p \in Pages
    BY <1>1 DEF Pages
  <1>4. Unanswered' = Unanswered
    BY <1>1 DEF Unanswered, Answered
  <1> HIDE DEF IInv
  <1>5. Types'
    BY <1>1, <1>2 DEF IInv, Types
  <1>6. TablesFit' /\ CallsFit' /\ CallsHit' /\ SavesWait' /\ DirtyTells' /\ ColumnsFit'
    BY <1>1 DEF IInv, TablesFit, CallsFit, CallsHit, SavesWait, DirtyTells, ColumnsFit, Answered
  <1>7. ReadsFit'
    <2>1. \A x, y \in reads' : x.id = y.id \/ (x.alive /\ y.alive) => x = y
      BY <1>1 DEF IInv, ReadsFit
    <2>2. r.alive => \A x \in reads' : ~x.alive
      BY <1>1 DEF IInv, ReadsFit
    <2>3. page # NoPage => \A x \in reads' : ~x.alive
      BY <1>1 DEF IInv, ReadsFit
    <2> QED
      BY <1>1, <2>1, <2>2, <2>3 DEF ReadsFit
  <1>8. RowsAreCurrent'
    BY <1>1, <1>3 DEF IInv, RowsAreCurrent, Answered
  <1>9. TextsFit'
    BY <1>1, <1>3, <1>4 DEF IInv, TextsFit, Answered
  <1> QED
    BY <1>1, <1>5, <1>6, <1>7, <1>8, <1>9 DEF IInv

\* The columns that are kept are columns.
LEMMA KnownFits ==
    ASSUME NEW cols \in Seq(Name)
    PROVE  Known(cols) \in Seq(Name)
  <1> DEFINE n == Len(cols)
             none == <<>>
             Kept(f, i) == IF cols[i] \in Range(shown) THEN Append(f[i - 1], cols[i]) ELSE f[i - 1]
             After(f) == [i \in 0..n |-> IF i = 0 THEN none ELSE Kept(f, i)]
             kept == CHOOSE f : f = After(f)
  <1>1. n \in Nat /\ \A i \in 1..n : cols[i] \in Name
    BY LenProperties
  <1>2. Known(cols) = kept[n]
    BY DEF Known
  <1>3. none \in Seq(Name)
    OBVIOUS
  <1>4. ASSUME NEW f, NEW i \in 1..n, f[i - 1] \in Seq(Name) PROVE Kept(f, i) \in Seq(Name)
    BY <1>1, <1>4, AppendProperties
  <1> HIDE DEF none, n
  <1>5. \A i \in Nat : i + 1 # 0 /\ (i + 1) - 1 = i
    OBVIOUS
  <1> DEFINE Partial(f, m) == \A i \in 0..m : f[i] = IF i = 0 THEN none ELSE Kept(f, i)
             T == {m \in Nat : m <= n => \E f \in [0..m -> Seq(Name)] : Partial(f, m)}
  <1>6. 0 \in T
    <2>1. [i \in 0..0 |-> none] \in [0..0 -> Seq(Name)]
      BY <1>3
    <2>2. Partial([i \in 0..0 |-> none], 0)
      OBVIOUS
    <2> QED
      BY <2>1, <2>2
  <1>7. ASSUME NEW m \in T PROVE m + 1 \in T
    <2>1. SUFFICES ASSUME m + 1 <= n PROVE \E f \in [0..(m + 1) -> Seq(Name)] : Partial(f, m + 1)
      <3> HIDE DEF Partial
      <3> QED
        OBVIOUS
    <2>2. m \in Nat /\ m <= n /\ m + 1 \in 1..n
      BY <1>1, <2>1
    <2>3. PICK f \in [0..m -> Seq(Name)] : Partial(f, m)
      BY <2>2
    <2> DEFINE g == [i \in 0..(m + 1) |-> IF i = m + 1 THEN Kept(f, m + 1) ELSE f[i]]
    <2>4. /\ (m + 1) - 1 = m /\ m \in 0..m /\ m + 1 # 0
          /\ \A i \in 0..(m + 1) : i = m + 1 \/ (i \in 0..m /\ i # m + 1)
          /\ \A i \in 0..m : i # 0 => i - 1 \in 0..m /\ i - 1 # m + 1
          /\ \A i \in 0..m : i \in 0..(m + 1) /\ i # m + 1
      BY <2>2
    <2>5. f[m] \in Seq(Name)
      BY <2>3, <2>4
    <2>6. Kept(f, m + 1) \in Seq(Name)
      BY <1>4, <2>2, <2>4, <2>5
    <2>7. g \in [0..(m + 1) -> Seq(Name)]
      <3> HIDE DEF Kept
      <3> QED
        BY <2>4, <2>6
    <2>8. \A i \in 0..m : g[i] = f[i]
      <3> HIDE DEF Kept
      <3> QED
        BY <2>4
    <2>9. g[m + 1] = Kept(f, m + 1)
      <3> HIDE DEF Kept
      <3> QED
        BY <2>4
    <2> HIDE DEF g
    <2>10. \A i \in 0..m : i # 0 => Kept(g, i) = Kept(f, i)
      BY <2>4, <2>8
    <2>11. Kept(g, m + 1) = Kept(f, m + 1)
      BY <2>4, <2>8
    <2>12. Partial(g, m + 1)
      <3> HIDE DEF Kept
      <3> QED
        BY <2>3, <2>4, <2>8, <2>9, <2>10, <2>11
    <2> QED
      BY <2>7, <2>12
  <1>8. T = Nat
    <2>1. T \subseteq Nat
      OBVIOUS
    <2> HIDE DEF T
    <2> QED
      BY <1>6, <1>7, <2>1, NatSetInduction
  <1>9. PICK f \in [0..n -> Seq(Name)] : Partial(f, n)
    <2>1. n \in T
      BY <1>1, <1>8
    <2> HIDE DEF Partial
    <2> QED
      BY <1>1, <2>1
  <1>10. f = After(f)
    <2> HIDE DEF Kept
    <2> QED
      BY <1>9
  <1>11. kept = After(kept)
    BY <1>10
  <1> HIDE DEF kept
  <1> DEFINE U == {m \in Nat : m <= n => kept[m] \in Seq(Name)}
  <1>12. U = Nat
    <2>1. 0 \in U
      BY <1>1, <1>3, <1>11
    <2>2. ASSUME NEW m \in U PROVE m + 1 \in U
      <3>1. SUFFICES ASSUME m + 1 <= n PROVE kept[m + 1] \in Seq(Name)
        OBVIOUS
      <3>2. m \in Nat /\ m <= n /\ m + 1 \in 1..n /\ m + 1 \in 0..n /\ m + 1 # 0 /\ (m + 1) - 1 = m
        BY <1>1, <3>1
      <3>3. kept[m + 1] = Kept(kept, m + 1)
        <4> HIDE DEF Kept
        <4> QED
          BY <1>11, <3>2
      <3>4. kept[(m + 1) - 1] \in Seq(Name)
        BY <3>2
      <3>5. Kept(kept, m + 1) \in Seq(Name)
        BY <1>4, <3>2, <3>4
      <3> QED
        BY <3>3, <3>5
    <2>3. U \subseteq Nat
      OBVIOUS
    <2> HIDE DEF U
    <2> QED
      BY <2>1, <2>2, <2>3, NatSetInduction
  <1> QED
    <2>1. n \in U
      BY <1>1, <1>12
    <2>2. kept[n] \in Seq(Name)
      BY <1>1, <2>1
    <2> QED
      BY <1>2, <2>2

-----------------------------------------------------------------------------
(* Saving and resetting.                                                   *)

\* The save's request: the order, when the grid's is not the adapter's.
LEMMA PrepareStep ==
    ASSUME IInv, Prepare
    PROVE  IInv'
  <1>1. /\ file' = file /\ table' = table /\ shown' = shown /\ order' = order /\ current' = current
        /\ page' = page /\ count' = count /\ told' = told /\ reads' = reads
        /\ resetting' = resetting /\ resets' = resets /\ made' = made /\ calls' = calls
        /\ dirty' = dirty /\ dataDirty' = dataDirty /\ overlapped' = overlapped /\ strayed' = strayed
        /\ saving = "settling" /\ calls = {} /\ saving' = "sent" /\ loading' = TRUE
        /\ unchanged' = TRUE /\ replaced' = FALSE
    BY DEF Prepare, viewVars, stepVars
  <1>m. payload' = IF StartsLike(GridColumns, current) THEN <<>> ELSE GridColumns
    BY DEF Prepare
  <1>2. order \in Seq(Name) /\ current \in Seq(Name)
    BY DEF IInv, Types
  <1>3. payload' \in Seq(Name)
    BY <1>2, <1>m, KnownFits DEF GridColumns
  <1>4. Pages' = Pages /\ Unanswered' = Unanswered
    BY <1>1 DEF Pages, Unanswered, Answered
  <1> HIDE DEF IInv
  <1>5. Types'
    BY <1>1, <1>3 DEF IInv, Types
  <1>6. TablesFit' /\ CallsFit' /\ ReadsFit' /\ CallsHit' /\ SavesWait' /\ DirtyTells'
    BY <1>1 DEF IInv, TablesFit, CallsFit, ReadsFit, CallsHit, SavesWait, DirtyTells, Answered
  <1>7. RowsAreCurrent' /\ TextsFit'
    BY <1>1, <1>4 DEF IInv, RowsAreCurrent, TextsFit, Answered
  <1>8. ColumnsFit'
    <2>1. SUFFICES ASSUME overlapped = {} PROVE ColumnsFit'
      BY <1>1 DEF ColumnsFit
    <2>2. /\ shown = current /\ Len(order) = Len(shown) /\ Range(order) = Range(shown)
          /\ ~dirty => order = shown
          /\ shown = table.cols
      BY <1>1, <2>1 DEF IInv, ColumnsFit
    <2>3. GridColumns = order
      BY <1>2, <2>2, KnownKeepsAll DEF GridColumns
    <2>4. CASE StartsLike(order, current)
      <3>1. order = shown
        BY <1>2, <2>2, <2>4, SameStart
      <3>2. payload' = <<>>
        BY <1>m, <2>3, <2>4
      <3> QED
        BY <1>1, <2>2, <3>1, <3>2 DEF ColumnsFit
    <2>5. CASE ~StartsLike(order, current)
      <3>1. order # <<>>
        BY <2>5 DEF StartsLike
      <3>2. payload' = order
        BY <1>m, <2>3, <2>5
      <3> QED
        BY <1>1, <2>2, <3>1, <3>2 DEF ColumnsFit
    <2> QED
      BY <2>4, <2>5
  <1> QED
    BY <1>1, <1>5, <1>6, <1>7, <1>8 DEF IInv

\* The save's answer: the page is clean unless something was changed meanwhile.
LEMMA SavedStep ==
    ASSUME IInv, Saved
    PROVE  IInv'
  <1>1. /\ saving = "told" /\ saving' = "no" /\ loading' = FALSE
        /\ payload' = <<>> /\ told' = <<>> /\ replaced' = FALSE
        /\ file' = file /\ table' = table /\ unchanged' = unchanged
        /\ resetting' = resetting /\ resets' = resets /\ made' = made /\ calls' = calls
        /\ overlapped' = overlapped /\ strayed' = strayed
    BY DEF Saved, EndSave, serverVars, stepVars
  <1>2. told[1] \in Seq(Name) /\ told[2] \in Nat
    BY <1>1 DEF IInv, Types
  <1>3. <<>> \in Seq(Name)
    OBVIOUS
  <1>4. TablesFit' /\ CallsFit' /\ CallsHit'
    BY <1>1 DEF IInv, TablesFit, CallsFit, CallsHit
  <1>5. SavesWait'
    BY <1>1 DEF IInv, SavesWait
  <1>6. ASSUME "save" \notin overlapped PROVE calls = {} /\ unchanged /\ table = file
    BY <1>1, <1>6 DEF IInv, SavesWait, DirtyTells
  <1>7. CASE unchanged
    <2>1. /\ dirty' = FALSE /\ dataDirty' = FALSE /\ RefreshRows
          /\ shown' = told[1] /\ current' = told[1] /\ count' = told[2]
          /\ order' = IF shown # told[1] THEN told[1] ELSE order
      BY <1>7 DEF Saved, ApplySchema
    <2>2. reads' \subseteq Read /\ page' = NoPage /\ ReadsFit' /\ Pages' = {}
      BY <2>1, RefreshFits DEF IInv
    <2>3. Types'
      <3>1. order' \in Seq(Name)
        BY <1>2, <2>1 DEF IInv, Types
      <3> QED
        BY <1>1, <1>2, <1>3, <2>1, <2>2, <3>1 DEF IInv, Types
    <2>4. DirtyTells'
      BY <1>1, <1>6, <2>1 DEF DirtyTells
    <2>5. RowsAreCurrent'
      BY <2>2 DEF RowsAreCurrent
    <2>6. ColumnsFit'
      <3>1. SUFFICES ASSUME overlapped = {} PROVE ColumnsFit'
        BY <1>1 DEF ColumnsFit
      <3>2. calls = {} /\ told[1] = table.cols
        BY <1>1, <1>6, <3>1 DEF IInv, ColumnsFit
      <3>3. order' = table.cols
        BY <1>1, <2>1, <3>1, <3>2 DEF IInv, ColumnsFit
      <3> QED
        BY <1>1, <2>1, <3>2, <3>3 DEF ColumnsFit
    <2>7. TextsFit'
      <3>1. ASSUME overlapped = {} PROVE Unanswered' = {}
        BY <1>1, <1>6, <3>1 DEF Unanswered
      <3> QED
        BY <1>1, <2>2, <3>1 DEF TextsFit
    <2> QED
      BY <1>1, <1>4, <1>5, <2>2, <2>3, <2>4, <2>5, <2>6, <2>7 DEF IInv
  <1>8. CASE ~unchanged
    <2>1. /\ current' = told[1] /\ dirty' = dirty /\ dataDirty' = dataDirty /\ page' = page
          /\ reads' = reads /\ shown' = shown /\ count' = count /\ order' = order
      BY <1>8 DEF Saved
    <2>2. "save" \in overlapped
      BY <1>6, <1>8
    <2>3. Types'
      BY <1>1, <1>2, <1>3, <2>1 DEF IInv, Types
    <2>4. ReadsFit'
      BY <1>1, <2>1 DEF IInv, ReadsFit
    <2>5. DirtyTells' /\ ColumnsFit' /\ TextsFit'
      BY <1>1, <2>1, <2>2 DEF IInv, DirtyTells, ColumnsFit, TextsFit
    <2>6. Pages' = Pages
      BY <2>1 DEF Pages
    <2>7. RowsAreCurrent'
      BY <1>1, <2>6 DEF IInv, RowsAreCurrent, Answered
    <2> QED
      BY <1>1, <1>4, <1>5, <2>3, <2>4, <2>5, <2>7 DEF IInv
  <1> QED
    BY <1>7, <1>8

\* The save was refused: the page stays as it is.
LEMMA SaveFailedStep ==
    ASSUME IInv, SaveFailed
    PROVE  IInv'
  <1>1. /\ file' = file /\ table' = table /\ shown' = shown /\ order' = order /\ current' = current
        /\ page' = page /\ count' = count /\ unchanged' = unchanged /\ reads' = reads
        /\ resetting' = resetting /\ resets' = resets /\ made' = made /\ calls' = calls
        /\ dirty' = dirty /\ dataDirty' = dataDirty /\ overlapped' = overlapped /\ strayed' = strayed
        /\ saving = "refused" /\ saving' = "no" /\ loading' = FALSE
        /\ payload' = <<>> /\ told' = <<>> /\ replaced' = FALSE
    BY DEF SaveFailed, EndSave, serverVars, viewVars, stepVars
  <1>2. <<>> \in Seq(Name)
    OBVIOUS
  <1>3. Pages' = Pages /\ Unanswered' = Unanswered
    BY <1>1 DEF Pages, Unanswered, Answered
  <1> HIDE DEF IInv
  <1>4. Types'
    BY <1>1, <1>2 DEF IInv, Types
  <1>5. TablesFit' /\ CallsFit' /\ ReadsFit' /\ CallsHit' /\ SavesWait' /\ DirtyTells' /\ ColumnsFit'
    BY <1>1 DEF IInv, TablesFit, CallsFit, ReadsFit, CallsHit, SavesWait, DirtyTells, ColumnsFit, Answered
  <1>6. RowsAreCurrent' /\ TextsFit'
    BY <1>1, <1>3 DEF IInv, RowsAreCurrent, TextsFit, Answered
  <1> QED
    BY <1>1, <1>4, <1>5, <1>6 DEF IInv

\* The reset is sent as a mutation, behind its dialog.
LEMMA AskResetStep ==
    ASSUME IInv, AskReset
    PROVE  IInv'
  <1> DEFINE c == NewCall("reset")
  <1>1. /\ file' = file /\ table' = table /\ shown' = shown /\ order' = order /\ current' = current
        /\ page' = page /\ count' = count /\ saving' = saving /\ payload' = payload /\ told' = told
        /\ replaced' = replaced /\ reads' = reads /\ resets' = resets /\ strayed' = strayed
        /\ calls = {} /\ calls' = {c} /\ made' = made + 1 /\ loading' = TRUE /\ resetting' = "asked"
        /\ dirty' = TRUE /\ dataDirty' = TRUE /\ unchanged' = FALSE
        /\ overlapped' = overlapped \union (IF saving # "no" THEN {"save"} ELSE {})
    BY DEF AskReset, Dispatch, serverVars, viewVars
  <1>2. made \in Nat /\ Rows \in Nat
    BY ValuesDiffer DEF IInv, Types
  <1>3. c \in Call /\ c.id = made + 1 /\ c.phase = "sent" /\ c.op = "reset" /\ c.row = 0
    <2>1. c \in Call
      BY <1>2, NewCallFits DEF Ops, ColumnOps
    <2> QED
      BY <2>1 DEF NewCall
  <1> HIDE DEF c
  <1>4. Pages' = Pages /\ Unanswered = {} /\ Unanswered' = {}
    BY <1>1, <1>3 DEF Pages, Unanswered
  <1> HIDE DEF IInv
  <1>5. Types'
    <2>1. overlapped' \subseteq {"calls", "save"} /\ calls' \subseteq Call
      BY <1>1, <1>3 DEF IInv, Types
    <2>4. made' \in Nat
      BY <1>1, <1>2
    <2>2. /\ loading' \in BOOLEAN /\ dirty' \in BOOLEAN /\ dataDirty' \in BOOLEAN
          /\ unchanged' \in BOOLEAN /\ resetting' \in {"no", "settling", "asked"}
      BY <1>1
    <2>3. /\ file' \in Table /\ table' \in Table /\ reads' \subseteq Read
          /\ shown' \in Seq(Name) /\ order' \in Seq(Name) /\ current' \in Seq(Name)
          /\ page' \in Table \union {NoPage} /\ count' \in Nat
          /\ strayed' \in BOOLEAN /\ replaced' \in BOOLEAN
          /\ saving' \in {"no", "settling", "sent", "done", "told", "refused"}
          /\ payload' \in Seq(Name) /\ (saving' = "told" => told' \in Seq(Name) \X Nat)
          /\ resets' \in Nat
      BY <1>1 DEF IInv, Types
    <2> QED
      BY <2>1, <2>2, <2>3, <2>4 DEF Types
  <1>6. TablesFit'
    <2>1. \A t \in {file, table} :
            /\ \A i \in DOMAIN t.rows : t.rows[i] \in 1..(Rows + made)
            /\ IsInjective(t.cols)
            /\ \A e \in t.edits : e[2] \in 1..made
      BY DEF IInv, TablesFit
    <2>2. /\ \A k \in 1..made : k \in 1..(made + 1) /\ k # made + 1
          /\ \A k \in 1..(Rows + made) : k \in 1..(Rows + (made + 1))
      BY <1>2
    <2> QED
      BY <1>1, <1>3, <2>1, <2>2 DEF TablesFit
  <1>7. CallsFit'
    BY <1>1, <1>2, <1>3 DEF CallsFit
  <1>8. ReadsFit' /\ CallsHit'
    BY <1>1, <1>3 DEF IInv, ReadsFit, CallsHit
  <1>9. SavesWait' /\ DirtyTells'
    BY <1>1, <1>3 DEF IInv, SavesWait, DirtyTells, Answered
  <1>10. RowsAreCurrent'
    BY <1>1, <1>4 DEF IInv, RowsAreCurrent
  <1>11. ColumnsFit'
    BY <1>1, <1>3 DEF IInv, ColumnsFit, Answered
  <1>12. TextsFit'
    BY <1>1, <1>4 DEF IInv, TextsFit
  <1> QED
    BY <1>1, <1>5, <1>6, <1>7, <1>8, <1>9, <1>10, <1>11, <1>12 DEF IInv

-----------------------------------------------------------------------------
(* The theorems.                                                           *)

\* The view opens with nothing under way.
LEMMA InitFits ==
    ASSUME Init
    PROVE  IInv
  <1>1. /\ file = Opened /\ table = Opened /\ calls = {} /\ reads = {}
        /\ shown = Columns /\ order = Columns /\ current = Columns
        /\ page = Opened /\ count = Rows
        /\ dirty = FALSE /\ dataDirty = FALSE
        /\ saving = "no" /\ payload = <<>> /\ told = <<>> /\ unchanged = FALSE
        /\ loading = FALSE
        /\ resetting = "no" /\ resets = 0 /\ made = 0
        /\ overlapped = {} /\ strayed = FALSE /\ replaced = FALSE
    BY DEF Init
  <1>2. Opened \in Table /\ Opened.rows = [i \in 1..Rows |-> i] /\ Opened.cols = Columns /\ Opened.edits = {}
    <2>1. [i \in 1..Rows |-> i] \in Seq(Nat)
      BY ValuesDiffer
    <2> QED
      BY <2>1, ValuesDiffer DEF Opened, Table
  <1>3. IsInjective(Columns) /\ Columns \in Seq(Name) /\ Rows \in Nat
    BY ValuesDiffer
  <1>4. <<>> \in Seq(Name)
    OBVIOUS
  <1>5. Unanswered = {} /\ Pages = {Opened}
    BY <1>1, <1>2, ValuesDiffer DEF Unanswered, Pages
  <1>6. Types
    BY <1>1, <1>2, <1>3, <1>4 DEF Types
  <1>7. TablesFit
    <2>1. \A i \in 1..Rows : i \in 1..(Rows + 0)
      BY <1>3
    <2> QED
      BY <1>1, <1>2, <1>3, <2>1 DEF TablesFit
  <1>8. CallsFit /\ ReadsFit /\ CallsHit /\ SavesWait /\ DirtyTells
    BY <1>1 DEF CallsFit, ReadsFit, CallsHit, SavesWait, DirtyTells
  <1>9. ColumnsFit
    BY <1>1, <1>2 DEF ColumnsFit
  <1>10. RowsAreCurrent /\ TextsFit
    BY <1>1, <1>5 DEF RowsAreCurrent, TextsFit
  <1> QED
    BY <1>1, <1>6, <1>7, <1>8, <1>9, <1>10 DEF IInv

\* Every step keeps the invariant.
LEMMA StepFits ==
    ASSUME IInv, [Next]_vars
    PROVE  IInv'
  <1>1. CASE UserStep
    <2>1. CASE UserCalls
      <3>1. PICK c : Asked(c) /\ Act(c)
        BY <2>1, UserCallsFit DEF IInv
      <3> QED
        BY <3>1, UserCallStep
    <2>2. CASE MoveColumn
      BY <2>2, MoveColumnStep
    <2>3. CASE StartSave \/ StartReset
      BY <2>3, StartStep
    <2> QED
      BY <1>1, <2>1, <2>2, <2>3 DEF UserStep, UserCalls
  <1>2. CASE ServerStep
    <2>1. ASSUME NEW c \in calls, Handle(c) PROVE IInv'
      BY <2>1, HandleStep
    <2>2. ASSUME NEW c \in calls, Schema(c) PROVE IInv'
      BY <2>2, SchemaStep
    <2>3. ASSUME NEW r \in reads, ReadRows(r) PROVE IInv'
      BY <2>3, ReadRowsStep
    <2>4. CASE Save
      BY <2>4, SaveStep
    <2>5. CASE SavedSchema
      BY <2>5, SavedSchemaStep
    <2> QED
      BY <1>2, <2>1, <2>2, <2>3, <2>4, <2>5 DEF ServerStep
  <1>3. CASE PageStep
    <2>1. ASSUME NEW c \in calls, Edited(c) PROVE IInv'
      BY <2>1, EditedStep
    <2>2. ASSUME NEW c \in calls, Swapped(c) \/ RowsChanged(c) PROVE IInv'
      BY <2>2, RowsTakenStep
    <2>3. ASSUME NEW c \in calls, ColumnsChanged(c) PROVE IInv'
      BY <2>3, ColumnsChangedStep
    <2>4. ASSUME NEW c \in calls, Refused(c) PROVE IInv'
      BY <2>4, RefusedStep
    <2>5. ASSUME NEW r \in reads, TakeRows(r) PROVE IInv'
      BY <2>5, TakeRowsStep
    <2>6. CASE Prepare
      BY <2>6, PrepareStep
    <2>7. CASE Saved
      BY <2>7, SavedStep
    <2>8. CASE SaveFailed
      BY <2>8, SaveFailedStep
    <2>9. CASE AskReset
      BY <2>9, AskResetStep
    <2> QED
      BY <1>3, <2>1, <2>2, <2>3, <2>4, <2>5, <2>6, <2>7, <2>8, <2>9 DEF PageStep
  <1>4. CASE UNCHANGED vars
    <2>1. /\ file' = file /\ table' = table /\ calls' = calls /\ reads' = reads
          /\ shown' = shown /\ order' = order /\ current' = current /\ page' = page /\ count' = count
          /\ dirty' = dirty /\ dataDirty' = dataDirty /\ saving' = saving /\ payload' = payload
          /\ told' = told /\ unchanged' = unchanged /\ loading' = loading /\ replaced' = replaced
          /\ resetting' = resetting /\ resets' = resets /\ made' = made
          /\ overlapped' = overlapped /\ strayed' = strayed
      BY <1>4 DEF vars, serverVars, viewVars, saveVars, stepVars
    <2>2. Pages' = Pages /\ Unanswered' = Unanswered
      BY <2>1 DEF Pages, Unanswered, Answered
    <2>3. Types'
      BY <2>1 DEF IInv, Types
    <2>4. TablesFit' /\ CallsFit' /\ ReadsFit' /\ CallsHit' /\ SavesWait' /\ DirtyTells' /\ ColumnsFit'
      BY <2>1 DEF IInv, TablesFit, CallsFit, ReadsFit, CallsHit, SavesWait, DirtyTells, ColumnsFit, Answered
    <2>5. RowsAreCurrent' /\ TextsFit'
      BY <2>1, <2>2 DEF IInv, RowsAreCurrent, TextsFit, Answered
    <2> QED
      BY <2>1, <2>3, <2>4, <2>5 DEF IInv
  <1> QED
    BY <1>1, <1>2, <1>3, <1>4 DEF Next

\* What holds between the server's table, the grid and the requests under way.
THEOREM ViewInvariant == Spec => []IInv
  <1>1. Init => IInv
    BY InitFits
  <1>2. IInv /\ [Next]_vars => IInv'
    BY StepFits
  <1> QED
    BY <1>1, <1>2, PTL DEF Spec

\* Types; columns keep different names, and no two requests are taken for one another.
THEOREM NativeTypesHold == Spec => []NativeTypeOK
  <1>1. IInv => NativeTypeOK
    <2> SUFFICES ASSUME IInv PROVE NativeTypeOK
      OBVIOUS
    <2>1. \A t \in {file, table} :
            /\ \A i \in DOMAIN t.rows : t.rows[i] \in 1..(Rows + made)
            /\ \A i, j \in DOMAIN t.cols : i # j => t.cols[i] # t.cols[j]
      BY DEF IInv, TablesFit, IsInjective
    <2>2. (\A c, d \in calls : c.id = d.id => c = d)
          /\ \A q, r \in reads : q.id = r.id \/ (q.alive /\ r.alive) => q = r
      BY DEF IInv, CallsFit, ReadsFit
    <2>3. \A c \in calls : c.phase \in {"sent", "done", "told", "refused"}
      BY DEF IInv, Types, Call
    <2> QED
      BY <2>1, <2>2, <2>3 DEF NativeTypeOK, IInv, Types
  <1> QED
    BY <1>1, ViewInvariant, PTL

\* Once every answer has been taken, the grid shows the server's rows in the
\* server's order, whatever overlapped; and its columns and texts, as long as no
\* two operations have.
THEOREM GridShowsTheTable == Spec => []ViewIsTheTable
  <1>1. IInv => ViewIsTheTable
    <2> SUFFICES ASSUME IInv, calls = {}, saving = "no" PROVE
            /\ page = NoPage \/ page.rows = table.rows
            /\ overlapped = {} =>
                 /\ shown = table.cols /\ current = table.cols
                 /\ page \in {NoPage, table}
      BY DEF ViewIsTheTable, AtRest
    <2>1. page # NoPage => page \in Pages
      BY DEF Pages
    <2>2. page = NoPage \/ page.rows = table.rows
      BY <2>1 DEF IInv, RowsAreCurrent
    <2>3. overlapped = {} => shown = table.cols /\ current = table.cols
      BY DEF IInv, ColumnsFit
    <2>4. ASSUME overlapped = {}, page # NoPage PROVE page = table
      <3>1. Unanswered = {}
        BY DEF Unanswered
      <3>2. page.cols = table.cols /\ page.edits = table.edits \union {<<c.row, c.id>> : c \in Unanswered}
        BY <2>1, <2>4 DEF IInv, TextsFit
      <3>3. page.edits = table.edits
        BY <3>1, <3>2
      <3>4. page \in Table /\ table \in Table
        BY <2>4 DEF IInv, Types
      <3>5. \A s, t \in Table : s.rows = t.rows /\ s.cols = t.cols /\ s.edits = t.edits => s = t
        BY DEF Table
      <3> QED
        BY <2>2, <2>4, <3>2, <3>3, <3>4, <3>5
    <2> QED
      BY <2>2, <2>3, <2>4
  <1> QED
    BY <1>1, ViewInvariant, PTL

\* An edit, deletion or move changes the row it was made on, unless another
\* operation was under way.
THEOREM EditsHit == Spec => []EditsHitTheirRows
  <1>1. IInv => EditsHitTheirRows
    BY DEF IInv, EditsHitTheirRows
  <1> QED
    BY <1>1, ViewInvariant, PTL

\* A view without unsaved changes has nothing that is not in the file, and its
\* columns are in the file's order, with the exceptions that the property names.
THEOREM CleanIsSaved == Spec => []CleanMeansSaved
  <1>1. IInv => CleanMeansSaved
    <2> SUFFICES ASSUME IInv, calls = {}, saving = "no", ~dirty, "save" \notin overlapped PROVE
            /\ table = file
            /\ "calls" \notin overlapped => GridColumns = file.cols
      BY DEF CleanMeansSaved, AtRest
    <2>1. table = file
      BY DEF IInv, DirtyTells
    <2>2. ASSUME "calls" \notin overlapped PROVE GridColumns = file.cols
      <3>1. overlapped = {}
        BY <2>2 DEF IInv, Types
      <3>2. order = shown /\ shown = table.cols
        BY <3>1 DEF IInv, ColumnsFit
      <3>3. Known(order) = order
        BY <3>2, KnownKeepsAll DEF IInv, Types
      <3> QED
        BY <2>1, <3>2, <3>3 DEF GridColumns
    <2> QED
      BY <2>1, <2>2
  <1> QED
    BY <1>1, ViewInvariant, PTL

\* A save that has replaced the file leaves the view clean, unless something was
\* changed during it.
THEOREM SaveEndsClean == Spec => SavedMeansClean
  <1>1. IInv /\ [Next]_vars => [(saving # "no" /\ saving' = "no" /\ replaced) => (~dirty' \/ ~unchanged)]_vars
    <2> SUFFICES ASSUME IInv, Next, saving # "no", saving' = "no", replaced
                 PROVE  ~dirty' \/ ~unchanged
      OBVIOUS
    <2>1. saving \in {"done", "told"}
      BY DEF IInv, DirtyTells
    <2>2. CASE Saved
      BY <2>2 DEF Saved
    <2>3. ASSUME NEW c, Refused(c) PROVE FALSE
      BY <2>1, <2>3 DEF Refused
    <2>4. ASSUME UserStep PROVE FALSE
      BY <2>1, <2>4 DEF UserStep, Edit, Delete, Insert, Move, AddColumn, Rename, DropColumn, MoveColumn,
                        StartSave, StartReset, Act, Blocked
    <2>5. ASSUME ServerStep PROVE FALSE
      <3>1. ASSUME NEW c, Handle(c) \/ Schema(c) PROVE FALSE
        BY <3>1 DEF Handle, Schema, saveVars
      <3>2. ASSUME NEW r, ReadRows(r) PROVE FALSE
        BY <3>2 DEF ReadRows, saveVars
      <3>3. ASSUME Save \/ SavedSchema PROVE FALSE
        BY <3>3 DEF Save, SavedSchema
      <3> QED
        BY <2>5, <3>1, <3>2, <3>3 DEF ServerStep
    <2>6. ASSUME NEW c, Edited(c) \/ Swapped(c) \/ RowsChanged(c) \/ ColumnsChanged(c) PROVE FALSE
      BY <2>6 DEF Edited, Swapped, RowsChanged, ColumnsChanged
    <2>7. ASSUME NEW r, TakeRows(r) PROVE FALSE
      BY <2>7 DEF TakeRows, saveVars
    <2>8. ASSUME Prepare \/ SaveFailed \/ AskReset PROVE FALSE
      BY <2>1, <2>8 DEF Prepare, SaveFailed, AskReset
    <2>9. CASE PageStep
      BY <2>2, <2>3, <2>6, <2>7, <2>8, <2>9 DEF PageStep
    <2> QED
      BY <2>4, <2>5, <2>9 DEF Next
  <1> QED
    BY <1>1, ViewInvariant, PTL DEF Spec, SavedMeansClean

=============================================================================
