-------------------------- MODULE StoreUpdateProofs --------------------------
(***************************************************************************)
(* A store that append and merge maintain one run after the other, killed  *)
(* anywhere but between link() and remove(): for any number of runs and    *)
(* any files, what a reader of the store sees is what KeyedStore promises, *)
(* and reported rows stay.                                                 *)
(***************************************************************************)
EXTENDS StoreUpdate, WellFoundedInduction, SequenceTheorems, TLAPS

-----------------------------------------------------------------------------
(* What the loop over the incoming rows yields, for files of any length.   *)
(* The induction is over sets of numbers: a set of numbers that is not all *)
(* of Nat misses a smallest one.                                           *)

\* A set of numbers that has 0, and with each number the next one, has them all.
LEMMA NatSetInduction ==
  ASSUME NEW T, T \subseteq Nat, 0 \in T, \A n \in T : n + 1 \in T
  PROVE  T = Nat
<1> DEFINE R == {ss \in Nat \X Nat : ss[1] < ss[2]}
<1>1. SUFFICES ASSUME Nat \ T # {} PROVE FALSE
  OBVIOUS
<1>2. IsWellFoundedOn(R, Nat)
  BY ONLY NatLessThanWellFounded DEF OpToRel
<1> HIDE DEF R
<1>3. PICK x \in Nat \ T : \A y \in Nat \ T : <<y, x>> \notin R
  BY <1>1, <1>2, WFMin
<1>4. x # 0 /\ x - 1 \in Nat
  BY <1>3
<1>5. <<x - 1, x>> \in R
  BY <1>4 DEF R
<1>6. x - 1 \in T
  BY <1>3, <1>4, <1>5
<1>7. QED BY <1>3, <1>4, <1>6

\* g has the values that n steps go through, from the first one on.
Iterates(g, S, n, first, step) ==
  /\ g \in [0..n -> S] /\ g[0] = first
  /\ \A i \in 1..n : g[i] = step[i][g[i - 1]]

LEMMA IteratesExist ==
  ASSUME NEW S, NEW n \in Nat, NEW first \in S, NEW step \in [1..n -> [S -> S]]
  PROVE  \E g : Iterates(g, S, n, first, step)
<1> DEFINE Upto(k) == \E g \in [0..k -> S] : g[0] = first /\ \A i \in 1..k : g[i] = step[i][g[i - 1]]
<1> DEFINE T == {k \in Nat : k <= n => Upto(k)}
<1>1. 0 \in T
  <2> DEFINE g == [i \in 0..0 |-> first]
  <2>1. g \in [0..0 -> S] /\ g[0] = first /\ \A i \in 1..0 : g[i] = step[i][g[i - 1]]
    OBVIOUS
  <2>2. Upto(0)
    BY <2>1
  <2>3. QED BY <2>2
<1>2. ASSUME NEW k \in T, k + 1 <= n PROVE Upto(k + 1)
  <2>1. k \in Nat /\ Upto(k)
    BY <1>2
  <2>2. PICK g \in [0..k -> S] : g[0] = first /\ \A i \in 1..k : g[i] = step[i][g[i - 1]]
    BY <2>1
  <2> DEFINE h == [i \in 0..(k + 1) |-> IF i <= k THEN g[i] ELSE step[k + 1][g[k]]]
  <2>3. g[k] \in S /\ k + 1 \in 1..n
    BY <1>2, <2>1, <2>2
  <2>4. step[k + 1][g[k]] \in S
    BY <2>3
  <2>5. h \in [0..(k + 1) -> S]
    BY <2>1, <2>2, <2>4
  <2>6. h[0] = first
    BY <2>1, <2>2
  <2>7. ASSUME NEW i \in 1..(k + 1) PROVE h[i] = step[i][h[i - 1]]
    <3>1. CASE i <= k
      BY <2>1, <2>2, <3>1
    <3>2. CASE i = k + 1
      BY <2>1, <2>2, <3>2
    <3>3. QED BY <2>1, <2>7, <3>1, <3>2
  <2> HIDE DEF h
  <2>8. QED BY <2>5, <2>6, <2>7
<1> HIDE DEF Upto
<1>3. \A k \in T : k + 1 \in T
  BY <1>2
<1>4. T = Nat
  BY <1>1, <1>3, NatSetInduction
<1>5. Upto(n)
  BY <1>4
<1>6. QED BY <1>5 DEF Upto, Iterates

-----------------------------------------------------------------------------
(* The loop.                                                               *)

\* The rows that have been kept when i rows were read.
KeptUpTo(g, rows, known) ==
  /\ g[0] = <<>>
  /\ \A i \in 1..Len(rows) :
       g[i] = IF rows[i][1] \in known THEN g[i - 1] ELSE Append(g[i - 1], rows[i])

LEMMA NewRowsLoop ==
  ASSUME NEW Item, NEW rows \in Seq(Item), NEW known
  PROVE  \E g \in [0..Len(rows) -> Seq(Item)] :
           KeptUpTo(g, rows, known) /\ NewRows(rows, known) = g[Len(rows)]
<1> DEFINE n == Len(rows)
           S == Seq(Item)
           none == <<>>
           Kept(i, s) == IF rows[i][1] \in known THEN s ELSE Append(s, rows[i])
           After(f) == [i \in 0..n |-> IF i = 0 THEN none ELSE Kept(i, f[i - 1])]
           step == [i \in 1..n |-> [s \in S |-> Kept(i, s)]]
           loop == CHOOSE f : f = After(f)
<1>1. n \in Nat /\ none \in S
  OBVIOUS
<1>2. \A i \in 1..n : \A s \in S : Kept(i, s) \in S
  OBVIOUS
<1>3. NewRows(rows, known) = loop[n]
  BY DEF NewRows
<1>4. ASSUME NEW g \in [0..n -> S], g[0] = none, \A i \in 1..n : g[i] = Kept(i, g[i - 1])
      PROVE  KeptUpTo(g, rows, known)
  BY <1>4 DEF KeptUpTo
<1> HIDE DEF n, S, none, Kept
<1>5. step \in [1..n -> [S -> S]]
  BY <1>2
<1>6. PICK g \in [0..n -> S] : g[0] = none /\ \A i \in 1..n : g[i] = step[i][g[i - 1]]
  <2> HIDE DEF step
  <2>1. \E g : Iterates(g, S, n, none, step)
    BY <1>1, <1>5, IteratesExist
  <2>2. QED BY <2>1 DEF Iterates
<1>7. ASSUME NEW i \in 1..n PROVE g[i] = Kept(i, g[i - 1])
  <2>1. g[i] = step[i][g[i - 1]] /\ i - 1 \in 0..n
    BY <1>1, <1>6
  <2>2. g[i - 1] \in S
    BY <2>1
  <2>3. QED BY <2>1, <2>2
<1>8. g = After(g)
  BY <1>1, <1>6, <1>7
<1>9. loop = After(loop)
  <2> HIDE DEF After
  <2>1. QED BY <1>8
<1> HIDE DEF loop
<1>10. loop[0] = none /\ \A i \in 1..n : loop[i] = Kept(i, loop[i - 1])
  BY <1>1, <1>9
<1> DEFINE T == {k \in Nat : k <= n => loop[k] \in S}
<1>11. T = Nat
  <2>1. 0 \in T
    BY <1>1, <1>10
  <2>2. ASSUME NEW k \in T PROVE k + 1 \in T
    <3>1. CASE k + 1 <= n
      <4>1. k + 1 \in 1..n /\ (k + 1) - 1 = k /\ loop[k] \in S
        BY <1>1, <3>1
      <4>2. loop[k + 1] \in S
        BY <1>2, <1>10, <4>1
      <4>3. QED BY <4>1, <4>2
    <3>2. CASE ~(k + 1 <= n)
      BY <3>2
    <3>3. QED BY <3>1, <3>2
  <2>3. T \subseteq Nat
    OBVIOUS
  <2> HIDE DEF T
  <2>4. QED BY <2>1, <2>2, <2>3, NatSetInduction
<1>12. loop \in [0..n -> S]
  <2>1. \A i \in 0..n : loop[i] \in S
    BY <1>1, <1>11
  <2>2. loop = [i \in 0..n |-> loop[i]]
    BY <1>9
  <2>3. QED BY <2>1, <2>2
<1>13. KeptUpTo(loop, rows, known)
  BY <1>4, <1>10, <1>12
<1>14. QED BY <1>3, <1>12, <1>13 DEF n, S

LEMMA NewRowsType ==
  ASSUME NEW Item, NEW rows \in Seq(Item), NEW known
  PROVE  NewRows(rows, known) \in Seq(Item)
  BY NewRowsLoop

\* Where no key is known, every row is new.
LEMMA NewRowsOfAll ==
  ASSUME NEW Item, NEW rows \in Seq(Item)
  PROVE  NewRows(rows, {}) = rows
<1>1. PICK g \in [0..Len(rows) -> Seq(Item)] :
        KeptUpTo(g, rows, {}) /\ NewRows(rows, {}) = g[Len(rows)]
  BY NewRowsLoop
<1> DEFINE n == Len(rows)
           T == {k \in Nat : k <= n => Len(g[k]) = k /\ \A j \in 1..k : g[k][j] = rows[j]}
<1>2. n \in Nat /\ \A i \in 1..n : rows[i] \in Item
  OBVIOUS
<1>3. g[0] = <<>> /\ \A i \in 1..n : g[i] = Append(g[i - 1], rows[i])
  BY <1>1 DEF KeptUpTo
<1>4. T = Nat
  <2>1. 0 \in T
    BY <1>3
  <2>2. ASSUME NEW k \in T PROVE k + 1 \in T
    <3>1. CASE k + 1 <= n
      <4>1. /\ k \in 0..n /\ k + 1 \in 1..n /\ (k + 1) - 1 = k
            /\ Len(g[k]) = k /\ \A j \in 1..k : g[k][j] = rows[j]
        <5>1. k \in Nat /\ k <= n
          BY <1>2, <3>1
        <5>2. Len(g[k]) = k
          BY <5>1
        <5>3. \A j \in 1..k : g[k][j] = rows[j]
          BY <5>1
        <5>4. QED BY <1>2, <3>1, <5>1, <5>2, <5>3
      <4>2. g[k] \in Seq(Item) /\ rows[k + 1] \in Item /\ g[k + 1] = Append(g[k], rows[k + 1])
        BY <1>2, <1>3, <4>1
      <4> HIDE DEF n
      <4>3. Len(g[k + 1]) = k + 1 /\ \A j \in 1..(k + 1) : g[k + 1][j] = rows[j]
        BY <4>1, <4>2
      <4>4. QED BY <4>1, <4>3
    <3>2. CASE ~(k + 1 <= n)
      BY <3>2
    <3>3. QED BY <3>1, <3>2
  <2>3. T \subseteq Nat
    OBVIOUS
  <2> HIDE DEF T
  <2>4. QED BY <2>1, <2>2, <2>3, NatSetInduction
<1>5. Len(g[n]) = n /\ \A j \in 1..n : g[n][j] = rows[j]
  BY <1>2, <1>4
<1>6. g[n] \in Seq(Item)
  BY <1>2
<1>7. g[n] = rows
  BY <1>5, <1>6, SeqEqual
<1>8. QED BY <1>1, <1>7

\* Appending a row adds its key.
LEMMA KeysOfAppend ==
  ASSUME NEW Item, NEW rows \in Seq(Item), NEW row \in Item
  PROVE  Keys(Append(rows, row)) = Keys(rows) \union {row[1]}
<1>1. /\ DOMAIN Append(rows, row) = DOMAIN rows \union {Len(rows) + 1}
      /\ Append(rows, row)[Len(rows) + 1] = row
      /\ \A i \in DOMAIN rows : Append(rows, row)[i] = rows[i]
  OBVIOUS
<1>2. QED BY <1>1 DEF Keys

LEMMA KeysOfConcat ==
  ASSUME NEW Item, NEW a \in Seq(Item), NEW b \in Seq(Item)
  PROVE  Keys(a \o b) = Keys(a) \union Keys(b)
<1>1. \A i \in DOMAIN a : i \in DOMAIN (a \o b) /\ (a \o b)[i] = a[i]
  OBVIOUS
<1>2. \A i \in DOMAIN b : i + Len(a) \in DOMAIN (a \o b) /\ (a \o b)[i + Len(a)] = b[i]
  OBVIOUS
<1>3. \A k \in DOMAIN (a \o b) :
        \/ k \in DOMAIN a
        \/ k - Len(a) \in DOMAIN b /\ k = (k - Len(a)) + Len(a)
  OBVIOUS
<1>4. ASSUME NEW k \in DOMAIN (a \o b) PROVE (a \o b)[k][1] \in Keys(a) \union Keys(b)
  <2>1. CASE k \in DOMAIN a
    BY <1>1, <2>1 DEF Keys
  <2>2. CASE k - Len(a) \in DOMAIN b /\ k = (k - Len(a)) + Len(a)
    BY <1>2, <2>2 DEF Keys
  <2>3. QED BY <1>3, <2>1, <2>2
<1>5. Keys(a) \subseteq Keys(a \o b)
  BY <1>1 DEF Keys
<1>6. Keys(b) \subseteq Keys(a \o b)
  BY <1>2 DEF Keys
<1>7. Keys(a \o b) \subseteq Keys(a) \union Keys(b)
  BY <1>4 DEF Keys
<1>8. QED BY <1>5, <1>6, <1>7

\* With what was known, the new rows have every key of the incoming ones.
LEMMA KeysOfNewRows ==
  ASSUME NEW Item, NEW rows \in Seq(Item), NEW known
  PROVE  Keys(rows) \subseteq known \union Keys(NewRows(rows, known))
<1>1. PICK g \in [0..Len(rows) -> Seq(Item)] :
        KeptUpTo(g, rows, known) /\ NewRows(rows, known) = g[Len(rows)]
  BY NewRowsLoop
<1> DEFINE n == Len(rows)
           T == {k \in Nat : k <= n => \A j \in 1..k : rows[j][1] \in known \union Keys(g[k])}
<1>2. n \in Nat /\ \A i \in 1..n : rows[i] \in Item
  OBVIOUS
<1>3. \A i \in 1..n : g[i] = IF rows[i][1] \in known THEN g[i - 1] ELSE Append(g[i - 1], rows[i])
  BY <1>1 DEF KeptUpTo
<1>4. T = Nat
  <2>1. 0 \in T
    OBVIOUS
  <2>2. ASSUME NEW k \in T PROVE k + 1 \in T
    <3>1. CASE k + 1 <= n
      <4>0. k \in Nat /\ k <= n
        BY <1>2, <3>1
      <4>1. /\ k \in 0..n /\ k + 1 \in 1..n /\ (k + 1) - 1 = k
            /\ \A j \in 1..k : rows[j][1] \in known \union Keys(g[k])
        <5>1. k \in 0..n /\ k + 1 \in 1..n /\ (k + 1) - 1 = k
          BY <1>2, <3>1, <4>0
        <5>2. \A j \in 1..k : rows[j][1] \in known \union Keys(g[k])
          <6> HIDE DEF n
          <6> QED
            BY <4>0
        <5> QED
          BY <5>1, <5>2
      <4>2. g[k] \in Seq(Item) /\ rows[k + 1] \in Item
        BY <1>2, <4>1
      <4> DEFINE row == rows[k + 1]
      <4>3. g[k + 1] = IF row[1] \in known THEN g[k] ELSE Append(g[k], row)
        BY <1>3, <4>1
      <4>4. Keys(Append(g[k], row)) = Keys(g[k]) \union {row[1]}
        BY <4>2, KeysOfAppend
      <4>5. \A j \in 1..(k + 1) : j \in 1..k \/ j = k + 1
        BY <4>1
      <4> HIDE DEF n
      <4>6. \A j \in 1..(k + 1) : rows[j][1] \in known \union Keys(g[k + 1])
        BY <4>1, <4>3, <4>4, <4>5
      <4>7. QED BY <4>1, <4>6
    <3>2. CASE ~(k + 1 <= n)
      BY <3>2
    <3>3. QED BY <3>1, <3>2
  <2>3. T \subseteq Nat
    OBVIOUS
  <2> HIDE DEF T
  <2>4. QED BY <2>1, <2>2, <2>3, NatSetInduction
<1>5. \A j \in 1..n : rows[j][1] \in known \union Keys(g[n])
  BY <1>2, <1>4
<1>6. Keys(rows) = {rows[j][1] : j \in 1..n}
  BY DEF Keys
<1>7. QED BY <1>1, <1>5, <1>6


-----------------------------------------------------------------------------
(* The inductive invariant.                                                *)

Labels == {"idle", "look", "keys", "open", "read", "write", "move", "unlink", "done", "killed"}
Kinds == {"append", "merge", "create"}
AllKeys == {row[1] : row \in Row}

Types ==
  /\ content \in Seq(Seq(Row))
  /\ store \in DOMAIN content \union {NoFile} /\ temp \in DOMAIN content \union {NoFile}
  /\ pc \in [Run -> Labels] /\ kind \in [Run -> Kinds]
  /\ incoming \in [Run -> Incoming \union {<<>>}]
  /\ present \in [Run -> BOOLEAN] /\ keys \in [Run -> SUBSET AllKeys]
  /\ out \in [Run -> Seq(Row)] /\ offset \in [Run -> Nat]
  /\ handle \in [Run -> DOMAIN content \union {NoFile}]
  /\ result \in [Run -> {"none", "ok", "failed"}]
  /\ \A r \in Run : offset[r] <= Len(out[r])

OneAtWork == \A r, s \in Run : Active(r) /\ Active(s) => r = s

\* The two names are apart, but between link() and remove().
NamesApart == temp = store => temp = NoFile \/ \E r \in Run : pc[r] = "unlink"

\* The rows a run starts from.
Existing(r) == IF present[r] THEN content[store] ELSE <<>>

\* What the run knows of the store, which nobody else changes once it is there.
KnowsTheStore(r) ==
  /\ present[r] => store # NoFile
  /\ kind[r] # "create" => present[r]
  /\ IF kind[r] = "append" THEN keys[r] = {}
     ELSE KeysDiffer(Existing(r)) /\ KeysDiffer(incoming[r]) /\ keys[r] = Keys(Existing(r))

\* The temporary file is its own, and has what was written so far.
HasWritten(r) ==
  /\ temp # NoFile /\ handle[r] = temp /\ Len(content[temp]) = offset[r]
  /\ pc[r] # "read" => /\ out[r] = Existing(r) \o NewRows(incoming[r], keys[r])
                       /\ \A i \in 1..offset[r] : content[temp][i] = out[r][i]
  /\ pc[r] = "read" => offset[r] = 0
  /\ pc[r] = "move" => offset[r] = Len(out[r])

AtWork(r) ==
  /\ pc[r] \in {"idle", "look", "keys"} => keys[r] = {}
  /\ pc[r] # "done" => result[r] = "none"
  /\ Active(r) => incoming[r] \in Incoming
  /\ pc[r] = "keys" => (kind[r] # "append") /\ (kind[r] # "create" => present[r])
                       /\ (present[r] => store # NoFile)
  /\ pc[r] \in {"open", "read", "write", "move"} => KnowsTheStore(r)
  /\ pc[r] \in {"read", "write", "move"} => HasWritten(r)
  /\ pc[r] = "unlink" => store # NoFile /\ temp = store /\ Keys(incoming[r]) \subseteq Keys(content[store])

IInv ==
  /\ Types /\ OneAtWork /\ NamesApart /\ LeftoverOnlyWhenKilled /\ ReportedRowsStay
  /\ \A r \in Run : AtWork(r)

-----------------------------------------------------------------------------
(* Each step keeps the invariant.                                          *)

USE StoreUpdateAssumption DEF disk, local

LEMMA Alone ==
  ASSUME IInv, NEW r \in Run, Active(r)
  PROVE  \A s \in Run : s # r => ~Active(s) /\ pc[s] \in {"idle", "done", "killed"}
  BY DEF IInv, OneAtWork, Active

LEMMA NotTheStore ==
  ASSUME IInv, NEW r \in Run, Active(r), pc[r] # "unlink", temp # NoFile
  PROVE  temp # store
<1>1. \A s \in Run : pc[s] # "unlink"
  BY Alone
<1>2. QED BY <1>1 DEF IInv, NamesApart

\* A run that is not under way asks little of the state.
LEMMA RestIsEasy ==
  ASSUME NEW s \in Run, AtWork(s), pc'[s] = pc[s], keys'[s] = keys[s], result'[s] = result[s],
         ~Active(s)
  PROVE  AtWork(s)'
  BY DEF AtWork, Active

LEMMA StillAlone ==
  ASSUME IInv, NEW r \in Run, \A s \in Run : s # r => ~Active(s),
         NEW l \in Labels, pc' = [pc EXCEPT ![r] = l],
         \A s \in Run : s # r => keys'[s] = keys[s] /\ result'[s] = result[s]
  PROVE  OneAtWork' /\ \A s \in Run : s # r => AtWork(s)'
<1>1. \A s \in Run : s # r => pc'[s] = pc[s]
  BY DEF IInv, Types
<1>2. \A s \in Run : s # r => AtWork(s)'
  BY <1>1, RestIsEasy DEF IInv
<1>3. OneAtWork'
  BY <1>1 DEF OneAtWork, Active
<1>4. QED BY <1>2, <1>3

\* What a reader sees is as it was: so are the rows that were reported.
LEMMA ReportedStay ==
  ASSUME IInv, store # NoFile => store' = store /\ content'[store] = content[store],
         \A s \in Run : result'[s] = "ok" => result[s] = "ok" /\ incoming'[s] = incoming[s]
  PROVE  ReportedRowsStay'
<1>1. ASSUME NEW s \in Run, result'[s] = "ok"
      PROVE  store' # NoFile /\ Keys(incoming'[s]) \subseteq Keys(content'[store'])
  <2>1. result[s] = "ok" /\ incoming'[s] = incoming[s]
    BY <1>1
  <2>2. store # NoFile /\ Keys(incoming[s]) \subseteq Keys(content[store])
    BY <2>1 DEF IInv, ReportedRowsStay
  <2>3. QED BY <2>1, <2>2
<1>2. QED BY <1>1 DEF ReportedRowsStay

LEMMA KeysType == ASSUME NEW rows \in Seq(Row) PROVE Keys(rows) \subseteq AllKeys
<1>1. \A i \in DOMAIN rows : rows[i] \in Row
  OBVIOUS
<1>2. QED BY <1>1 DEF Keys, AllKeys

LEMMA RowsTypes ==
  ASSUME Types, NEW r \in Run
  PROVE  /\ incoming[r] \in Seq(Row) /\ NewRows(incoming[r], keys[r]) \in Seq(Row)
         /\ (present[r] => store # NoFile) => Existing(r) \in Seq(Row)
<1>1. incoming[r] \in Seq(Row)
  <2>1. incoming[r] \in Incoming \union {<<>>}
    BY DEF Types
  <2>2. <<>> \in Seq(Row)
    OBVIOUS
  <2>3. QED BY <2>1, <2>2
<1>2. NewRows(incoming[r], keys[r]) \in Seq(Row)
  BY <1>1, NewRowsType
<1>3. (present[r] => store # NoFile) => Existing(r) \in Seq(Row)
  BY DEF Types, Existing
<1>4. QED BY <1>1, <1>2, <1>3

\* The record that comes next goes to the end of what was written.
LEMMA WriteAtTheEnd ==
  ASSUME NEW rows \in Seq(Row), NEW row \in Row
  PROVE  WriteAt(rows, Len(rows) + 1, row) = Append(rows, row)
<1> DEFINE n == Len(rows) + 1
<1>1. n \in Nat /\ Len(rows) \in Nat /\ n > Len(rows)
  OBVIOUS
<1>2. Max({n, Len(rows)}) = n
  BY <1>1 DEF Max
<1>3. WriteAt(rows, n, row) = [i \in 1..n |-> IF i = n THEN row ELSE IF i <= Len(rows) THEN rows[i] ELSE Hole]
  BY <1>2 DEF WriteAt
<1>4. /\ Append(rows, row) \in Seq(Row) /\ Len(Append(rows, row)) = n
      /\ Append(rows, row)[n] = row /\ \A i \in 1..Len(rows) : Append(rows, row)[i] = rows[i]
  OBVIOUS
<1>5. Append(rows, row) = [i \in 1..n |-> Append(rows, row)[i]]
  <2>1. Append(rows, row) \in [1..n -> Row]
    BY <1>4, LenProperties
  <2>2. QED BY <2>1
<1> HIDE DEF n
<1>6. \A i \in 1..n : i = n \/ i \in 1..Len(rows)
  BY <1>1 DEF n
<1>7. [i \in 1..n |-> Append(rows, row)[i]]
        = [i \in 1..n |-> IF i = n THEN row ELSE IF i <= Len(rows) THEN rows[i] ELSE Hole]
  BY <1>1, <1>4, <1>6
<1>8. QED BY <1>3, <1>5, <1>7 DEF n

\* One record is added to the temporary file, which is not the store.
LEMMA WrittenRow ==
  ASSUME IInv, NEW r \in Run, WriteRow(r)
  PROVE  /\ content' = [content EXCEPT ![temp] = Append(@, out[r][offset[r] + 1])]
         /\ out[r][offset[r] + 1] \in Row /\ temp \in DOMAIN content /\ store # temp
<1> DEFINE row == out[r][offset[r] + 1]
<1>1. pc[r] = "write" /\ handle[r] = temp /\ temp \in DOMAIN content /\ Len(content[temp]) = offset[r]
      /\ temp # NoFile
  BY DEF WriteRow, IInv, Types, AtWork, HasWritten
<1>2. offset[r] + 1 \in 1..Len(out[r]) /\ out[r] \in Seq(Row)
  BY DEF WriteRow, IInv, Types
<1>3. row \in Row
  BY <1>2
<1>4. content[temp] \in Seq(Row)
  BY <1>1 DEF IInv, Types
<1>5. WriteAt(content[temp], offset[r] + 1, row) = Append(content[temp], row)
  BY <1>1, <1>3, <1>4, WriteAtTheEnd
<1>6. content' = [content EXCEPT ![temp] = WriteAt(content[temp], offset[r] + 1, row)]
  BY <1>1 DEF WriteRow
<1>7. store # temp
  BY <1>1, NotTheStore DEF Active, IInv, Types
<1>8. QED BY <1>1, <1>3, <1>5, <1>6, <1>7

\* What is moved into place is the rows that were there and the new ones.
LEMMA WhatIsMoved ==
  ASSUME Types, NEW r \in Run, AtWork(r), pc[r] = "move"
  PROVE  /\ content[temp] = Existing(r) \o NewRows(incoming[r], keys[r])
         /\ Keys(Existing(r)) \subseteq Keys(content[temp])
         /\ Keys(incoming[r]) \subseteq Keys(content[temp])
         /\ temp # NoFile /\ (present[r] => store # NoFile)
<1>1. KnowsTheStore(r) /\ HasWritten(r)
  BY DEF AtWork
<1>2. temp \in DOMAIN content /\ content[temp] \in Seq(Row) /\ out[r] \in Seq(Row)
  BY <1>1 DEF Types, HasWritten
<1>3. Len(content[temp]) = Len(out[r]) /\ \A i \in 1..Len(out[r]) : content[temp][i] = out[r][i]
  BY <1>1 DEF HasWritten
<1>4. content[temp] = out[r]
  BY <1>2, <1>3, SeqEqual
<1>5. content[temp] = Existing(r) \o NewRows(incoming[r], keys[r])
  BY <1>1, <1>4 DEF HasWritten
<1>6. Existing(r) \in Seq(Row) /\ incoming[r] \in Seq(Row) /\ NewRows(incoming[r], keys[r]) \in Seq(Row)
  BY <1>1, RowsTypes DEF KnowsTheStore
<1>7. Keys(content[temp]) = Keys(Existing(r)) \union Keys(NewRows(incoming[r], keys[r]))
  BY <1>5, <1>6, KeysOfConcat
<1>8. keys[r] \subseteq Keys(Existing(r))
  BY <1>1 DEF KnowsTheStore
<1>9. Keys(incoming[r]) \subseteq keys[r] \union Keys(NewRows(incoming[r], keys[r]))
  BY <1>6, KeysOfNewRows
<1>10. QED BY <1>1, <1>5, <1>7, <1>8, <1>9 DEF HasWritten, KnowsTheStore

LEMMA IInvNext == ASSUME IInv, Next, ~Overlapping, ~CrashInMove PROVE IInv'
<1>1. ASSUME NEW r \in Run, NEW k \in Kinds, NEW file \in Incoming, Start(r, k, file) PROVE IInv'
  <2>1. \A s \in Run : s # r => ~Active(s)
    BY <1>1, Alone DEF Start, Goto, Active, IInv, Types
  <2>2. Types'
    BY <1>1 DEF Start, Goto, Active, IInv, Types, Labels, Kinds, AllKeys
  <2>3. OneAtWork' /\ \A s \in Run : s # r => AtWork(s)'
    BY <1>1, <2>1, StillAlone DEF Start, Goto, Active, Labels, IInv, Types
  <2>4. NamesApart'
    BY <1>1, <2>1 DEF Start, Goto, Active, IInv, Types, NamesApart, AtWork, HasWritten
  <2>5. LeftoverOnlyWhenKilled'
    BY <1>1, <2>1 DEF Start, Goto, Active, IInv, Types, LeftoverOnlyWhenKilled
  <2>6. ReportedRowsStay'
    BY <1>1, ReportedStay DEF Start, IInv, Types, AtWork
  <2>7. AtWork(r)'
    BY <1>1, <2>1 DEF Start, Goto, Active, IInv, Types, AtWork, KnowsTheStore, HasWritten,
      Existing
  <2>8. QED BY <2>2, <2>3, <2>4, <2>5, <2>6, <2>7 DEF IInv
<1>2. ASSUME NEW r \in Run, Active(r), pc[r] # "unlink", Fails(r) PROVE IInv'
  <2>1. \A s \in Run : s # r => ~Active(s)
    BY <1>2, Alone DEF Fails, Goto, Active, IInv, Types
  <2>2. Types'
    BY <1>2 DEF Fails, Goto, Active, IInv, Types, Labels, Kinds, AllKeys
  <2>3. OneAtWork' /\ \A s \in Run : s # r => AtWork(s)'
    BY <1>2, <2>1, StillAlone DEF Fails, Goto, Active, Labels, IInv, Types
  <2>4. NamesApart'
    BY <1>2, <2>1 DEF Fails, Goto, Active, IInv, Types, NamesApart, AtWork, HasWritten
  <2>5. LeftoverOnlyWhenKilled'
    BY <1>2, <2>1 DEF Fails, Goto, Active, IInv, Types, LeftoverOnlyWhenKilled
  <2>6. ReportedRowsStay'
    BY <1>2, <2>1 DEF Fails, Goto, Active, IInv, Types, ReportedRowsStay, AtWork
  <2>7. AtWork(r)'
    BY <1>2, <2>1 DEF Fails, Goto, Active, IInv, Types, AtWork, KnowsTheStore, HasWritten,
      Existing
  <2>8. QED BY <2>2, <2>3, <2>4, <2>5, <2>6, <2>7 DEF IInv
<1>3. ASSUME NEW r \in Run, Look(r), ~Fails(r) PROVE IInv'
  <2>1. \A s \in Run : s # r => ~Active(s)
    BY <1>3, Alone DEF Look, Goto, Active, IInv, Types
  <2>2. Types'
    BY <1>3 DEF Look, Goto, Active, IInv, Types, Labels, Kinds, AllKeys
  <2>3. OneAtWork' /\ \A s \in Run : s # r => AtWork(s)'
    BY <1>3, <2>1, StillAlone DEF Look, Goto, Active, Labels, IInv, Types
  <2>4. NamesApart'
    BY <1>3, <2>1 DEF Look, Goto, Active, IInv, Types, NamesApart, AtWork, HasWritten
  <2>5. LeftoverOnlyWhenKilled'
    BY <1>3, <2>1 DEF Look, Goto, Active, IInv, Types, LeftoverOnlyWhenKilled
  <2>6. ReportedRowsStay'
    BY <1>3, <2>1 DEF Look, Goto, Active, IInv, Types, ReportedRowsStay, AtWork
  <2>7. AtWork(r)'
    <3>1. pc[r] = "look" /\ pc'[r] \in {"open", "keys"} /\ (pc'[r] = "open" <=> kind[r] = "append")
      BY <1>3 DEF Look, Goto, IInv, Types, Kinds
    <3>2. /\ present'[r] = ~(kind[r] = "create" /\ store = NoFile)
          /\ ~(present'[r] /\ store = NoFile) /\ keys[r] = {} /\ result[r] = "none" /\ incoming[r] \in Incoming
      BY <1>3, <3>1 DEF Look, IInv, Types, AtWork, Active
    <3>3. kind[r] # "create" => present'[r]
      BY <3>2
    <3>4. QED BY <1>3, <3>1, <3>2, <3>3 DEF Look, AtWork, KnowsTheStore, Active
  <2>8. QED BY <2>2, <2>3, <2>4, <2>5, <2>6, <2>7 DEF IInv
<1>4. ASSUME NEW r \in Run, ReadKeys(r), ~Fails(r) PROVE IInv'
  <2>1. \A s \in Run : s # r => ~Active(s)
    BY <1>4, Alone DEF ReadKeys, Goto, Active, IInv, Types
  <2>2. Types'
    <3> DEFINE rows == Existing(r)
    <3>1. rows \in Seq(Row) /\ keys' = [keys EXCEPT ![r] = Keys(rows)]
      BY <1>4, RowsTypes DEF ReadKeys, IInv, AtWork, Existing
    <3>2. Keys(rows) \in SUBSET AllKeys
      BY <3>1, KeysType
    <3> HIDE DEF rows
    <3>3. QED BY <1>4, <3>1, <3>2 DEF ReadKeys, Goto, IInv, Types, Labels
  <2>3. OneAtWork' /\ \A s \in Run : s # r => AtWork(s)'
    BY <1>4, <2>1, StillAlone DEF ReadKeys, Goto, Active, Labels, IInv, Types
  <2>4. NamesApart'
    BY <1>4, <2>1 DEF ReadKeys, Goto, Active, IInv, Types, NamesApart, AtWork, HasWritten
  <2>5. LeftoverOnlyWhenKilled'
    BY <1>4, <2>1 DEF ReadKeys, Goto, Active, IInv, Types, LeftoverOnlyWhenKilled
  <2>6. ReportedRowsStay'
    BY <1>4, <2>1 DEF ReadKeys, Goto, Active, IInv, Types, ReportedRowsStay, AtWork
  <2>7. AtWork(r)'
    <3>1. /\ keys'[r] = Keys(Existing(r)) /\ pc'[r] = "open"
          /\ KeysDiffer(Existing(r)) /\ KeysDiffer(incoming[r])
      BY <1>4 DEF ReadKeys, Goto, IInv, Types, AtWork, Existing
    <3>2. Existing(r)' = Existing(r)
      BY <1>4 DEF ReadKeys, Existing
    <3>3. QED BY <1>4, <3>1, <3>2 DEF ReadKeys, Active, IInv, Types, AtWork, KnowsTheStore
  <2>8. QED BY <2>2, <2>3, <2>4, <2>5, <2>6, <2>7 DEF IInv
<1>5. ASSUME NEW r \in Run, OpenTemp(r), ~Fails(r) PROVE IInv'
  <2>1. \A s \in Run : s # r => ~Active(s)
    BY <1>5, Alone DEF OpenTemp, Goto, Active, IInv, Types
  <2>2. Types'
    BY <1>5 DEF OpenTemp, Goto, Active, IInv, Types, Labels, Kinds, AllKeys
  <2>3. OneAtWork' /\ \A s \in Run : s # r => AtWork(s)'
    BY <1>5, <2>1, StillAlone DEF OpenTemp, Goto, Active, Labels, IInv, Types
  <2>4. NamesApart'
    BY <1>5, <2>1 DEF OpenTemp, Goto, Active, IInv, Types, NamesApart, AtWork, HasWritten
  <2>5. LeftoverOnlyWhenKilled'
    BY <1>5, <2>1 DEF OpenTemp, Goto, Active, IInv, Types, LeftoverOnlyWhenKilled
  <2>6. ReportedRowsStay'
    <3>1. store # NoFile => store' = store /\ content'[store] = content[store]
      <4>1. temp # NoFile => temp # store /\ temp \in DOMAIN content
        BY <1>5, NotTheStore DEF OpenTemp, Active, IInv, Types
      <4>2. QED BY <1>5, <4>1 DEF OpenTemp, IInv, Types
    <3>2. QED BY <1>5, <3>1, ReportedStay DEF OpenTemp
  <2>7. AtWork(r)'
    <3>1. store # NoFile => store' = store /\ content'[store] = content[store]
      <4>1. temp # NoFile => temp # store /\ temp \in DOMAIN content
        BY <1>5, NotTheStore DEF OpenTemp, Active, IInv, Types
      <4>2. QED BY <1>5, <4>1 DEF OpenTemp, IInv, Types
    <3>2. temp' \in DOMAIN content' /\ content'[temp'] = <<>> /\ temp' # NoFile
      BY <1>5 DEF OpenTemp, IInv, Types
    <3>3. pc[r] = "open" /\ pc'[r] = "read" /\ handle'[r] = temp' /\ offset'[r] = 0
      BY <1>5 DEF OpenTemp, Goto, IInv, Types
    <3>4. HasWritten(r)'
      BY <3>2, <3>3 DEF HasWritten
    <3>5. KnowsTheStore(r)'
      <4>1. KnowsTheStore(r)
        BY <3>3 DEF IInv, AtWork
      <4>2. present[r] => Existing(r)' = Existing(r)
        BY <1>5, <3>1, <4>1 DEF OpenTemp, KnowsTheStore, Existing
      <4>3. ~present[r] => Existing(r)' = Existing(r)
        BY <1>5 DEF OpenTemp, Existing
      <4>4. QED BY <1>5, <3>1, <4>1, <4>2, <4>3 DEF OpenTemp, KnowsTheStore, IInv, Types
    <3>6. QED BY <1>5, <3>3, <3>4, <3>5 DEF OpenTemp, Active, IInv, AtWork
  <2>8. QED BY <2>2, <2>3, <2>4, <2>5, <2>6, <2>7 DEF IInv
<1>6. ASSUME NEW r \in Run, ReadExisting(r), ~Fails(r) PROVE IInv'
  <2>1. \A s \in Run : s # r => ~Active(s)
    BY <1>6, Alone DEF ReadExisting, Goto, Active, IInv, Types
  <2>2. Types'
    <3> DEFINE rows == Existing(r) \o NewRows(incoming[r], keys[r])
    <3>1. Existing(r) \in Seq(Row) /\ NewRows(incoming[r], keys[r]) \in Seq(Row)
      BY <1>6, RowsTypes DEF ReadExisting, IInv, AtWork, KnowsTheStore
    <3>2. rows \in Seq(Row) /\ out' = [out EXCEPT ![r] = rows]
      <4>1. rows \in Seq(Row)
        BY <3>1, ConcatProperties
      <4>2. out' = [out EXCEPT ![r] = rows]
        BY <1>6 DEF ReadExisting, Existing
      <4>3. QED BY <4>1, <4>2
    <3>3. offset[r] = 0 /\ Len(rows) >= 0
      BY <1>6, <3>2 DEF ReadExisting, IInv, AtWork, HasWritten
    <3> HIDE DEF rows
    <3>4. QED BY <1>6, <3>2, <3>3 DEF ReadExisting, Goto, IInv, Types, Labels
  <2>3. OneAtWork' /\ \A s \in Run : s # r => AtWork(s)'
    BY <1>6, <2>1, StillAlone DEF ReadExisting, Goto, Active, Labels, IInv, Types
  <2>4. NamesApart'
    BY <1>6, <2>1 DEF ReadExisting, Goto, Active, IInv, Types, NamesApart, AtWork, HasWritten
  <2>5. LeftoverOnlyWhenKilled'
    BY <1>6, <2>1 DEF ReadExisting, Goto, Active, IInv, Types, LeftoverOnlyWhenKilled
  <2>6. ReportedRowsStay'
    BY <1>6, <2>1 DEF ReadExisting, Goto, Active, IInv, Types, ReportedRowsStay, AtWork
  <2>7. AtWork(r)'
    <3>1. pc[r] = "read" /\ pc'[r] = "write" /\ KnowsTheStore(r) /\ HasWritten(r)
      BY <1>6 DEF ReadExisting, Goto, IInv, Types, AtWork
    <3>2. out'[r] = Existing(r) \o NewRows(incoming[r], keys[r])
      BY <1>6 DEF ReadExisting, IInv, Types, Existing
    <3>3. Existing(r)' = Existing(r)
      BY <1>6 DEF ReadExisting, Existing
    <3>4. KnowsTheStore(r)'
      BY <1>6, <3>1, <3>3 DEF ReadExisting, KnowsTheStore
    <3>5. HasWritten(r)'
      <4>1. /\ UNCHANGED <<content, temp, handle, offset, incoming, keys>> /\ offset[r] = 0
            /\ temp # NoFile /\ handle[r] = temp /\ Len(content[temp]) = offset[r]
        BY <1>6, <3>1 DEF ReadExisting, HasWritten
      <4>2. out'[r] = Existing(r)' \o NewRows(incoming'[r], keys'[r])
        BY <3>2, <3>3, <4>1
      <4>3. \A i \in 1..offset'[r] : content'[temp'][i] = out'[r][i]
        BY <4>1
      <4>4. QED BY <3>1, <4>1, <4>2, <4>3 DEF HasWritten
    <3>6. QED BY <1>6, <3>1, <3>4, <3>5 DEF ReadExisting, Active, IInv, AtWork
  <2>8. QED BY <2>2, <2>3, <2>4, <2>5, <2>6, <2>7 DEF IInv
<1>7. ASSUME NEW r \in Run, WriteRow(r), ~Fails(r) PROVE IInv'
  <2>1. \A s \in Run : s # r => ~Active(s)
    BY <1>7, Alone DEF WriteRow, Goto, Active, IInv, Types
  <2>2. Types'
    <3> DEFINE row == out[r][offset[r] + 1]
    <3>1. content' = [content EXCEPT ![temp] = Append(@, row)] /\ row \in Row /\ temp \in DOMAIN content
      BY <1>7, WrittenRow
    <3> HIDE DEF row
    <3>2. content' \in Seq(Seq(Row)) /\ DOMAIN content' = DOMAIN content
      BY <3>1 DEF IInv, Types
    <3>3. offset[r] + 1 \in Nat /\ offset[r] + 1 <= Len(out[r])
      BY <1>7 DEF WriteRow, IInv, Types
    <3>4. QED BY <1>7, <3>2, <3>3 DEF WriteRow, IInv, Types
  <2>3. OneAtWork' /\ \A s \in Run : s # r => AtWork(s)'
    <3>1. pc' = [pc EXCEPT ![r] = "write"]
      BY <1>7 DEF WriteRow, IInv, Types
    <3>2. QED BY <1>7, <2>1, <3>1, StillAlone DEF WriteRow, Labels
  <2>4. NamesApart'
    BY <1>7, <2>1 DEF WriteRow, Goto, Active, IInv, Types, NamesApart, AtWork, HasWritten
  <2>5. LeftoverOnlyWhenKilled'
    BY <1>7, <2>1 DEF WriteRow, Goto, Active, IInv, Types, LeftoverOnlyWhenKilled
  <2>6. ReportedRowsStay'
    <3>1. store # NoFile => store' = store /\ content'[store] = content[store]
      BY <1>7, WrittenRow DEF WriteRow, IInv, Types
    <3>2. QED BY <1>7, <3>1, ReportedStay DEF WriteRow
  <2>7. AtWork(r)'
    <3> DEFINE row == out[r][offset[r] + 1]
    <3>1. /\ content' = [content EXCEPT ![temp] = Append(@, row)] /\ row \in Row
          /\ temp \in DOMAIN content /\ store # temp /\ UNCHANGED <<store, temp>>
          /\ pc[r] = "write" /\ KnowsTheStore(r) /\ HasWritten(r)
      BY <1>7, WrittenRow DEF IInv, AtWork, WriteRow
    <3>2. store # NoFile => content'[store] = content[store]
      BY <3>1 DEF IInv, Types
    <3>3. Existing(r)' = Existing(r)
      BY <1>7, <3>1, <3>2 DEF WriteRow, Existing, KnowsTheStore
    <3>4. KnowsTheStore(r)'
      BY <1>7, <3>1, <3>3 DEF WriteRow, KnowsTheStore
    <3>5. content'[temp] = Append(content[temp], row) /\ content[temp] \in Seq(Row)
      BY <3>1 DEF IInv, Types
    <3>6. offset'[r] = offset[r] + 1 /\ offset[r] \in Nat
      BY <1>7 DEF WriteRow, IInv, Types
    <3>7. Len(content'[temp]) = offset'[r]
      BY <3>1, <3>5, <3>6 DEF HasWritten
    <3>8. ASSUME NEW i \in 1..offset'[r] PROVE content'[temp][i] = out[r][i]
      BY <3>1, <3>5, <3>6 DEF HasWritten
    <3>9. HasWritten(r)'
      BY <1>7, <3>1, <3>3, <3>7, <3>8 DEF WriteRow, HasWritten
    <3>10. QED BY <1>7, <3>1, <3>4, <3>9 DEF WriteRow, Active, IInv, AtWork
  <2>8. QED BY <2>2, <2>3, <2>4, <2>5, <2>6, <2>7 DEF IInv
<1>8. ASSUME NEW r \in Run, CloseTemp(r), ~Fails(r) PROVE IInv'
  <2>1. \A s \in Run : s # r => ~Active(s)
    BY <1>8, Alone DEF CloseTemp, Goto, Active, IInv, Types
  <2>2. Types'
    BY <1>8 DEF CloseTemp, Goto, Active, IInv, Types, Labels, Kinds, AllKeys
  <2>3. OneAtWork' /\ \A s \in Run : s # r => AtWork(s)'
    BY <1>8, <2>1, StillAlone DEF CloseTemp, Goto, Active, Labels, IInv, Types
  <2>4. NamesApart'
    BY <1>8, <2>1 DEF CloseTemp, Goto, Active, IInv, Types, NamesApart, AtWork, HasWritten
  <2>5. LeftoverOnlyWhenKilled'
    BY <1>8, <2>1 DEF CloseTemp, Goto, Active, IInv, Types, LeftoverOnlyWhenKilled
  <2>6. ReportedRowsStay'
    BY <1>8, <2>1 DEF CloseTemp, Goto, Active, IInv, Types, ReportedRowsStay, AtWork
  <2>7. AtWork(r)'
    <3>1. /\ pc[r] = "write" /\ pc'[r] = "move" /\ offset[r] = Len(out[r])
          /\ KnowsTheStore(r) /\ HasWritten(r) /\ result[r] = "none" /\ incoming[r] \in Incoming
      BY <1>8 DEF CloseTemp, Goto, IInv, Types, AtWork, Active
    <3>2. UNCHANGED <<disk, local, result>>
      BY <1>8 DEF CloseTemp
    <3>3. Existing(r)' = Existing(r)
      BY <3>2 DEF Existing
    <3>4. KnowsTheStore(r)'
      BY <3>1, <3>2, <3>3 DEF KnowsTheStore
    <3>5. HasWritten(r)'
      BY <3>1, <3>2, <3>3 DEF HasWritten
    <3>6. QED BY <3>1, <3>2, <3>4, <3>5 DEF AtWork
  <2>8. QED BY <2>2, <2>3, <2>4, <2>5, <2>6, <2>7 DEF IInv
<1>9. ASSUME NEW r \in Run, Replace(r), ~Fails(r) PROVE IInv'
  <2>1. \A s \in Run : s # r => ~Active(s)
    BY <1>9, Alone DEF Replace, Goto, Active, IInv, Types
  <2>2. Types'
    BY <1>9 DEF Replace, Goto, Active, IInv, Types, Labels, Kinds, AllKeys
  <2>3. OneAtWork' /\ \A s \in Run : s # r => AtWork(s)'
    BY <1>9, <2>1, StillAlone DEF Replace, Goto, Active, Labels, IInv, Types
  <2>4. NamesApart'
    BY <1>9, <2>1 DEF Replace, Goto, Active, IInv, Types, NamesApart, AtWork, HasWritten
  <2>5. LeftoverOnlyWhenKilled'
    BY <1>9, <2>1 DEF Replace, Goto, Active, IInv, Types, NamesApart, LeftoverOnlyWhenKilled
  <2>6. ReportedRowsStay'
    <3>1. store' = temp /\ content' = content /\ incoming' = incoming /\ pc[r] = "move" /\ present[r]
      BY <1>9 DEF Replace
    <3>2. content[temp] = content[store] \o NewRows(incoming[r], keys[r])
      BY <3>1, WhatIsMoved DEF IInv, Existing
    <3>3. /\ Keys(content[store]) \subseteq Keys(content[temp])
          /\ Keys(incoming[r]) \subseteq Keys(content[temp]) /\ store # NoFile /\ temp # NoFile
      BY <3>1, WhatIsMoved DEF IInv, Existing
    <3>4. ASSUME NEW s \in Run, result'[s] = "ok" PROVE Keys(incoming[s]) \subseteq Keys(content[temp])
      <4>1. CASE s = r
        BY <3>3, <4>1
      <4>2. CASE s # r
        <5>1. result[s] = "ok"
          BY <1>9, <3>4, <4>2 DEF Replace, IInv, Types
        <5>2. Keys(incoming[s]) \subseteq Keys(content[store])
          BY <5>1 DEF IInv, ReportedRowsStay
        <5>3. QED BY <3>3, <5>2
      <4>3. QED BY <4>1, <4>2
    <3>5. QED BY <3>1, <3>3, <3>4 DEF ReportedRowsStay
  <2>7. AtWork(r)'
    <3>1. pc'[r] = "done"
      BY <1>9 DEF Replace, Goto, IInv, Types
    <3>2. QED BY <3>1 DEF AtWork, Active
  <2>8. QED BY <2>2, <2>3, <2>4, <2>5, <2>6, <2>7 DEF IInv
<1>10. ASSUME NEW r \in Run, Link(r), ~Fails(r) PROVE IInv'
  <2>1. \A s \in Run : s # r => ~Active(s)
    BY <1>10, Alone DEF Link, Goto, Active, IInv, Types
  <2>2. Types'
    BY <1>10 DEF Link, Goto, Active, IInv, Types, Labels, Kinds, AllKeys
  <2>3. OneAtWork' /\ \A s \in Run : s # r => AtWork(s)'
    BY <1>10, <2>1, StillAlone DEF Link, Goto, Active, Labels, IInv, Types
  <2>4. NamesApart'
    BY <1>10, <2>1 DEF Link, Goto, Active, IInv, Types, NamesApart, AtWork, HasWritten
  <2>5. LeftoverOnlyWhenKilled'
    BY <1>10, <2>1 DEF Link, Goto, Active, IInv, Types, LeftoverOnlyWhenKilled
  <2>6. ReportedRowsStay'
    BY <1>10, <2>1 DEF Link, Goto, Active, IInv, Types, ReportedRowsStay, AtWork
  <2>7. AtWork(r)'
    <3>1. store' = temp /\ temp' = temp /\ content' = content /\ pc[r] = "move" /\ pc'[r] = "unlink"
      BY <1>10 DEF Link, Goto, IInv, Types
    <3>2. Keys(incoming[r]) \subseteq Keys(content[temp]) /\ temp # NoFile
      BY <3>1, WhatIsMoved DEF IInv
    <3>3. QED BY <1>10, <3>1, <3>2 DEF Link, Active, IInv, AtWork
  <2>8. QED BY <2>2, <2>3, <2>4, <2>5, <2>6, <2>7 DEF IInv
<1>11. ASSUME NEW r \in Run, Unlink(r) PROVE IInv'
  <2>1. \A s \in Run : s # r => ~Active(s)
    BY <1>11, Alone DEF Unlink, Goto, Active, IInv, Types
  <2>2. Types'
    BY <1>11 DEF Unlink, Goto, Active, IInv, Types, Labels, Kinds, AllKeys
  <2>3. OneAtWork' /\ \A s \in Run : s # r => AtWork(s)'
    BY <1>11, <2>1, StillAlone DEF Unlink, Goto, Active, Labels, IInv, Types
  <2>4. NamesApart'
    BY <1>11, <2>1 DEF Unlink, Goto, Active, IInv, Types, NamesApart, AtWork, HasWritten
  <2>5. LeftoverOnlyWhenKilled'
    BY <1>11, <2>1 DEF Unlink, Goto, Active, IInv, Types, LeftoverOnlyWhenKilled
  <2>6. ReportedRowsStay'
    BY <1>11, <2>1 DEF Unlink, Goto, Active, IInv, Types, ReportedRowsStay, AtWork
  <2>7. AtWork(r)'
    BY <1>11, <2>1 DEF Unlink, Goto, Active, IInv, Types, AtWork, KnowsTheStore, HasWritten,
      Existing
  <2>8. QED BY <2>2, <2>3, <2>4, <2>5, <2>6, <2>7 DEF IInv
<1>12. ASSUME NEW r \in Run, Kill(r) PROVE IInv'
  <2>1. \A s \in Run : s # r => ~Active(s)
    BY <1>12, Alone DEF Kill, Goto, Active, IInv, Types
  <2>2. Types'
    BY <1>12 DEF Kill, Goto, Active, IInv, Types, Labels, Kinds, AllKeys
  <2>3. OneAtWork' /\ \A s \in Run : s # r => AtWork(s)'
    BY <1>12, <2>1, StillAlone DEF Kill, Goto, Active, Labels, IInv, Types
  <2>4. NamesApart'
    BY <1>12, <2>1 DEF Kill, Goto, Active, IInv, Types, NamesApart, AtWork, HasWritten
  <2>5. LeftoverOnlyWhenKilled'
    BY <1>12, <2>1 DEF Kill, Goto, Active, IInv, Types, LeftoverOnlyWhenKilled
  <2>6. ReportedRowsStay'
    BY <1>12, <2>1 DEF Kill, Goto, Active, IInv, Types, ReportedRowsStay, AtWork
  <2>7. AtWork(r)'
    BY <1>12, <2>1 DEF Kill, Goto, Active, IInv, Types, AtWork, KnowsTheStore, HasWritten,
      Existing
  <2>8. QED BY <2>2, <2>3, <2>4, <2>5, <2>6, <2>7 DEF IInv
<1>13. ASSUME NEW rows \in Incoming, MadeElsewhere(rows) PROVE IInv'
  <2>1. Types'
    BY <1>13 DEF MadeElsewhere, IInv, Types
  <2>2. OneAtWork'
    BY <1>13 DEF MadeElsewhere, IInv, OneAtWork, Active
  <2>3. NamesApart'
    BY <1>13 DEF MadeElsewhere, IInv, Types, NamesApart
  <2>4. LeftoverOnlyWhenKilled'
    BY <1>13 DEF MadeElsewhere, IInv, LeftoverOnlyWhenKilled
  <2>5. ReportedRowsStay'
    BY <1>13 DEF MadeElsewhere, IInv, ReportedRowsStay
  <2>6. \A r \in Run : AtWork(r)'
    <3>1. /\ store = NoFile /\ store' = Len(content) + 1 /\ content' = Append(content, rows)
          /\ UNCHANGED <<temp, pc, kind, incoming, present, keys, out, handle, offset, result>>
      BY <1>13 DEF MadeElsewhere
    <3>2. ASSUME NEW r \in Run PROVE AtWork(r)'
      <4>1. AtWork(r)
        BY DEF IInv
      <4>2. temp # NoFile => content'[temp] = content[temp] /\ temp \in DOMAIN content
        BY <3>1 DEF IInv, Types
      <4>3. KnowsTheStore(r) => KnowsTheStore(r)' /\ Existing(r)' = Existing(r)
        BY <3>1 DEF KnowsTheStore, Existing
      <4>4. HasWritten(r) /\ KnowsTheStore(r) => HasWritten(r)'
        BY <3>1, <4>2, <4>3 DEF HasWritten
      <4>5. store' # NoFile
        BY <3>1 DEF IInv, Types
      <4>6. QED BY <3>1, <4>1, <4>3, <4>4, <4>5 DEF AtWork, Active
    <3>3. QED BY <3>2
  <2>7. QED BY <2>1, <2>2, <2>3, <2>4, <2>5, <2>6 DEF IInv
<1>14. ASSUME NEW r \in Run, Step(r) PROVE IInv'
  <2>1. CASE \E k \in Kinds, file \in Incoming : Start(r, k, file)
    BY <1>1, <2>1
  <2>2. CASE Fails(r) /\ Active(r) /\ pc[r] # "unlink"
    BY <1>2, <2>2
  <2>3. CASE Rejects(r) \/ WriteFails(r)
    BY <2>2, <2>3 DEF Rejects, WriteFails, Active
  <2>4. ASSUME ~(Active(r) /\ pc[r] # "unlink" /\ Fails(r)),
               \/ Look(r) \/ ReadKeys(r) \/ OpenTemp(r) \/ ReadExisting(r) \/ WriteRow(r)
               \/ CloseTemp(r) \/ Replace(r) \/ Link(r)
        PROVE  IInv'
    <3>1. Active(r) /\ pc[r] # "unlink"
      BY <2>4 DEF Look, ReadKeys, OpenTemp, ReadExisting, WriteRow, CloseTemp, Replace, Link,
        Active
    <3>2. ~Fails(r)
      BY <2>4, <3>1
    <3>3. QED BY <2>4, <3>2, <1>3, <1>4, <1>5, <1>6, <1>7, <1>8, <1>9, <1>10
  <2>5. CASE Unlink(r) \/ Kill(r)
    BY <1>11, <1>12, <2>5
  <2>6. QED BY <1>14, <2>1, <2>2, <2>3, <2>4, <2>5 DEF Step, Kinds
<1>15. QED
  BY <1>13, <1>14 DEF Next

LEMMA IInvInit == Init => IInv
<1> SUFFICES ASSUME Init PROVE IInv
  OBVIOUS
<1>1. content \in Seq(Seq(Row)) /\ store \in DOMAIN content \union {NoFile} /\ temp = NoFile
  <2>1. CASE store = NoFile /\ content = <<>>
    BY <2>1 DEF Init
  <2>2. CASE store = 1 /\ \E rows \in Incoming \union {<<>>} : content = <<rows>>
    <3>1. PICK rows \in Incoming \union {<<>>} : content = <<rows>>
      BY <2>2
    <3>2. rows \in Seq(Row)
      <4>1. <<>> \in Seq(Row)
        OBVIOUS
      <4>2. QED BY <4>1
    <3>3. QED BY <2>2, <3>1, <3>2 DEF Init
  <2>3. QED BY <2>1, <2>2 DEF Init
<1>2. \A r \in Run : /\ pc[r] = "idle" /\ keys[r] = {} /\ result[r] = "none"
                     /\ out[r] = <<>> /\ offset[r] = 0
  BY DEF Init
<1>3. Types
  <2>1. <<>> \in Seq(Row) /\ Len(<<>>) = 0
    OBVIOUS
  <2>2. QED BY <1>1, <1>2, <2>1 DEF Init, Types, Labels, Kinds, AllKeys
<1>4. OneAtWork /\ NamesApart /\ LeftoverOnlyWhenKilled /\ ReportedRowsStay
  BY <1>1, <1>2 DEF OneAtWork, Active, NamesApart, LeftoverOnlyWhenKilled, ReportedRowsStay
<1>5. \A r \in Run : AtWork(r)
  BY <1>2 DEF AtWork, Active
<1>6. QED BY <1>3, <1>4, <1>5 DEF IInv

LEMMA IInvStutters == ASSUME IInv, UNCHANGED vars PROVE IInv'
<1>1. UNCHANGED <<content, store, temp>>
      /\ UNCHANGED <<pc, kind, incoming, present, keys, out, handle, offset, result>>
  BY DEF vars
<1>2. Types' /\ OneAtWork' /\ NamesApart'
  BY <1>1 DEF IInv, Types, OneAtWork, Active, NamesApart
<1>3. LeftoverOnlyWhenKilled' /\ ReportedRowsStay'
  BY <1>1 DEF IInv, LeftoverOnlyWhenKilled, ReportedRowsStay
<1>4. ASSUME NEW r \in Run PROVE AtWork(r)'
  <2>1. AtWork(r) /\ Existing(r)' = Existing(r)
    BY <1>1 DEF IInv, Existing
  <2>2. KnowsTheStore(r)' <=> KnowsTheStore(r)
    BY <1>1, <2>1 DEF KnowsTheStore
  <2>3. HasWritten(r)' <=> HasWritten(r)
    BY <1>1, <2>1 DEF HasWritten
  <2>4. QED BY <1>1, <2>1, <2>2, <2>3 DEF AtWork, Active
<1>5. QED BY <1>2, <1>3, <1>4 DEF IInv

LEMMA IInvHolds == ASSUME ~Overlapping, ~CrashInMove PROVE Spec => []IInv
<1>1. ASSUME IInv, [Next]_vars PROVE IInv'
  BY <1>1, IInvNext, IInvStutters
<1>2. QED BY <1>1, IInvInit, PTL DEF Spec

-----------------------------------------------------------------------------
(* What append and merge promise.                                          *)

\* Every variable has its type, no file has a hole, and the temporary sibling stays behind
\* only when a run was killed.
THEOREM StoreInvCorrect == ASSUME ~Overlapping, ~CrashInMove PROVE Spec => []StoreInv
<1>1. ASSUME IInv PROVE StoreTypeOK
  <2>1. ASSUME NEW r \in Run
        PROVE  /\ pc[r] \in Labels /\ kind[r] \in Kinds /\ incoming[r] \in Incoming \union {<<>>}
               /\ present[r] \in BOOLEAN /\ keys[r] \in SUBSET AllKeys /\ out[r] \in Seq(Row)
               /\ handle[r] \in DOMAIN content \union {NoFile} /\ result[r] \in {"none", "ok", "failed"}
    BY <1>1 DEF IInv, Types
  <2>2. ASSUME NEW r \in Run PROVE offset[r] \in 0 .. Len(out[r])
    BY <1>1, <2>1 DEF IInv, Types
  <2>3. content \in Seq(Seq(Row)) /\ {store, temp} \subseteq DOMAIN content \union {NoFile}
    BY <1>1 DEF IInv, Types
  <2>4. QED BY <2>1, <2>2, <2>3 DEF StoreTypeOK, Labels, Kinds, AllKeys
<1>2. IInv => StoreInv
  BY <1>1 DEF StoreInv, IInv
<1>3. QED BY <1>2, IInvHolds, PTL

\* Rows that a run reported as stored are in the store from then on, whatever runs come
\* after it, are refused or are killed.
THEOREM ReportedRowsStayCorrect ==
  ASSUME ~Overlapping, ~CrashInMove PROVE Spec => []ReportedRowsStay
<1>1. IInv => ReportedRowsStay
  BY DEF IInv
<1>2. QED BY <1>1, IInvHolds, PTL

\* A run changes what a reader sees in one step, when it moves its file into place.
LEMMA VisibleStays ==
  ASSUME IInv, NEW r \in Run, Step(r)
  PROVE  Visible' = Visible \/ Replace(r) \/ Link(r)
<1>1. CASE UNCHANGED <<content, store>>
  BY <1>1 DEF Visible
<1>2. CASE OpenTemp(r)
  <2>1. temp # NoFile => temp # store /\ temp \in DOMAIN content
    BY <1>2, NotTheStore DEF OpenTemp, Active, IInv, Types
  <2>2. store' = store /\ (store # NoFile => content'[store] = content[store])
    BY <1>2, <2>1 DEF OpenTemp, IInv, Types
  <2>3. QED BY <2>2 DEF Visible
<1>3. CASE WriteRow(r)
  <2>1. store' = store /\ (store # NoFile => content'[store] = content[store])
    BY <1>3, WrittenRow DEF WriteRow, IInv, Types
  <2>2. QED BY <2>1 DEF Visible
<1>4. QED
  BY <1>1, <1>2, <1>3 DEF Step, Start, Look, Rejects, ReadKeys, ReadExisting, CloseTemp,
    WriteFails, Unlink, Kill, Fails

LEMMA SameOperators ==
  /\ \A rows : StorePromise!Keys(rows) = Keys(rows)
  /\ \A rows : StorePromise!KeysDiffer(rows) = KeysDiffer(rows)
  /\ \A rows, known : StorePromise!NewRows(rows, known) = NewRows(rows, known)
<1>1. \A rows : StorePromise!Keys(rows) = Keys(rows)
  BY DEF StorePromise!Keys, Keys
<1>2. \A rows : StorePromise!KeysDiffer(rows) = KeysDiffer(rows)
  BY DEF StorePromise!KeysDiffer, KeysDiffer, StorePromise!IsInjective, IsInjective
<1>3. \A rows, known : StorePromise!NewRows(rows, known) = NewRows(rows, known)
  BY DEF StorePromise!NewRows, NewRows
<1>4. QED BY <1>1, <1>2, <1>3

LEMMA StepOfThePromise ==
  ASSUME IInv, Next PROVE StorePromise!Next \/ Visible' = Visible
<1>1. ASSUME NEW rows \in Incoming, MadeElsewhere(rows) PROVE StorePromise!Next
  <2>1. Visible = NoFile /\ Visible' = rows
    BY <1>1 DEF MadeElsewhere, Visible, IInv, Types
  <2>2. QED BY <2>1 DEF StorePromise!Next, StorePromise!MadeElsewhere
<1>2. ASSUME NEW r \in Run, Replace(r), temp # NoFile PROVE StorePromise!Next
  <2>1. /\ pc[r] = "move" /\ present[r] /\ store # NoFile /\ KnowsTheStore(r)
        /\ Visible = content[store] /\ Existing(r) = content[store] /\ incoming[r] \in Incoming
    BY <1>2, WhatIsMoved DEF Replace, IInv, AtWork, KnowsTheStore, Visible, Existing, Active
  <2>2. Visible' = content[store] \o NewRows(incoming[r], keys[r])
    BY <1>2, <2>1, WhatIsMoved DEF Replace, IInv, Visible
  <2>3. Visible # NoFile
    BY <2>1 DEF IInv, Types
  <2>4. CASE kind[r] = "append"
    <3>1. keys[r] = {} /\ incoming[r] \in Seq(Row)
      BY <2>1, <2>4 DEF KnowsTheStore
    <3>2. Visible' = Visible \o incoming[r]
      BY <2>1, <2>2, <3>1, NewRowsOfAll
    <3>3. QED BY <2>1, <2>3, <3>2 DEF StorePromise!Next, StorePromise!Append_
  <2>5. CASE kind[r] # "append"
    <3>1. KeysDiffer(Visible) /\ KeysDiffer(incoming[r]) /\ keys[r] = Keys(Visible)
      BY <2>1, <2>5 DEF KnowsTheStore
    <3>2. Visible' = Visible \o NewRows(incoming[r], Keys(Visible))
      BY <2>1, <2>2, <3>1
    <3>3. StorePromise!Merge(incoming[r])
      BY <2>3, <3>1, <3>2, SameOperators DEF StorePromise!Merge
    <3>4. QED BY <2>1, <3>3 DEF StorePromise!Next
  <2>6. QED BY <2>4, <2>5
<1>3. ASSUME NEW r \in Run, Link(r), store = NoFile, temp # NoFile PROVE StorePromise!Next
  <2>1. /\ pc[r] = "move" /\ ~present[r] /\ KnowsTheStore(r) /\ Existing(r) = <<>>
        /\ Visible = NoFile /\ incoming[r] \in Incoming
    BY <1>3 DEF Link, IInv, AtWork, Visible, Existing, Active
  <2>2. keys[r] = {} /\ KeysDiffer(incoming[r]) /\ incoming[r] \in Seq(Row)
    BY <2>1 DEF KnowsTheStore, Keys
  <2>3. Visible' = <<>> \o NewRows(incoming[r], keys[r])
    BY <1>3, <2>1, WhatIsMoved DEF Link, IInv, Visible
  <2>4. Visible' = incoming[r]
    BY <2>2, <2>3, NewRowsOfAll, ConcatEmptySeq
  <2>5. StorePromise!Create(incoming[r])
    BY <2>1, <2>2, <2>4, SameOperators DEF StorePromise!Create
  <2>6. QED BY <2>1, <2>5 DEF StorePromise!Next
<1>4. ASSUME NEW r \in Run, Replace(r) \/ Link(r), Fails(r) PROVE Visible' = Visible
  BY <1>4 DEF Fails, Visible
<1>5. ASSUME NEW r \in Run, Step(r) PROVE StorePromise!Next \/ Visible' = Visible
  <2>1. CASE Replace(r)
    BY <1>2, <1>4, <2>1 DEF Replace
  <2>2. CASE Link(r)
    BY <1>3, <1>4, <2>2 DEF Link
  <2>3. QED BY <1>5, <2>1, <2>2, VisibleStays
<1>6. QED BY <1>1, <1>5 DEF Next

\* The store is replaced only by a run that has written its file and closed it.
THEOREM ReplacedOnlyWhenWrittenCorrect ==
  ASSUME ~Overlapping, ~CrashInMove PROVE Spec => ReplacedOnlyWhenWritten
<1>1. ASSUME IInv, Next PROVE ChangedByAMove
  <2>1. SUFFICES ASSUME store # NoFile, Visible' # Visible
                 PROVE  \E r \in Run : pc[r] = "move" /\ pc'[r] = "done"
    BY DEF ChangedByAMove
  <2>2. PICK r \in Run : Step(r)
    BY <1>1, <2>1 DEF Next, MadeElsewhere
  <2>3. CASE Replace(r)
    BY <1>1, <2>3 DEF Replace, Fails, Goto, IInv, Types
  <2>4. CASE Link(r)
    BY <2>1, <2>4 DEF Link, Fails, Visible
  <2>5. QED BY <1>1, <2>1, <2>2, <2>3, <2>4, VisibleStays
<1>2. ASSUME IInv, [Next]_vars PROVE [ChangedByAMove]_vars
  BY <1>1, <1>2
<1>3. QED BY <1>2, IInvHolds, PTL DEF Spec, ReplacedOnlyWhenWritten

\* The store goes from one complete content to the next, and a merge adds exactly the rows
\* whose key is new: RunAppend and RunMerge implement the keyed store.
THEOREM ImplementsStoreCorrect ==
  ASSUME ~Overlapping, ~CrashInMove PROVE Spec => ImplementsStore
<1>1. Init => StorePromise!Init
  BY DEF Init, StorePromise!Init, Visible
<1>2. ASSUME IInv, [Next]_vars PROVE [StorePromise!Next]_Visible
  <2>1. CASE Next
    BY <1>2, <2>1, StepOfThePromise
  <2>2. CASE UNCHANGED vars
    BY <2>2 DEF vars, Visible
  <2>3. QED BY <1>2, <2>1, <2>2
<1>3. QED BY <1>1, <1>2, IInvHolds, PTL DEF Spec, ImplementsStore, StorePromise!Spec

=============================================================================
