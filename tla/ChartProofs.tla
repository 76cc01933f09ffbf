---------------------------- MODULE ChartProofs ----------------------------
(***************************************************************************)
(* What ChartStore and ChartForm promise, for any number of requests, any  *)
(* charts.json and any form, proved over the same lemmas about the entries *)
(* of charts.json.                                                         *)
(***************************************************************************)
EXTENDS ChartStore, ChartForm, FunctionTheorems, FiniteSetTheorems, SequenceTheorems, WellFoundedInduction, TLAPS

----------------------------------------------------------------------------
(* What Kept keeps.                                                        *)

IsSeq(s) == s \in Seq({s[i] : i \in DOMAIN s})

\* How many of the positions come up to i, and the k-th of them.
Rank(at, i) == Cardinality({j \in at : j <= i})
Place(at, k) == CHOOSE i \in at : Rank(at, i) = k

\* Kept takes the positions in their order.
LEMMA KeptPlaces ==
    ASSUME NEW seq, NEW at
    PROVE Kept(seq, at) = [k \in 1..Cardinality(at) |-> seq[Place(at, k)]]
BY DEF Kept, Place, Rank

\* A set of positions is finite.
LEMMA PositionsAreFinite ==
    ASSUME NEW n \in Nat, NEW at, at \subseteq 1..n
    PROVE IsFiniteSet(at) /\ Cardinality(at) \in Nat
<1>1. IsFiniteSet(1..n)  BY FS_Interval
<1>2. IsFiniteSet(at)  BY <1>1, FS_Subset
<1> QED  BY <1>2, FS_CardinalityType

\* Ranks grow by one at a position, and nowhere else.
LEMMA RankSteps ==
    ASSUME NEW n \in Nat, NEW at, at \subseteq 1..n, NEW i \in Nat \ {0}
    PROVE /\ Rank(at, i) \in Nat /\ Rank(at, i - 1) \in Nat
          /\ Rank(at, i) = IF i \in at THEN Rank(at, i - 1) + 1 ELSE Rank(at, i - 1)
<1> DEFINE below == {j \in at : j <= i - 1}
<1>0. \A j \in at : j \in Nat /\ (j <= i <=> j <= i - 1 \/ j = i)  OBVIOUS
<1>1. below \subseteq 1..n /\ {j \in at : j <= i} \subseteq 1..n  OBVIOUS
<1>2. IsFiniteSet(below) /\ Cardinality(below) \in Nat /\ Cardinality({j \in at : j <= i}) \in Nat
  BY <1>1, PositionsAreFinite
<1>3. CASE i \in at
  <2>0. i \notin below  OBVIOUS
  <2>1. {j \in at : j <= i} = below \union {i} /\ i \notin below
    <3>1. \A j : j \in {k \in at : k <= i} <=> j \in below \union {i}  BY <1>0, <1>3
    <3> QED  BY <2>0, <3>1
  <2>2. Cardinality(below \union {i}) = Cardinality(below) + 1
    BY <1>2, <2>1, FS_AddElement
  <2> QED  BY <1>2, <1>3, <2>1, <2>2 DEF Rank
<1>4. CASE i \notin at
  <2>1. {j \in at : j <= i} = below  BY <1>0, <1>4
  <2> QED  BY <1>2, <1>4, <2>1 DEF Rank
<1> QED  BY <1>3, <1>4

\* No position is below the first one, and all are up to the last.
LEMMA RankEnds ==
    ASSUME NEW n \in Nat, NEW at, at \subseteq 1..n
    PROVE Rank(at, 0) = 0 /\ Rank(at, n) = Cardinality(at)
<1>0. \A j \in at : j <= n /\ ~(j <= 0)  OBVIOUS
<1>1. {j \in at : j <= 0} = {} /\ {j \in at : j <= n} = at  BY <1>0
<1> QED  BY <1>1, FS_EmptySet DEF Rank

\* A position has a greater rank than whatever is below it.
LEMMA RankGrows ==
    ASSUME NEW n \in Nat, NEW at, at \subseteq 1..n, NEW i \in Nat, NEW j \in at, i < j
    PROVE Rank(at, i) \in Nat /\ Rank(at, j) \in Nat /\ Rank(at, i) < Rank(at, j)
<1> DEFINE A == {k \in at : k <= i}
           B == {k \in at : k <= j}
<1>0. j \in Nat /\ \A k \in at : k \in Nat  OBVIOUS
<1>1. A \subseteq B /\ j \in B /\ j \notin A /\ B \subseteq 1..n /\ A \subseteq 1..n
  <2>1. \A k \in at : k <= i => k <= j  BY <1>0
  <2>2. j <= j /\ ~(j <= i)  BY <1>0
  <2> QED  BY <2>1, <2>2
<1>2. IsFiniteSet(B) /\ Cardinality(A) \in Nat /\ Cardinality(B) \in Nat
  BY <1>1, PositionsAreFinite
<1>3. Cardinality(A) <= Cardinality(B) /\ Cardinality(A) # Cardinality(B)
  BY <1>1, <1>2, FS_Subset
<1>4. Rank(at, i) = Cardinality(A) /\ Rank(at, j) = Cardinality(B)  BY DEF Rank
<1> HIDE DEF A, B
<1> QED  BY <1>2, <1>3, <1>4

\* A set of numbers that has one has a least one.
LEMMA LeastOf ==
    ASSUME NEW T, T \subseteq Nat, T # {}
    PROVE \E m \in T : \A i \in T : m <= i
<1>1. \E m \in T : \A i \in T : ~(<<i, m>> \in OpToRel(<, Nat))
  BY NatLessThanWellFounded, WFMin, Zenon
<1>2. PICK m \in T : \A i \in T : ~(<<i, m>> \in OpToRel(<, Nat))  BY <1>1
<1>3. \A i \in T : ~(i < m)  BY <1>2 DEF OpToRel
<1> QED  BY <1>3

\* Each rank up to the number of positions is that of one position.
LEMMA PlaceFits ==
    ASSUME NEW n \in Nat, NEW at, at \subseteq 1..n, NEW k \in 1..Cardinality(at)
    PROVE Place(at, k) \in at /\ Rank(at, Place(at, k)) = k
<1> DEFINE T == {i \in 0..n : Rank(at, i) >= k}
<1>1. Cardinality(at) \in Nat  BY PositionsAreFinite
<1>0. Rank(at, 0) = 0 /\ Rank(at, n) = Cardinality(at)  BY RankEnds
<1>2. n \in T  BY <1>0, <1>1
<1>3. PICK m \in T : \A i \in T : m <= i
  <2>1. T \subseteq Nat /\ T # {}  BY <1>2
  <2> QED  BY <2>1, LeastOf
<1>4. m # 0 /\ m \in Nat  BY <1>0, <1>1, <1>3
<1>5. ~(Rank(at, m - 1) >= k) /\ Rank(at, m) >= k
  <2>1. m - 1 \notin T  BY <1>3, <1>4
  <2> QED  BY <2>1, <1>3, <1>4
<1>6. m \in at /\ Rank(at, m) = k
  <2>1. /\ Rank(at, m) \in Nat /\ Rank(at, m - 1) \in Nat
        /\ Rank(at, m) = IF m \in at THEN Rank(at, m - 1) + 1 ELSE Rank(at, m - 1)
    BY <1>4, RankSteps
  <2> QED  BY <1>1, <1>5, <2>1
<1> QED  BY <1>6 DEF Place

\* A position is the one of its rank.
LEMMA PlaceOfRank ==
    ASSUME NEW n \in Nat, NEW at, at \subseteq 1..n, NEW i \in at
    PROVE Rank(at, i) \in 1..Cardinality(at) /\ Place(at, Rank(at, i)) = i
<1>1. i \in 1..n /\ 0 < i  OBVIOUS
<1>2. Rank(at, i) \in Nat /\ 0 < Rank(at, i)
  BY <1>1, RankGrows, RankEnds
<1>3. Rank(at, i) <= Cardinality(at) /\ Cardinality(at) \in Nat
  <2>1. {j \in at : j <= i} \in SUBSET at  OBVIOUS
  <2> QED  BY <2>1, FS_Subset, PositionsAreFinite DEF Rank
<1>4. \A j \in at : Rank(at, j) = Rank(at, i) => j = i
  <2> SUFFICES ASSUME NEW j \in at, j # i PROVE Rank(at, j) # Rank(at, i)  OBVIOUS
  <2>1. j \in 1..n /\ j \in Nat /\ i \in Nat  BY <1>1
  <2>2. CASE j < i
    <3>1. Rank(at, j) \in Nat /\ Rank(at, i) \in Nat /\ Rank(at, j) < Rank(at, i)
      BY <2>1, <2>2, RankGrows
    <3> QED  BY <3>1
  <2>3. CASE i < j
    <3>1. Rank(at, j) \in Nat /\ Rank(at, i) \in Nat /\ Rank(at, i) < Rank(at, j)
      BY <2>1, <2>3, RankGrows
    <3> QED  BY <3>1
  <2> QED  BY <2>1, <2>2, <2>3
<1> QED  BY <1>2, <1>3, <1>4 DEF Place

\* A function on the numbers up to n is a sequence.
LEMMA FunctionIsSeq ==
    ASSUME NEW n \in Nat, NEW f, f = [i \in 1..n |-> f[i]]
    PROVE IsSeq(f) /\ DOMAIN f = 1..n /\ Len(f) = n
<1>1. DOMAIN f = 1..n  OBVIOUS
<1>2. f \in [1..n -> {f[i] : i \in DOMAIN f}]  BY <1>1
<1>3. f \in Seq({f[i] : i \in DOMAIN f})
  <2> DEFINE S == {f[i] : i \in DOMAIN f}
  <2>1. f \in [1..n -> S]  BY <1>2
  <2> HIDE DEF S
  <2>2. f \in Seq(S)  BY <2>1
  <2> QED  BY <2>2 DEF S
<1>4. Len(f) = n
  <2> DEFINE S == {f[i] : i \in DOMAIN f}
  <2>1. f \in Seq(S)  BY <1>3
  <2> HIDE DEF S
  <2> QED  BY <1>1, <2>1
<1> QED  BY <1>1, <1>3, <1>4 DEF IsSeq

\* A sequence is a function on the numbers up to its length.
LEMMA SeqIsFunction ==
    ASSUME NEW f, IsSeq(f)
    PROVE Len(f) \in Nat /\ DOMAIN f = 1..Len(f) /\ f = [i \in 1..Len(f) |-> f[i]]
<1> DEFINE S == {f[i] : i \in DOMAIN f}
<1>1. f \in Seq(S)  BY DEF IsSeq
<1> HIDE DEF S
<1>2. Len(f) \in Nat /\ DOMAIN f = 1..Len(f)  BY <1>1
<1>3. f \in [1..Len(f) -> S]  BY <1>1
<1> QED  BY <1>2, <1>3

KeepsOf(f, seq, at) ==
    /\ IsSeq(f) /\ DOMAIN f = 1..Cardinality(at) /\ Len(f) = Cardinality(at)
    /\ Cardinality(at) \in Nat
    /\ \A k \in 1..Cardinality(at) : Place(at, k) \in at /\ f[k] = seq[Place(at, k)]
    /\ \A i \in at : \E k \in 1..Cardinality(at) : f[k] = seq[i]

\* Kept of some positions of a sequence is a sequence of what is there.
LEMMA KeptFits ==
    ASSUME NEW seq, IsSeq(seq), NEW at, at \subseteq DOMAIN seq
    PROVE KeepsOf(Kept(seq, at), seq, at)
<1> DEFINE n == Len(seq)
           f == Kept(seq, at)
<1>1. n \in Nat /\ at \subseteq 1..n  BY SeqIsFunction
<1> HIDE DEF n
<1>2. Cardinality(at) \in Nat  BY <1>1, PositionsAreFinite
<1>3. f = [k \in 1..Cardinality(at) |-> seq[Place(at, k)]]  BY KeptPlaces
<1>4. \A k \in 1..Cardinality(at) : f[k] = seq[Place(at, k)]  BY <1>3
<1>5. f = [k \in 1..Cardinality(at) |-> f[k]]  BY <1>3
<1> HIDE DEF f
<1>6. IsSeq(f) /\ DOMAIN f = 1..Cardinality(at) /\ Len(f) = Cardinality(at)
  BY <1>2, <1>5, FunctionIsSeq
<1>7. \A k \in 1..Cardinality(at) : Place(at, k) \in at  BY <1>1, PlaceFits
<1>8. \A i \in at : \E k \in 1..Cardinality(at) : f[k] = seq[i]
  <2> SUFFICES ASSUME NEW i \in at PROVE \E k \in 1..Cardinality(at) : f[k] = seq[i]  OBVIOUS
  <2>1. Rank(at, i) \in 1..Cardinality(at) /\ Place(at, Rank(at, i)) = i  BY <1>1, PlaceOfRank
  <2> QED  BY <2>1, <1>4
<1> QED  BY <1>2, <1>4, <1>6, <1>7, <1>8 DEF f, KeepsOf

\* The positions `of` among those of `keep` are the ones of `at`, in their order.
Through(of, keep, at) ==
    /\ Cardinality(of) = Cardinality(at) /\ Cardinality(at) \in Nat
    /\ \A m \in 1..Cardinality(at) :
         Place(of, m) \in of /\ Place(keep, Place(of, m)) = Place(at, m)

\* Keeping some of what was kept is keeping them at once.
LEMMA KeptOfKept ==
    ASSUME NEW n \in Nat, NEW keep, keep \subseteq 1..n, NEW at, at \subseteq keep,
           NEW of, of = {k \in 1..Cardinality(keep) : Place(keep, k) \in at}
    PROVE Through(of, keep, at)
<1>1. Cardinality(keep) \in Nat /\ of \subseteq 1..Cardinality(keep)  BY PositionsAreFinite
<1>2. at \subseteq 1..n  OBVIOUS
<1>3. \A k \in of : Place(keep, k) \in at /\ Rank(keep, Place(keep, k)) = k  BY PlaceFits
<1>4. \A i \in at : Rank(keep, i) \in of /\ Place(keep, Rank(keep, i)) = i  BY PlaceOfRank
<1>5. \A i, j \in at : i <= j <=> Rank(keep, i) <= Rank(keep, j)
  <2> SUFFICES ASSUME NEW i \in at, NEW j \in at
               PROVE i <= j <=> Rank(keep, i) <= Rank(keep, j)  OBVIOUS
  <2>1. i \in keep /\ j \in keep /\ i \in Nat /\ j \in Nat  OBVIOUS
  <2>2. Rank(keep, i) \in Nat /\ Rank(keep, j) \in Nat
    <3>1. Rank(keep, i) \in 1..Cardinality(keep) /\ Rank(keep, j) \in 1..Cardinality(keep)
      BY <2>1, PlaceOfRank
    <3> QED  BY <1>1, <3>1
  <2>3. i < j => Rank(keep, i) < Rank(keep, j)  BY <2>1, RankGrows
  <2>4. j < i => Rank(keep, j) < Rank(keep, i)  BY <2>1, RankGrows
  <2> QED  BY <2>1, <2>2, <2>3, <2>4
\* The ranks of positions are as many as the positions.
<1>6. \A S \in SUBSET at : Cardinality({Rank(keep, i) : i \in S}) = Cardinality(S)
  <2> SUFFICES ASSUME NEW S \in SUBSET at
               PROVE Cardinality({Rank(keep, i) : i \in S}) = Cardinality(S)  OBVIOUS
  <2> DEFINE T == {Rank(keep, i) : i \in S}
             g == [i \in S |-> Rank(keep, i)]
  <2>1. S \subseteq 1..n  BY <1>2
  <2>2. IsFiniteSet(S)  BY <2>1, PositionsAreFinite
  <2>3. g \in [S -> T] /\ \A i \in S : g[i] = Rank(keep, i)  OBVIOUS
  <2>4. \A i, j \in S : g[i] = g[j] => i = j  BY <1>4, <2>3
  <2>5. \A t \in T : \E i \in S : g[i] = t  BY <2>3
  <2> HIDE DEF g, T
  <2>6. g \in Bijection(S, T)
    BY <2>3, <2>4, <2>5 DEF Bijection, Injection, Surjection, IsInjective
  <2>7. ExistsBijection(S, T)  BY <2>6 DEF ExistsBijection
  <2>8. Cardinality(T) = Cardinality(S)  BY <2>2, <2>7, FS_Bijection
  <2> QED  BY <2>8 DEF T
<1>7. of = {Rank(keep, i) : i \in at}  BY <1>3, <1>4
<1>8. Cardinality(of) = Cardinality(at) /\ Cardinality(at) \in Nat
  BY <1>2, <1>6, <1>7, PositionsAreFinite
<1>9. ASSUME NEW m \in 1..Cardinality(at)
      PROVE Place(of, m) \in of /\ Place(keep, Place(of, m)) = Place(at, m)
  <2> DEFINE i == Place(at, m)
             d == Rank(keep, i)
             S == {j \in at : j <= i}
  <2>1. i \in at /\ Rank(at, i) = m  BY <1>2, PlaceFits
  <2>2. d \in of /\ Place(keep, d) = i  BY <1>4, <2>1
  <2>3. {e \in of : e <= d} = {Rank(keep, j) : j \in S}
    <3>1. \A j \in at : j \in S <=> Rank(keep, j) <= d  BY <1>5, <2>1
    <3> HIDE DEF d, S
    <3>2. S \subseteq at  BY DEF S
    <3>3. ASSUME NEW e \in of, e <= d PROVE e \in {Rank(keep, j) : j \in S}
      <4>1. PICK j \in at : e = Rank(keep, j)  BY <1>7
      <4> QED  BY <3>1, <3>3, <4>1
    <3>4. \A j \in S : Rank(keep, j) \in of /\ Rank(keep, j) <= d  BY <1>4, <3>1, <3>2
    <3> QED  BY <3>3, <3>4
  <2>4. Rank(of, d) = m  BY <1>6, <2>1, <2>3 DEF Rank
  <2>5. Place(of, m) = d
    <3> HIDE DEF d
    <3>1. Place(of, Rank(of, d)) = d  BY <1>1, <2>2, PlaceOfRank
    <3> QED  BY <2>4, <3>1
  <2> QED  BY <2>2, <2>5
<1> QED  BY <1>8, <1>9 DEF Through

----------------------------------------------------------------------------
(* Entries of charts.json and the specs they are read into.                *)

IsSpec(s) == IsChart(s) /\ s.type \in ChartTypes /\ DOMAIN s.options = OptionKeys(s.type)

\* Two charts that differ in nothing but their options.
SameButOptions(c, d) ==
    DOMAIN c = DOMAIN d /\ \A field \in DOMAIN c \ {"options"} : c[field] = d[field]

\* What differs in its options alone has the same name, type and output.
LEMMA SameFields ==
    ASSUME NEW c, NEW d, IsChart(c), SameButOptions(c, d)
    PROVE c.id = d.id /\ c.type = d.type /\ c.output = d.output /\ c.runOnSave = d.runOnSave
          /\ ("input" \in DOMAIN c => c.input = d.input)
BY DEF IsChart, SameButOptions

\* An entry of a known type is read into a spec with every option.
LEMMA SpecOfFits ==
    ASSUME NEW e, IsChart(e), e.type \in ChartTypes
    PROVE IsSpec(SpecOf(e)) /\ SameButOptions(e, SpecOf(e))
          /\ SpecOf(e).options = Filled(e.type, e.options)
<1> DEFINE g == Filled(e.type, e.options)
           d == SpecOf(e)
<1>1. g = [k \in DOMAIN g |-> g[k]] /\ DOMAIN g = OptionKeys(e.type)  BY DEF Filled
<1>2. d = [e EXCEPT !.options = g]  BY DEF SpecOf
<1> HIDE DEF g, d
<1>3. IsChart(d) /\ SameButOptions(e, d) /\ d.options = g
  BY <1>1, <1>2 DEF IsChart, SameButOptions
<1>4. d.type = e.type  BY <1>3, SameFields
<1> QED  BY <1>1, <1>3, <1>4 DEF IsSpec, g, d

\* What the file keeps of the options of a spec.
Written(s) ==
    AlwaysWritten(s.type, s.options) \union
      {j \in OptionKeys(s.type) : /\ s.options[j] \notin {Empty(j), Default(j)}
                                  /\ ~(j = SingleValue(s.type) /\ s.options.values # <<>>)}

\* The keys a type has, and what is said of them.
LEMMA Keys ==
    ASSUME NEW s, IsSpec(s)
    PROVE /\ RequiredKeys(s.type) \subseteq Written(s)
          /\ Written(s) \subseteq OptionKeys(s.type)
          /\ \A k \in OptionKeys(s.type) \ Written(s) :
               \/ s.options[k] \in {Empty(k), Default(k)} /\ k # "date"
               \/ k = SingleValue(s.type) /\ s.options.values # <<>> /\ Default(k) = "" /\ k # "date"
          /\ s.type = "heatmap" => {"start", "end", "lookback", "value", "values"} \subseteq OptionKeys(s.type)
          /\ s.type # "markdown-table" => "values" \in OptionKeys(s.type)
          /\ "sql" \in OptionKeys(s.type)
          /\ SingleValue(s.type) \in OptionKeys(s.type) => s.type # "markdown-table"
          /\ SingleValue(s.type) \notin {"values", "sql", "start", "end", "lookback"}
          /\ \A k \in {"values", "sql", "start", "end", "lookback"} : Default(k) = Empty(k)
          /\ Empty("values") = <<>> /\ Empty("sql") = ""
<1>1. s.type \in ChartTypes  BY DEF IsSpec
<1>2. CASE s.type = "heatmap"
  BY <1>2 DEF Written, AlwaysWritten, OptionKeys, RequiredKeys, SingleValue, Default, Empty, ListKeys
<1>3. CASE s.type = "bar"
  BY <1>3 DEF Written, AlwaysWritten, OptionKeys, RequiredKeys, SingleValue, Default, Empty, ListKeys
<1>4. CASE s.type = "line"
  BY <1>4 DEF Written, AlwaysWritten, OptionKeys, RequiredKeys, SingleValue, Default, Empty, ListKeys
<1>5. CASE s.type = "markdown-table"
  BY <1>5 DEF Written, AlwaysWritten, OptionKeys, RequiredKeys, SingleValue, Default, Empty, ListKeys
<1> QED  BY <1>1, <1>2, <1>3, <1>4, <1>5 DEF ChartTypes

\* An entry that was written is read into what was drawn: the options that were
\* left out come back, or say nothing.
EntryOf(s, t) ==
    /\ IsChart(Entry(s)) /\ Entry(s).type = s.type /\ Entry(s).id = s.id
    /\ DOMAIN Entry(s) = DOMAIN s
    /\ RequiredKeys(s.type) \subseteq DOMAIN Entry(s).options
    /\ DOMAIN Entry(s).options \subseteq OptionKeys(s.type)
    /\ IsSpec(t) /\ SameButOptions(s, t)
    /\ \A k \in DOMAIN Entry(s).options : Entry(s).options[k] = s.options[k]
    /\ t.options.sql = s.options.sql
    /\ "values" \in OptionKeys(s.type) => t.options.values = s.options.values
    /\ \A k \in OptionKeys(s.type) :
         \/ t.options[k] = s.options[k]
         \/ t.options[k] = Default(k) /\ s.options[k] = Empty(k) /\ k # "date"
         \/ k = SingleValue(s.type) /\ s.options.values # <<>>
    /\ s.type = "heatmap" => (HeatmapRange(t.options) <=> HeatmapRange(s.options))
    /\ Meaning(t) = Meaning(s)

\* A spec that is written and read again means what it meant.
LEMMA EntryKeeps ==
    ASSUME NEW s, IsSpec(s)
    PROVE EntryOf(s, SpecOf(Entry(s)))
<1> DEFINE o == s.options
           w == Written(s)
           p == [k \in w |-> o[k]]
           e == Entry(s)
           t == SpecOf(e)
<1>1. IsChart(s) /\ s.type \in ChartTypes /\ DOMAIN o = OptionKeys(s.type)  BY DEF IsSpec
<1>2. e = [s EXCEPT !.options = p]  BY DEF Entry, OptionsForConfig, Written
<1>3. p = [k \in DOMAIN p |-> p[k]] /\ DOMAIN p = w /\ \A k \in w : p[k] = o[k]  OBVIOUS
<1> HIDE DEF p, e
<1>4. IsChart(e) /\ SameButOptions(s, e) /\ e.options = p
  BY <1>1, <1>2, <1>3 DEF IsChart, SameButOptions
<1>5. e.type = s.type /\ e.id = s.id  BY <1>1, <1>4, SameFields
<1>6. IsSpec(t) /\ SameButOptions(e, t) /\ t.options = Filled(s.type, p)
  BY <1>1, <1>4, <1>5, SpecOfFits
<1> HIDE DEF t, w, o
<1>7. SameButOptions(s, t)  BY <1>4, <1>6 DEF SameButOptions
<1>8. t.type = s.type  BY <1>1, <1>7, SameFields
<1>9. \A k \in OptionKeys(s.type) : t.options[k] = IF k \in w THEN o[k] ELSE Default(k)
  BY <1>3, <1>6 DEF Filled
<1>10. \A k \in {"values", "sql", "start", "end", "lookback"} \cap OptionKeys(s.type) : t.options[k] = o[k]
  BY <1>9, Keys DEF w, o
<1>11. t.options.sql = s.options.sql  BY <1>10, Keys DEF o
<1>12. s.type = "heatmap" => (HeatmapRange(t.options) <=> HeatmapRange(s.options))
  <2>1. s.type = "heatmap" => /\ t.options.lookback = o.lookback
                              /\ t.options.start = o.start /\ t.options.end = o.end
    BY <1>10, Keys
  <2> QED  BY <2>1 DEF HeatmapRange, o
<1>13. Meaning(t) = Meaning(s)
  <2> DEFINE MeaningOf(q, k) == IF k = SingleValue(s.type) /\ q.values # <<>> THEN ""
                                ELSE IF q[k] = Empty(k) /\ k # "date" THEN Default(k) ELSE q[k]
             ms == [k \in OptionKeys(s.type) |-> MeaningOf(o, k)]
             mt == [k \in OptionKeys(s.type) |-> MeaningOf(t.options, k)]
  <2>1. \A k \in OptionKeys(s.type) : MeaningOf(t.options, k) = MeaningOf(o, k)
    <3> SUFFICES ASSUME NEW k \in OptionKeys(s.type)
                 PROVE MeaningOf(t.options, k) = MeaningOf(o, k)
      OBVIOUS
    <3>1. k = SingleValue(s.type) => t.options.values = o.values
      BY <1>1, <1>10, Keys
    <3>2. CASE k \in w
      BY <1>9, <3>1, <3>2
    <3>3. CASE k \notin w
      <4>1. t.options[k] = Default(k)  BY <1>9, <3>3
      <4>2. \/ o[k] \in {Empty(k), Default(k)} /\ k # "date"
            \/ k = SingleValue(s.type) /\ o.values # <<>> /\ Default(k) = "" /\ k # "date"
        BY <3>3, Keys DEF w, o
      <4> QED  BY <3>1, <4>1, <4>2
    <3> QED  BY <3>2, <3>3
  <2>2. mt = ms  BY <2>1
  <2>3. Meaning(s) = [s EXCEPT !.options = ms]  BY <1>1 DEF Meaning, o
  <2>4. Meaning(t) = [t EXCEPT !.options = mt]
    <3>1. DOMAIN t.options = OptionKeys(s.type)  BY <1>6, <1>8 DEF IsSpec
    <3> QED  BY <1>8, <3>1 DEF Meaning
  <2> HIDE DEF ms, mt
  <2>5. [t EXCEPT !.options = ms] = [s EXCEPT !.options = ms]
    BY <1>1, <1>6, <1>7 DEF SameButOptions, IsChart, IsSpec
  <2> QED  BY <2>2, <2>3, <2>4, <2>5
<1>16. \A k \in OptionKeys(s.type) :
         \/ t.options[k] = o[k]
         \/ t.options[k] = Default(k) /\ o[k] = Empty(k) /\ k # "date"
         \/ k = SingleValue(s.type) /\ o.values # <<>>
  BY <1>9, Keys DEF w, o
<1>17. "values" \in OptionKeys(s.type) => t.options.values = o.values  BY <1>10
<1>14. RequiredKeys(s.type) \subseteq w /\ w \subseteq OptionKeys(s.type)  BY Keys DEF w
<1>15. DOMAIN e = DOMAIN s  BY <1>4 DEF SameButOptions
<1> QED
  BY <1>3, <1>4, <1>5, <1>6, <1>7, <1>11, <1>12, <1>13, <1>14, <1>15, <1>16, <1>17
     DEF EntryOf, t, e, o

----------------------------------------------------------------------------
(* A chart that is replaced, and one that is posted.                       *)

IdsDiffer(cs) == \A i, j \in DOMAIN cs : cs[i].id = cs[j].id => i = j

\* Where the charts of other ids are.
Beside(cs, id) == {i \in DOMAIN cs : cs[i].id # id}

\* What an update makes of the charts: the one of that id is there, once, and
\* the others as they were, in their order.
IsUpdated(new, cs, spec) ==
    /\ IsSeq(new)
    /\ \A k \in DOMAIN new : \/ new[k] = spec
                             \/ \E i \in DOMAIN cs : cs[i].id # spec.id /\ new[k] = cs[i]
    /\ \E k \in DOMAIN new : new[k] = spec
    /\ \A k, l \in DOMAIN new : new[k].id = spec.id /\ new[l].id = spec.id => k = l
    /\ IdsDiffer(cs) => IdsDiffer(new)
    /\ Cardinality(Beside(new, spec.id)) = Cardinality(Beside(cs, spec.id))
    /\ Cardinality(Beside(cs, spec.id)) \in Nat
    /\ \A m \in 1..Cardinality(Beside(cs, spec.id)) :
         /\ Place(Beside(new, spec.id), m) \in Beside(new, spec.id)
         /\ Place(Beside(cs, spec.id), m) \in Beside(cs, spec.id)
         /\ new[Place(Beside(new, spec.id), m)] = cs[Place(Beside(cs, spec.id), m)]

\* A chart of a new id goes after the others.
LEMMA AppendUpdates ==
    ASSUME NEW cs, IsSeq(cs), NEW spec, \A i \in DOMAIN cs : cs[i].id # spec.id
    PROVE IsUpdated(Append(cs, spec), cs, spec)
<1> DEFINE n == Len(cs)
           new == Append(cs, spec)
           S == {cs[i] : i \in DOMAIN cs} \union {spec}
<1>1. n \in Nat /\ DOMAIN cs = 1..n /\ cs = [i \in 1..n |-> cs[i]]  BY SeqIsFunction
<1>2. DOMAIN new = 1..(n + 1) /\ \A k \in 1..(n + 1) : new[k] = IF k = n + 1 THEN spec ELSE cs[k]
  <2>1. cs \in Seq(S)
    <3>1. \A i \in 1..n : cs[i] \in S  BY <1>1
    <3> HIDE DEF S
    <3>2. cs \in [1..n -> S]  BY <1>1, <3>1
    <3> QED  BY <1>1, <3>2
  <2>2. spec \in S  OBVIOUS
  <2> HIDE DEF S
  <2> QED  BY <2>1, <2>2, <1>1
<1>3. new = [k \in 1..(n + 1) |-> new[k]]
  <2>1. cs \in Seq(S) /\ spec \in S
    <3>1. \A i \in 1..n : cs[i] \in S  BY <1>1
    <3>2. spec \in S  OBVIOUS
    <3> HIDE DEF S
    <3>3. cs \in [1..n -> S]  BY <1>1, <3>1
    <3> QED  BY <1>1, <3>2, <3>3
  <2> HIDE DEF S
  <2>2. new \in Seq(S) /\ Len(new) = n + 1  BY <2>1
  <2> HIDE DEF new, n
  <2>3. new \in [1..Len(new) -> S]  BY <2>2
  <2> QED  BY <2>2, <2>3
<1> HIDE DEF n, new, S
<1>4. IsSeq(new)  BY <1>1, <1>3, FunctionIsSeq
<1>5. Beside(new, spec.id) = 1..n /\ Beside(cs, spec.id) = 1..n
  <2>1. \A k \in 1..n : k \in 1..(n + 1) /\ k # n + 1 /\ new[k] = cs[k]  BY <1>1, <1>2
  <2>2. \A k \in 1..(n + 1) : k = n + 1 \/ k \in 1..n  BY <1>1
  <2>3. new[n + 1] = spec /\ n + 1 \in 1..(n + 1)  BY <1>1, <1>2
  <2> QED  BY <1>1, <1>2, <2>1, <2>2, <2>3 DEF Beside
<1>6. Cardinality(1..n) = n  BY <1>1, FS_Interval
<1>7. \A m \in 1..n : Place(1..n, m) \in 1..n
  <2> SUFFICES ASSUME NEW m \in 1..n PROVE Place(1..n, m) \in 1..n  OBVIOUS
  <2>1. m \in 1..Cardinality(1..n)  BY <1>6
  <2> QED  BY <1>1, <2>1, PlaceFits
<1>8. \A k \in 1..n : new[k] = cs[k]  BY <1>1, <1>2
<1>9. n + 1 \in DOMAIN new /\ new[n + 1] = spec
  <2>1. n + 1 \in 1..(n + 1)  BY <1>1
  <2> QED  BY <1>2, <2>1
<1>10. \A k \in DOMAIN new : k = n + 1 \/ (k \in 1..n /\ new[k] = cs[k] /\ cs[k].id # spec.id)
  BY <1>1, <1>2
<1>11. IdsDiffer(cs) => IdsDiffer(new)
  BY <1>1, <1>9, <1>10 DEF IdsDiffer
<1> QED
  BY <1>1, <1>4, <1>5, <1>6, <1>7, <1>8, <1>9, <1>10, <1>11 DEF IsUpdated, new

\* A chart of an id that is there takes the place of the first one.
LEMMA KeptUpdates ==
    ASSUME NEW cs, IsSeq(cs), NEW spec, NEW at, at = {i \in DOMAIN cs : cs[i].id = spec.id}, at # {},
           NEW replaced, replaced = [i \in DOMAIN cs |-> IF i \in at THEN spec ELSE cs[i]],
           NEW keep, keep = (DOMAIN cs \ at) \union {i \in at : \A j \in at : i <= j}
    PROVE IsUpdated(Kept(replaced, keep), cs, spec)
<1> DEFINE n == Len(cs)
           new == Kept(replaced, keep)
           others == Beside(cs, spec.id)
<1>1. n \in Nat /\ DOMAIN cs = 1..n  BY SeqIsFunction
<1>2. replaced = [i \in 1..n |-> replaced[i]] /\ DOMAIN replaced = 1..n
      /\ \A i \in 1..n : replaced[i] = IF i \in at THEN spec ELSE cs[i]
  BY <1>1
<1> HIDE DEF n
<1>3. IsSeq(replaced)  BY <1>1, <1>2, FunctionIsSeq
<1>4. PICK first \in at : \A j \in at : first <= j
  <2>1. at \subseteq Nat  BY <1>1
  <2> QED  BY <2>1, LeastOf
<1>5. at \subseteq 1..n /\ first \in 1..n /\ keep \subseteq 1..n /\ others \subseteq keep
      /\ others \subseteq 1..n
  BY <1>1 DEF Beside
<1>6. \A i \in at : (\A j \in at : i <= j) => i = first
  <2> SUFFICES ASSUME NEW i \in at, \A j \in at : i <= j PROVE i = first  OBVIOUS
  <2>1. i <= first /\ first <= i /\ i \in Nat /\ first \in Nat  BY <1>4, <1>5
  <2> QED  BY <2>1
<1>7. first \in keep /\ \A i \in keep : i = first \/ i \in others
  BY <1>4, <1>6 DEF Beside
<1>8. \A i \in keep : i \in at <=> i = first
  BY <1>4, <1>7 DEF Beside
<1>9. /\ IsSeq(new) /\ DOMAIN new = 1..Cardinality(keep) /\ Cardinality(keep) \in Nat
      /\ \A k \in 1..Cardinality(keep) : Place(keep, k) \in keep /\ new[k] = replaced[Place(keep, k)]
  <2>1. keep \subseteq DOMAIN replaced  BY <1>2, <1>5
  <2>2. KeepsOf(Kept(replaced, keep), replaced, keep)  BY <1>3, <2>1, KeptFits
  <2> QED  BY <2>2 DEF KeepsOf
<1>10. \A k \in DOMAIN new :
         new[k] = IF Place(keep, k) = first THEN spec ELSE cs[Place(keep, k)]
  <2>1. \A i \in keep : replaced[i] = IF i = first THEN spec ELSE cs[i]  BY <1>2, <1>5, <1>8
  <2> HIDE DEF new
  <2> SUFFICES ASSUME NEW k \in DOMAIN new
               PROVE new[k] = IF Place(keep, k) = first THEN spec ELSE cs[Place(keep, k)]
    OBVIOUS
  <2>2. k \in 1..Cardinality(keep)  BY <1>9
  <2>3. Place(keep, k) \in keep /\ new[k] = replaced[Place(keep, k)]  BY <1>9, <2>2
  <2> QED  BY <2>1, <2>3
<1> HIDE DEF new
<1>11. \A k \in DOMAIN new : Place(keep, k) # first => Place(keep, k) \in others
  BY <1>7, <1>9
<1>12. \A k, l \in DOMAIN new : Place(keep, k) = Place(keep, l) => k = l
  <2> SUFFICES ASSUME NEW k \in DOMAIN new, NEW l \in DOMAIN new, Place(keep, k) = Place(keep, l)
               PROVE k = l
    OBVIOUS
  <2>1. k \in 1..Cardinality(keep) /\ l \in 1..Cardinality(keep)  BY <1>9
  <2>2. Rank(keep, Place(keep, k)) = k /\ Rank(keep, Place(keep, l)) = l
    BY <1>1, <1>5, <2>1, PlaceFits
  <2> QED  BY <2>2
<1>13. \A k \in DOMAIN new : new[k].id = spec.id <=> Place(keep, k) = first
  BY <1>10, <1>11 DEF Beside
<1>14. \E k \in DOMAIN new : Place(keep, k) = first
  <2>1. Rank(keep, first) \in 1..Cardinality(keep) /\ Place(keep, Rank(keep, first)) = first
    BY <1>1, <1>5, <1>7, PlaceOfRank
  <2> QED  BY <1>9, <2>1
<1>15. IdsDiffer(cs) => IdsDiffer(new)
  <2> SUFFICES ASSUME IdsDiffer(cs), NEW k \in DOMAIN new, NEW l \in DOMAIN new, new[k].id = new[l].id
               PROVE k = l
    BY DEF IdsDiffer
  <2>1. CASE Place(keep, k) = first \/ Place(keep, l) = first
    BY <1>12, <1>13, <2>1
  <2>2. CASE Place(keep, k) # first /\ Place(keep, l) # first
    <3>1. /\ Place(keep, k) \in DOMAIN cs /\ Place(keep, l) \in DOMAIN cs
          /\ new[k] = cs[Place(keep, k)] /\ new[l] = cs[Place(keep, l)]
      BY <1>10, <1>11, <2>2 DEF Beside
    <3>2. Place(keep, k) = Place(keep, l)  BY <3>1 DEF IdsDiffer
    <3> QED  BY <1>12, <3>2
  <2> QED  BY <2>1, <2>2
<1>16. Beside(new, spec.id) = {k \in 1..Cardinality(keep) : Place(keep, k) \in others}
  BY <1>7, <1>8, <1>9, <1>11, <1>13 DEF Beside
<1>17. /\ Cardinality(Beside(new, spec.id)) = Cardinality(others) /\ Cardinality(others) \in Nat
       /\ \A m \in 1..Cardinality(others) :
            /\ Place(Beside(new, spec.id), m) \in Beside(new, spec.id)
            /\ Place(keep, Place(Beside(new, spec.id), m)) = Place(others, m)
  <2> DEFINE of == Beside(new, spec.id)
  <2>1. of = {k \in 1..Cardinality(keep) : Place(keep, k) \in others}  BY <1>16
  <2>3. n \in Nat /\ keep \subseteq 1..n /\ others \subseteq keep  BY <1>1, <1>5
  <2> HIDE DEF of, others
  <2>2. Through(of, keep, others)
    BY <2>1, <2>3, KeptOfKept
  <2> QED  BY <2>2 DEF of, Through
<1>18. \A m \in 1..Cardinality(others) : Place(others, m) \in others
  BY <1>1, <1>5, PlaceFits
<1>19. \A i \in others : i # first  BY <1>4 DEF Beside
<1>20. \A m \in 1..Cardinality(others) : new[Place(Beside(new, spec.id), m)] = cs[Place(others, m)]
  <2> SUFFICES ASSUME NEW m \in 1..Cardinality(others)
               PROVE new[Place(Beside(new, spec.id), m)] = cs[Place(others, m)]
    OBVIOUS
  <2>1. Place(Beside(new, spec.id), m) \in DOMAIN new  BY <1>17 DEF Beside
  <2>2. Place(keep, Place(Beside(new, spec.id), m)) = Place(others, m)  BY <1>17
  <2>3. Place(others, m) # first  BY <1>18, <1>19
  <2> QED  BY <1>10, <2>1, <2>2, <2>3
<1>21. \A k \in DOMAIN new : \/ new[k] = spec
                             \/ \E i \in DOMAIN cs : cs[i].id # spec.id /\ new[k] = cs[i]
  BY <1>10, <1>11 DEF Beside
<1>22. \E k \in DOMAIN new : new[k] = spec  BY <1>10, <1>14
<1>23. \A k, l \in DOMAIN new : new[k].id = spec.id /\ new[l].id = spec.id => k = l
  BY <1>12, <1>13
<1> QED
  BY <1>9, <1>15, <1>17, <1>18, <1>20, <1>21, <1>22, <1>23 DEF IsUpdated, new

\* Updated is an update.
LEMMA UpdatedFits ==
    ASSUME NEW cs, IsSeq(cs), NEW spec
    PROVE IsUpdated(Updated(cs, spec), cs, spec)
<1> DEFINE at == {i \in DOMAIN cs : cs[i].id = spec.id}
           replaced == [i \in DOMAIN cs |-> IF i \in at THEN spec ELSE cs[i]]
           keep == (DOMAIN cs \ at) \union {i \in at : \A j \in at : i <= j}
<1>1. Updated(cs, spec) = IF at = {} THEN Append(cs, spec) ELSE Kept(replaced, keep)
  BY DEF Updated
<1>2. CASE at = {}
  <2>1. \A i \in DOMAIN cs : cs[i].id # spec.id  BY <1>2
  <2>2. IsUpdated(Append(cs, spec), cs, spec)  BY <2>1, AppendUpdates
  <2> QED  BY <1>1, <1>2, <2>2
<1>3. CASE at # {}
  <2>1. IsUpdated(Kept(replaced, keep), cs, spec)
    <3> DEFINE A == at
               R == replaced
               K == keep
    <3>1. /\ A = {i \in DOMAIN cs : cs[i].id = spec.id} /\ A # {}
          /\ R = [i \in DOMAIN cs |-> IF i \in A THEN spec ELSE cs[i]]
          /\ K = (DOMAIN cs \ A) \union {i \in A : \A j \in A : i <= j}
      BY <1>3
    <3> HIDE DEF A, R, K
    <3>2. IsUpdated(Kept(R, K), cs, spec)  BY <3>1, KeptUpdates
    <3> QED  BY <3>2 DEF A, R, K
  <2> QED  BY <1>1, <1>3, <2>1
<1> QED  BY <1>2, <1>3

\* The query that the first chart of an id and a type has.
SameCharts(cs, c) == {i \in DOMAIN cs : cs[i].id = c.id /\ cs[i].type = c.type}
FirstOf(S) == CHOOSE i \in S : \A j \in S : i <= j
SqlOf(cs, c) == IF SameCharts(cs, c) = {} THEN "" ELSE cs[FirstOf(SameCharts(cs, c))].options.sql

\* The first of some positions is one of them.
LEMMA FirstFits ==
    ASSUME NEW S, S \subseteq Nat, S # {}
    PROVE FirstOf(S) \in S /\ \A j \in S : FirstOf(S) <= j
BY LeastOf DEF FirstOf

\* What the form posts becomes a spec with every option, and with the query that
\* the file has for it.
IsOfBody(spec, form, cs) ==
    /\ IsSpec(spec) /\ SameButOptions(form, spec)
    /\ \A k \in OptionKeys(form.type) \ {"sql"} : spec.options[k] = Filled(form.type, form.options)[k]
    /\ form.type # "markdown-table" /\ "sql" \notin DOMAIN form.options =>
         spec.options.sql = SqlOf(cs, form)
    /\ form.type = "markdown-table" => spec.options = Filled(form.type, form.options)

\* A chart of every option that takes its query makes such a spec.
LEMMA QueryFits ==
    ASSUME NEW form, IsChart(form), form.type \in ChartTypes, NEW cs
    PROVE IsOfBody(PreserveConfigOnlySql(SpecOf(form), cs), form, cs)
<1> DEFINE o == Filled(form.type, form.options)
           spec == [form EXCEPT !.options = o]
           sql == cs[FirstOf(SameCharts(cs, form))].options.sql
           lent == [spec EXCEPT !.options.sql = sql]
           lends == form.type # "markdown-table" /\ SameCharts(cs, form) # {} /\ spec.options.sql = ""
           p == [o EXCEPT !["sql"] = sql]
<1>2. spec = SpecOf(form)  BY DEF SpecOf
<1>3. IsSpec(spec) /\ SameButOptions(form, spec) /\ spec.options = o  BY <1>2, SpecOfFits
<1>4. spec.type = form.type /\ spec.id = form.id  BY <1>3, SameFields
<1>1. PreserveConfigOnlySql(SpecOf(form), cs) = IF lends THEN lent ELSE spec
  <2>1. SameCharts(cs, spec) = SameCharts(cs, form)  BY <1>4 DEF SameCharts
  <2>2. \A c : PreserveConfigOnlySql(c, cs)
                = IF c.type # "markdown-table" /\ SameCharts(cs, c) # {} /\ c.options.sql = ""
                    THEN [c EXCEPT !.options.sql = cs[FirstOf(SameCharts(cs, c))].options.sql] ELSE c
    BY DEF PreserveConfigOnlySql, SameCharts, FirstOf
  <2> HIDE DEF spec
  <2> QED  BY <1>2, <1>4, <2>1, <2>2
<1>5. "sql" \in OptionKeys(form.type)  BY <1>3, <1>4, Keys
<1>6. DOMAIN o = OptionKeys(form.type)  BY DEF Filled
<1>7. "sql" \notin DOMAIN form.options => o.sql = ""
  BY <1>5, Keys, <1>3, <1>4 DEF Filled
<1>8. CASE lends
  <2>1. lent = [spec EXCEPT !["options"] = [spec["options"] EXCEPT !["sql"] = sql]]
    OBVIOUS
  <2>2. lent = [spec EXCEPT !["options"] = p]  BY <1>3, <2>1
  <2>3. p = [k \in DOMAIN p |-> p[k]] /\ DOMAIN p = DOMAIN o /\ p["sql"] = sql
        /\ \A k \in DOMAIN o \ {"sql"} : p[k] = o[k]
    BY <1>5, <1>6
  <2> HIDE DEF p, spec, o, sql, lent, lends
  <2>4. IsChart(lent) /\ SameButOptions(spec, lent) /\ lent.options = p
    BY <1>3, <2>2, <2>3 DEF IsChart, SameButOptions, IsSpec
  <2>5. lent.type = form.type  BY <1>3, <1>4, <2>4, SameFields DEF IsSpec
  <2>6. IsSpec(lent) /\ SameButOptions(form, lent)
    BY <1>3, <1>4, <1>6, <2>3, <2>4, <2>5 DEF IsSpec, SameButOptions
  <2>7. form.type # "markdown-table" /\ sql = SqlOf(cs, form)
    BY <1>8 DEF lends, SqlOf, sql
  <2>8. \A k \in OptionKeys(form.type) \ {"sql"} : lent.options[k] = o[k]
    BY <1>6, <2>3, <2>4
  <2> QED  BY <1>1, <1>8, <2>3, <2>4, <2>6, <2>7, <2>8 DEF IsOfBody, o
<1>9. CASE ~lends
  <2>1. "sql" \notin DOMAIN form.options /\ form.type # "markdown-table" => SqlOf(cs, form) = ""
    BY <1>3, <1>7, <1>9 DEF SqlOf
  <2> HIDE DEF spec, lent, lends, sql
  <2> QED  BY <1>1, <1>3, <1>7, <1>9, <2>1 DEF IsOfBody
<1> QED  BY <1>8, <1>9

\* What is posted, under the id that the server makes of the one that was sent.
Body(form) == [form EXCEPT !.id = SanitizeChartId(form.id)]

\* SpecForBody makes a spec of what is posted.
LEMMA BodyFits ==
    ASSUME NEW form, IsChart(form), form.type \in ChartTypes, NEW cs
    PROVE /\ IsChart(Body(form)) /\ DOMAIN Body(form) = DOMAIN form
          /\ \A field \in DOMAIN form \ {"id"} : Body(form)[field] = form[field]
          /\ Body(form).id = SanitizeChartId(form.id)
          /\ IsOfBody(SpecForBody(form, cs), Body(form), cs)
<1> DEFINE b == Body(form)
<1>1. /\ DOMAIN b = DOMAIN form /\ b = [field \in DOMAIN b |-> b[field]]
      /\ b["id"] = SanitizeChartId(form.id) /\ \A field \in DOMAIN form \ {"id"} : b[field] = form[field]
  BY DEF Body, IsChart
<1>2. SpecOfBody(form) = SpecOf(b)
  <2>1. SpecOfBody(form) = [b EXCEPT !["options"] = Filled(form.type, form.options)]
    BY DEF SpecOfBody, Body, IsChart
  <2> HIDE DEF b
  <2> QED  BY <1>1, <2>1 DEF SpecOf, IsChart
<1> HIDE DEF b
<1>3. IsChart(b) /\ b.type = form.type  BY <1>1 DEF IsChart
<1>4. IsOfBody(SpecForBody(form, cs), b, cs)  BY <1>2, <1>3, QueryFits DEF SpecForBody
<1> QED  BY <1>1, <1>3, <1>4 DEF b

----------------------------------------------------------------------------
(* The invariant of ChartStore.                                            *)

Ids == {SanitizeChartId(form.id) : form \in Forms} \union UNION {{c[i].id : i \in DOMAIN c} : c \in Configs}

\* An entry of the file, a spec that may be drawn or refused, and one that can
\* be loaded again.
IsEntry(e) == IsChart(e) /\ "input" \in DOMAIN e /\ e.id \in Ids
IsForm(s) == IsSpec(s) /\ "input" \in DOMAIN s /\ s.id \in Ids /\ ValuesAreNamed(s.options)
IsGood(s) == IsForm(s) /\ (s.type = "heatmap" => HeatmapRange(s.options))

AreEntries(es) == IsSeq(es) /\ \A i \in DOMAIN es : IsEntry(es[i])
AreGood(cs) == IsSeq(cs) /\ \A i \in DOMAIN cs : IsGood(cs[i])
AllParse(es) == \A i \in DOMAIN es : Parses(es[i])

\* Nothing but a column without a name keeps an entry from being read.
NamedParse(es) == \A i \in DOMAIN es : Parses(es[i]) \/ ~ColumnsAreNamed(es[i].options)

IsWhole(whole) == whole = <<"missing">> \/ \E es : whole = <<"charts", es>> /\ AreEntries(es)

\* charts.json is the last one that was written whole, or torn; what a save has
\* written can be loaded.
FileFits ==
    /\ config = lastWhole \/ config = <<"torn">>
    /\ IsWhole(lastWhole)
    /\ lastWhole # before => \A es : lastWhole = <<"charts", es>> => NamedParse(es)

Stages(op) ==
    CASE op = "none" -> {"idle"}
      [] op = "save" -> {"spec", "validate", "open", "write", "draw", "drawing"}
      [] op = "preview" -> {"spec", "validate", "cleanup"}
      [] OTHER -> {"draw", "drawing"}

\* What a request holds at each of its stages.
RequestFits(r) ==
    /\ {"op", "pc", "form", "base", "todo", "tried"} \subseteq DOMAIN r
    /\ r.op \in {"none", "save", "generate", "onSave", "run", "preview"} /\ r.pc \in Stages(r.op)
    /\ r.pc = "spec" => r.form \in Forms
    /\ r.pc = "validate" => IsForm(r.form)
    /\ r.pc \in {"open", "write"} => IsGood(r.form)
    /\ r.op = "save" => AreGood(r.base)
    /\ AreGood(r.todo) /\ (r.pc = "drawing" => r.todo # <<>>)
    /\ r.op = "onSave" => \A i \in DOMAIN r.todo : r.todo[i].output # CsvFile
    /\ r.op = "run" => \A i \in DOMAIN r.base : r.base[i] \in r.tried \union {r.todo[j] : j \in DOMAIN r.todo}

RequestsFit == req = [p \in Proc |-> req[p]] /\ \A p \in Proc : RequestFits(req[p])

\* Directories of previews, outputs, and counters.
PlacesFit ==
    /\ kills = 0 => \A p \in Proc : p \in temps => req[p].pc = "cleanup"
    /\ files \in [Paths -> {"csv", "none", "empty"} \union Ids]
    /\ made \in 0..MaxRequests /\ kills \in 0..MaxKills /\ overlapped \in BOOLEAN

\* Before it has written, a save that is alone holds what the file has.
Holds(r) ==
    /\ r.op = "save" /\ r.pc \in {"spec", "validate", "open", "write"} => r.base = ChartsIn(lastWhole)
    /\ r.op = "save" /\ r.pc \in {"validate", "open", "write"} =>
         \E form \in Forms : r.form = SpecForBody(form, ChartsIn(lastWhole))

SaveIsAlone ==
    ~overlapped => /\ \A p, q \in Proc : req[p].op = "save" /\ req[q].op = "save" => p = q
                   /\ \A p \in Proc : Holds(req[p])

StoreInv == FileFits /\ RequestsFit /\ PlacesFit /\ SaveIsAlone

----------------------------------------------------------------------------
(* What is loaded, drawn and written.                                      *)

\* A sequence of nothing.
LEMMA EmptyFits == AreGood(<<>>) /\ DOMAIN <<>> = {}
BY DEF AreGood, IsSeq

\* A request that waits for nothing.
LEMMA IdleFits == RequestFits(Idle)
BY EmptyFits DEF RequestFits, Idle, Stages

\* An entry that parses is read into a spec that can be loaded.
LEMMA ParsedIsGood ==
    ASSUME NEW e, IsEntry(e), Parses(e)
    PROVE IsGood(SpecOf(e))
<1>1. IsChart(e) /\ e.type \in ChartTypes /\ "input" \in DOMAIN e /\ e.id \in Ids
      /\ (e.type = "heatmap" => HeatmapRange(Filled(e.type, e.options)))
  BY DEF IsEntry, Parses
<1>2. IsSpec(SpecOf(e)) /\ SameButOptions(e, SpecOf(e)) /\ SpecOf(e).options = Filled(e.type, e.options)
  BY <1>1, SpecOfFits
<1>3. SpecOf(e).id = e.id /\ SpecOf(e).type = e.type  BY <1>1, <1>2, SameFields
<1>4. DOMAIN SpecOf(e) = DOMAIN e  BY <1>2 DEF SameButOptions
<1>5. ValuesAreNamed(SpecOf(e).options)
  <2>1. CASE "values" \in DOMAIN e.options
    BY <1>2, <2>1 DEF Filled, Parses, ValuesAreNamed
  <2>2. CASE "values" \notin DOMAIN e.options
    <3>1. "values" \in OptionKeys(e.type) => SpecOf(e).options.values = <<>>
      BY <1>2, <2>2 DEF Filled, Default, Empty, ListKeys
    <3>2. DOMAIN <<>> = {}  OBVIOUS
    <3> QED  BY <1>2, <3>1, <3>2 DEF Filled, ValuesAreNamed
  <2> QED  BY <2>1, <2>2
<1> QED  BY <1>1, <1>2, <1>3, <1>4, <1>5 DEF IsGood, IsForm

\* The specs of entries that parse.
LEMMA ReadFits ==
    ASSUME NEW es, AreEntries(es), AllParse(es)
    PROVE AreGood([i \in DOMAIN es |-> SpecOf(es[i])])
<1> DEFINE f == [i \in DOMAIN es |-> SpecOf(es[i])]
<1>1. Len(es) \in Nat /\ DOMAIN es = 1..Len(es)  BY SeqIsFunction DEF AreEntries
<1>2. f = [i \in 1..Len(es) |-> f[i]]  BY <1>1
<1>3. \A i \in DOMAIN es : f[i] = SpecOf(es[i]) /\ IsGood(f[i])
  BY ParsedIsGood DEF AreEntries, AllParse
<1> HIDE DEF f
<1>4. IsSeq(f) /\ DOMAIN f = 1..Len(es)  BY <1>1, <1>2, FunctionIsSeq
<1> QED  BY <1>1, <1>3, <1>4 DEF AreGood, f

\* What the file is when it loads.
LEMMA LoadedFits ==
    ASSUME FileFits, Loads
    PROVE AreGood(Loaded) /\ config = lastWhole /\ Loaded = ChartsIn(lastWhole)
<1>1. config = lastWhole  BY DEF FileFits, Loads
<1>2. CASE lastWhole = <<"missing">>
  <2>1. Entries = <<>>  BY <1>1, <1>2 DEF Entries
  <2>2. Loaded = <<>>  BY <2>1 DEF Loaded
  <2>3. ChartsIn(lastWhole) = <<>>  BY <1>2 DEF ChartsIn
  <2> QED  BY <1>1, <2>2, <2>3, EmptyFits
<1>3. ASSUME NEW es, lastWhole = <<"charts", es>>, AreEntries(es)
      PROVE AreGood(Loaded) /\ Loaded = ChartsIn(lastWhole)
  <2>1. Entries = es  BY <1>1, <1>3 DEF Entries
  <2>2. AllParse(es)  BY <2>1 DEF Loads, AllParse
  <2>3. Loaded = [i \in DOMAIN es |-> SpecOf(es[i])]  BY <2>1 DEF Loaded
  <2>4. ChartsIn(lastWhole) = [i \in DOMAIN es |-> SpecOf(es[i])]  BY <1>3 DEF ChartsIn
  <2>5. AreGood([i \in DOMAIN es |-> SpecOf(es[i])])  BY <1>3, <2>2, ReadFits
  <2> QED  BY <2>3, <2>4, <2>5
<1> QED  BY <1>1, <1>2, <1>3 DEF FileFits, IsWhole

\* What is kept of good charts is good.
LEMMA KeptIsGood ==
    ASSUME NEW cs, AreGood(cs), NEW at, at \subseteq DOMAIN cs
    PROVE /\ AreGood(Kept(cs, at))
          /\ \A k \in DOMAIN Kept(cs, at) : \E i \in at : Kept(cs, at)[k] = cs[i]
<1>1. KeepsOf(Kept(cs, at), cs, at)  BY KeptFits DEF AreGood
<1> QED  BY <1>1 DEF KeepsOf, AreGood

\* The charts drawn after a save of the CSV leave the CSV alone.
LEMMA DrawnOnSaveFits ==
    ASSUME FileFits, Loads
    PROVE AreGood(DrawnOnSave) /\ \A i \in DOMAIN DrawnOnSave : DrawnOnSave[i].output # CsvFile
<1> DEFINE at == {i \in DOMAIN Loaded : /\ Loaded[i].runOnSave /\ OfThisCsv(Loaded[i])
                                        /\ Loaded[i].output # CsvFile}
<1>1. AreGood(Loaded)  BY LoadedFits
<1>2. at \subseteq DOMAIN Loaded /\ \A i \in at : Loaded[i].output # CsvFile  OBVIOUS
<1>3. DrawnOnSave = Kept(Loaded, at)  BY DEF DrawnOnSave
<1> HIDE DEF at
<1>4. AreGood(Kept(Loaded, at)) /\ \A k \in DOMAIN Kept(Loaded, at) : \E i \in at : Kept(Loaded, at)[k] = Loaded[i]
  BY <1>1, <1>2, KeptIsGood
<1> QED  BY <1>2, <1>3, <1>4

\* The charts that `charts run` draws.
LEMMA ValidChartsFit ==
    ASSUME FileFits, config[1] = "charts", NEW id
    PROVE AreGood(ValidCharts(id))
<1>1. PICK es : config = <<"charts", es>> /\ AreEntries(es)
  BY DEF FileFits, IsWhole
<1>2. Entries = es  BY <1>1 DEF Entries
<1> DEFINE at == {i \in DOMAIN es : Parses(es[i]) /\ id \in {"", es[i].id}}
           valid == Kept(es, at)
<1>3. at \subseteq DOMAIN es /\ \A i \in at : Parses(es[i])  OBVIOUS
<1>4. ValidCharts(id) = [i \in DOMAIN valid |-> SpecOf(valid[i])]  BY <1>2 DEF ValidCharts
<1> HIDE DEF at
<1>5. KeepsOf(valid, es, at)  BY <1>1, <1>3, KeptFits DEF AreEntries
<1> HIDE DEF valid
<1>6. AreEntries(valid) /\ AllParse(valid)
  BY <1>1, <1>3, <1>5 DEF KeepsOf, AreEntries, AllParse
<1> QED  BY <1>4, <1>6, ReadFits

\* What a save writes: entries that parse, but for columns without a name.
LEMMA WrittenFits ==
    ASSUME NEW cs, AreGood(cs), NEW spec, IsGood(spec)
    PROVE LET new == Updated(cs, spec)
              es == [i \in DOMAIN new |-> Entry(new[i])]
          IN AreEntries(es) /\ NamedParse(es)
<1> DEFINE new == Updated(cs, spec)
           es == [i \in DOMAIN new |-> Entry(new[i])]
<1>1. IsUpdated(new, cs, spec)  BY UpdatedFits DEF AreGood
<1> HIDE DEF new
<1>2. Len(new) \in Nat /\ DOMAIN new = 1..Len(new)  BY <1>1, SeqIsFunction DEF IsUpdated
<1>3. \A i \in DOMAIN new : IsGood(new[i])  BY <1>1 DEF IsUpdated, AreGood
<1>4. es = [i \in 1..Len(new) |-> es[i]] /\ \A i \in DOMAIN new : es[i] = Entry(new[i])  BY <1>2
<1> HIDE DEF es
<1>5. IsSeq(es) /\ DOMAIN es = 1..Len(new)  BY <1>2, <1>4, FunctionIsSeq
<1>6. ASSUME NEW s, IsGood(s) PROVE IsEntry(Entry(s)) /\ (Parses(Entry(s)) \/ ~ColumnsAreNamed(Entry(s).options))
  <2>1. EntryOf(s, SpecOf(Entry(s)))  BY <1>6, EntryKeeps DEF IsGood, IsForm
  <2>2. IsEntry(Entry(s))  BY <1>6, <2>1 DEF EntryOf, IsEntry, IsGood, IsForm
  <2>3. s.type = "heatmap" => HeatmapRange(Filled(s.type, Entry(s).options))
    <3>1. SpecOf(Entry(s)).options = Filled(Entry(s).type, Entry(s).options)
      BY <1>6, <2>1, SpecOfFits DEF EntryOf, IsGood, IsForm, IsSpec
    <3> QED  BY <1>6, <2>1, <3>1 DEF EntryOf, IsGood
  <2>4. ValuesAreNamed(Entry(s).options)
    BY <1>6, <2>1 DEF EntryOf, ValuesAreNamed, IsGood, IsForm, IsSpec
  <2> QED  BY <1>6, <2>1, <2>2, <2>3, <2>4 DEF Parses, EntryOf, IsGood, IsForm, IsSpec
<1> QED  BY <1>2, <1>3, <1>4, <1>5, <1>6 DEF AreEntries, NamedParse, es, new

----------------------------------------------------------------------------
(* Every step of ChartStore keeps the invariant.                           *)

\* A request that goes on leaves the others as they are.
LEMMA StepFits ==
    ASSUME RequestsFit, NEW p \in Proc, NEW r, RequestFits(r), Step(p, r)
    PROVE RequestsFit' /\ \A q \in Proc : req'[q] = IF q = p THEN r ELSE req[q]
<1>1. req' = [req EXCEPT ![p] = r]  BY DEF Step
<1>2. \A q \in Proc : req'[q] = IF q = p THEN r ELSE req[q]  BY <1>1 DEF RequestsFit
<1>3. req' = [q \in Proc |-> req'[q]]  BY <1>1 DEF RequestsFit
<1>4. \A q \in Proc : RequestFits(req'[q])  BY <1>2 DEF RequestsFit
<1> QED  BY <1>2, <1>3, <1>4 DEF RequestsFit, RequestFits

\* A save that is alone stays so while nobody else saves.
LEMMA AloneKept ==
    ASSUME RequestsFit, SaveIsAlone, NEW p \in Proc, NEW r, RequestFits(r), Step(p, r),
           lastWhole' = lastWhole, overlapped' = overlapped,
           r.op # "save" \/ (req[p].op = "save" /\ (~overlapped => Holds(r)))
    PROVE SaveIsAlone'
<1>1. \A q \in Proc : req'[q] = IF q = p THEN r ELSE req[q]  BY StepFits
<1> SUFFICES ASSUME ~overlapped PROVE SaveIsAlone'  BY DEF SaveIsAlone
<1>2. \A q, s \in Proc : req'[q].op = "save" /\ req'[s].op = "save" => q = s
  BY <1>1 DEF SaveIsAlone
<1>3. \A q \in Proc : Holds(req'[q])
  <2>1. r.op # "save" => Holds(r)  BY DEF Holds
  <2> QED  BY <1>1, <2>1 DEF SaveIsAlone
<1>4. \A q \in Proc : Holds(req[q])'  BY <1>3 DEF Holds, ChartsIn
<1> QED  BY <1>2, <1>4 DEF SaveIsAlone

\* The places stay right when the request does not forget a directory.
LEMMA PlacesKept ==
    ASSUME RequestsFit, PlacesFit, NEW p \in Proc, NEW r, RequestFits(r), Step(p, r),
           UNCHANGED <<temps, kills>>, made' \in 0..MaxRequests, overlapped' \in BOOLEAN,
           files' \in [Paths -> {"csv", "none", "empty"} \union Ids], req[p].pc # "cleanup"
    PROVE PlacesFit'
<1>1. \A q \in Proc : req'[q] = IF q = p THEN r ELSE req[q]  BY StepFits
<1>2. kills' = 0 => \A q \in Proc : q \in temps' => req'[q].pc = "cleanup"
  BY <1>1 DEF PlacesFit
<1>3. kills' \in 0..MaxKills  BY DEF PlacesFit
<1> QED  BY <1>2, <1>3 DEF PlacesFit

\* What a step that leaves the file, the outputs and the counters alone has to show.
Quiet(p, r) ==
    /\ RequestFits(r) /\ Step(p, r)
    /\ r.op # "save" \/ (req[p].op = "save" /\ (~overlapped => Holds(r)))
    /\ UNCHANGED <<lastWhole, before, overlapped, kills>>

\* Such a step keeps the invariant, if the file and the outputs stay right.
LEMMA QuietFits ==
    ASSUME StoreInv, NEW p \in Proc, NEW r, Quiet(p, r), FileFits', UNCHANGED temps,
           made' \in 0..MaxRequests, files' \in [Paths -> {"csv", "none", "empty"} \union Ids],
           req[p].pc # "cleanup"
    PROVE StoreInv'
<1>1. RequestsFit'  BY StepFits DEF Quiet, StoreInv
<1>2. SaveIsAlone'  BY AloneKept DEF Quiet, StoreInv
<1>3. PlacesFit'  BY PlacesKept DEF Quiet, StoreInv, PlacesFit
<1> QED  BY <1>1, <1>2, <1>3 DEF StoreInv

\* The file stays right when nobody writes it.
LEMMA FileKept ==
    ASSUME FileFits, UNCHANGED <<lastWhole, before>>, config' = config \/ config' = <<"torn">>
    PROVE FileFits'
BY DEF FileFits, IsWhole, AreEntries, IsEntry, NamedParse

\* A request that starts was idle.
LEMMA StartsFit ==
    ASSUME StoreInv, NEW p \in Proc, NEW r, Starts(p, r)
    PROVE req[p].pc = "idle" /\ req[p].op = "none" /\ made' \in 0..MaxRequests /\ Step(p, r)
BY StoreAssumption DEF Starts, StoreInv, PlacesFit, Idle

\* The first of the invariants of the store: how it starts.
LEMMA StoreStarts ==
    ASSUME Init PROVE StoreInv
<1>1. RequestsFit  BY IdleFits DEF Init, RequestsFit
<1>2. PlacesFit
  <2>1. files \in [Paths -> {"csv", "none", "empty"} \union Ids]  BY DEF Init
  <2>2. made \in 0..MaxRequests /\ kills \in 0..MaxKills  BY StoreAssumption DEF Init
  <2> QED  BY <2>1, <2>2 DEF Init, PlacesFit
<1>3. SaveIsAlone  BY DEF Init, SaveIsAlone, Holds, Idle
<1>4. FileFits
  <2>1. IsWhole(config)
    <3>1. CASE config = <<"missing">>  BY <3>1 DEF IsWhole
    <3>2. ASSUME NEW c \in Configs, config = <<"charts", c>> PROVE IsWhole(config)
      <4>2. \A i \in DOMAIN c : c[i].id \in Ids  BY DEF Ids
      <4>1. AreEntries(c)
        BY <4>2, StoreAssumption DEF EntriesAreRead, AreEntries, IsSeq, IsEntry
      <4> QED  BY <3>2, <4>1 DEF IsWhole
    <3> QED  BY <3>1, <3>2 DEF Init
  <2> QED  BY <2>1 DEF Init, FileFits
<1> QED  BY <1>1, <1>2, <1>3, <1>4 DEF StoreInv

\* A form that is posted.
LEMMA PostedFits ==
    ASSUME NEW form \in Forms, NEW cs
    PROVE /\ IsForm(SpecForBody(form, cs)) /\ IsOfBody(SpecForBody(form, cs), Body(form), cs)
          /\ SpecForBody(form, cs).id = SanitizeChartId(form.id) /\ SpecForBody(form, cs).type = form.type
          /\ Body(form).type = form.type /\ Body(form).options = form.options
          /\ SpecForBody(form, cs).id = Body(form).id
<1> DEFINE spec == SpecForBody(form, cs)
<1>1. IsChart(form) /\ form.type \in ChartTypes /\ "input" \in DOMAIN form /\ ValuesAreNamed(form.options)
  BY StoreAssumption DEF FormsArePosted
<1>2. /\ IsOfBody(spec, Body(form), cs) /\ IsChart(Body(form))
      /\ DOMAIN Body(form) = DOMAIN form /\ Body(form).id = SanitizeChartId(form.id)
      /\ Body(form).type = form.type /\ Body(form).options = form.options
  BY <1>1, BodyFits DEF IsChart
<1> HIDE DEF spec
<1>3. spec.id = Body(form).id /\ spec.type = form.type
  BY <1>2, SameFields DEF IsOfBody
<1>4. "input" \in DOMAIN spec  BY <1>1, <1>2 DEF IsOfBody, SameButOptions
<1>5. ValuesAreNamed(spec.options)
  <2>1. DOMAIN spec.options = OptionKeys(form.type)  BY <1>2, <1>3 DEF IsOfBody, IsSpec
  <2>2. "values" \in OptionKeys(form.type) =>
          spec.options.values = Filled(form.type, form.options)["values"]
    BY <1>2 DEF IsOfBody
  <2>3. CASE "values" \in DOMAIN form.options
    BY <1>1, <2>1, <2>2, <2>3 DEF Filled, ValuesAreNamed
  <2>4. CASE "values" \notin DOMAIN form.options
    <3>1. "values" \in OptionKeys(form.type) => spec.options.values = <<>>
      BY <2>2, <2>4 DEF Filled, Default, Empty, ListKeys
    <3>2. DOMAIN <<>> = {}  OBVIOUS
    <3> QED  BY <2>1, <3>1, <3>2 DEF ValuesAreNamed
  <2> QED  BY <2>3, <2>4
<1> QED  BY <1>1, <1>2, <1>3, <1>4, <1>5 DEF IsForm, IsOfBody, Ids, spec

\* A request that has just begun.
Has(r, op, pc, form, base, todo) ==
    /\ {"op", "pc", "form", "base", "todo", "tried"} \subseteq DOMAIN r
    /\ r.op = op /\ r.pc = pc /\ r.form = form /\ r.base = base /\ r.todo = todo /\ r.tried = {}

\* A save that starts.
LEMMA StartSaveFits ==
    ASSUME StoreInv, NEW p \in Proc, StartSave(p) PROVE StoreInv'
<1>1. PICK form \in Forms :
        /\ Starts(p, IF Loads THEN [Idle EXCEPT !.op = "save", !.pc = "spec", !.form = form, !.base = Loaded]
                     ELSE Idle)
        /\ overlapped' = (overlapped \/ \E q \in Proc : req[q].op = "save")
        /\ UNCHANGED <<config, files, temps, kills, lastWhole, before>>
  BY DEF StartSave
<1> DEFINE begun == [Idle EXCEPT !.op = "save", !.pc = "spec", !.form = form, !.base = Loaded]
           r == IF Loads THEN begun ELSE Idle
<1>2. Starts(p, r)  BY <1>1
<1>3. Loads => /\ Has(begun, "save", "spec", form, Loaded, <<>>)
               /\ AreGood(Loaded) /\ Loaded = ChartsIn(lastWhole)
  BY LoadedFits DEF Idle, StoreInv, Has
<1> HIDE DEF begun
<1>4. RequestFits(r)
  <2>1. Loads => RequestFits(begun)  BY <1>3, EmptyFits DEF RequestFits, Stages, Has
  <2> QED  BY <2>1, IdleFits
<1>5. Holds(r) /\ (r.op = "save" => r.pc = "spec")
  BY <1>3 DEF Holds, Idle, Has
<1> HIDE DEF r
<1>6. req[p].pc = "idle" /\ req[p].op = "none" /\ made' \in 0..MaxRequests /\ Step(p, r)
  BY <1>2, StartsFit
<1>7. RequestsFit' /\ \A q \in Proc : req'[q] = IF q = p THEN r ELSE req[q]
  BY <1>4, <1>6, StepFits DEF StoreInv
<1>8. FileFits'  BY <1>1, FileKept DEF StoreInv
<1>9. PlacesFit'
  <2>1. overlapped' \in BOOLEAN  BY <1>1 DEF StoreInv, PlacesFit
  <2> QED  BY <1>1, <1>4, <1>6, <2>1, PlacesKept DEF StoreInv, PlacesFit
<1>10. SaveIsAlone'
  <2> SUFFICES ASSUME ~overlapped' PROVE SaveIsAlone'  BY DEF SaveIsAlone
  <2>1. ~overlapped /\ \A q \in Proc : req[q].op # "save"  BY <1>1
  <2>2. \A q, s \in Proc : req'[q].op = "save" /\ req'[s].op = "save" => q = s  BY <1>7, <2>1
  <2>3. \A q \in Proc : Holds(req'[q])  BY <1>5, <1>7, <2>1 DEF Holds
  <2>4. \A q \in Proc : Holds(req[q])'  BY <1>1, <2>3 DEF Holds, ChartsIn
  <2> QED  BY <2>2, <2>4 DEF SaveIsAlone
<1> QED  BY <1>7, <1>8, <1>9, <1>10 DEF StoreInv

\* The requests that start and do not save.
LEMMA OtherStartFits ==
    ASSUME StoreInv, NEW p \in Proc, NEW r, RequestFits(r), r.op # "save", Starts(p, r),
           UNCHANGED <<config, temps, kills, lastWhole, before, overlapped>>,
           files' \in [Paths -> {"csv", "none", "empty"} \union Ids]
    PROVE StoreInv'
<1>1. req[p].pc = "idle" /\ made' \in 0..MaxRequests /\ Step(p, r)  BY StartsFit
<1>2. Quiet(p, r)  BY <1>1 DEF Quiet
<1>3. FileFits'  BY FileKept DEF StoreInv
<1> QED  BY <1>1, <1>2, <1>3, QuietFits

\* A request to draw.
LEMMA DrawingStartFits ==
    ASSUME NEW op \in {"generate", "onSave", "run"}, NEW todo, AreGood(todo), NEW base,
           op = "onSave" => \A i \in DOMAIN todo : todo[i].output # CsvFile,
           op = "run" => base = todo, NEW r, Has(r, op, "draw", <<>>, base, todo)
    PROVE RequestFits(r) /\ r.op # "save"
BY DEF RequestFits, Stages, Has

\* One chart to draw.
LEMMA OneIsGood ==
    ASSUME NEW s, IsGood(s)
    PROVE AreGood(<<s>>) /\ DOMAIN <<s>> = {1} /\ <<s>>[1] = s /\ <<s>> # <<>>
BY DEF AreGood, IsSeq

\* A chart is generated, those of a saved CSV are drawn, or all of them, or one
\* is previewed.
LEMMA DrawStartsFit ==
    ASSUME StoreInv, NEW p \in Proc,
           StartGenerate(p) \/ StartRunOnSave(p) \/ StartRun(p) \/ StartPreview(p)
    PROVE StoreInv'
<1>0. FileFits /\ files \in [Paths -> {"csv", "none", "empty"} \union Ids]  BY DEF StoreInv, PlacesFit
<1>1. CASE StartGenerate(p)
  <2>1. PICK i \in DOMAIN Loaded :
          /\ Loads
          /\ Starts(p, IF Loaded[i].output = "" THEN Idle
                       ELSE [Idle EXCEPT !.op = "generate", !.pc = "draw", !.todo = <<Loaded[i]>>])
    BY <1>1 DEF StartGenerate
  <2> DEFINE begun == [Idle EXCEPT !.op = "generate", !.pc = "draw", !.todo = <<Loaded[i]>>]
             r == IF Loaded[i].output = "" THEN Idle ELSE begun
  <2>2. Has(begun, "generate", "draw", <<>>, <<>>, <<Loaded[i]>>)
    BY DEF Idle, Has
  <2>3. AreGood(<<Loaded[i]>>)
    <3>1. IsGood(Loaded[i])  BY <1>0, <2>1, LoadedFits DEF AreGood
    <3> QED  BY <3>1, OneIsGood
  <2> HIDE DEF begun
  <2>4. RequestFits(begun) /\ begun.op # "save"  BY <2>2, <2>3, DrawingStartFits
  <2>5. RequestFits(r) /\ r.op # "save" /\ Starts(p, r)
    BY <2>1, <2>4, IdleFits DEF Idle, begun
  <2> HIDE DEF r
  <2> QED  BY <1>0, <1>1, <2>5, OtherStartFits DEF StartGenerate
<1>2. CASE StartRunOnSave(p)
  <2> DEFINE begun == [Idle EXCEPT !.op = "onSave", !.pc = "draw", !.todo = DrawnOnSave]
             r == IF Loads THEN begun ELSE Idle
  <2>1. Starts(p, r)  BY <1>2 DEF StartRunOnSave
  <2>2. Has(begun, "onSave", "draw", <<>>, <<>>, DrawnOnSave)
    BY DEF Idle, Has
  <2> HIDE DEF begun
  <2>3. Loads => RequestFits(begun) /\ begun.op # "save"
    <3> SUFFICES ASSUME Loads PROVE RequestFits(begun) /\ begun.op # "save"  OBVIOUS
    <3>1. AreGood(DrawnOnSave) /\ \A i \in DOMAIN DrawnOnSave : DrawnOnSave[i].output # CsvFile
      BY <1>0, DrawnOnSaveFits
    <3> QED  BY <2>2, <3>1, DrawingStartFits
  <2>4. RequestFits(r) /\ r.op # "save"  BY <2>3, IdleFits DEF Idle
  <2>5. files' \in [Paths -> {"csv", "none", "empty"} \union Ids]
    BY <1>0, <1>2 DEF StartRunOnSave
  <2> HIDE DEF r
  <2> QED  BY <1>2, <2>1, <2>4, <2>5, OtherStartFits DEF StartRunOnSave
<1>3. CASE StartRun(p)
  <2>1. PICK id : Starts(p, [Idle EXCEPT !.op = "run", !.pc = "draw", !.todo = ValidCharts(id),
                                         !.base = ValidCharts(id)])
    BY <1>3 DEF StartRun
  <2> DEFINE begun == [Idle EXCEPT !.op = "run", !.pc = "draw", !.todo = ValidCharts(id), !.base = ValidCharts(id)]
  <2>2. Has(begun, "run", "draw", <<>>, ValidCharts(id), ValidCharts(id))
    BY DEF Idle, Has
  <2>3. Starts(p, begun)  BY <2>1
  <2> HIDE DEF begun
  <2>4. AreGood(ValidCharts(id))  BY <1>0, <1>3, ValidChartsFit DEF StartRun
  <2>5. RequestFits(begun) /\ begun.op # "save"  BY <2>2, <2>4, DrawingStartFits
  <2> QED  BY <1>0, <1>3, <2>3, <2>5, OtherStartFits DEF StartRun
<1>4. CASE StartPreview(p)
  <2>1. PICK form \in Forms : /\ Starts(p, [Idle EXCEPT !.op = "preview", !.pc = "spec", !.form = form])
                              /\ UNCHANGED <<config, files, temps, kills, lastWhole, before, overlapped>>
    BY <1>4 DEF StartPreview
  <2> DEFINE begun == [Idle EXCEPT !.op = "preview", !.pc = "spec", !.form = form]
  <2>2. Has(begun, "preview", "spec", form, <<>>, <<>>)
    BY DEF Idle, Has
  <2>3. Starts(p, begun)  BY <2>1
  <2> HIDE DEF begun
  <2>5. RequestFits(begun) /\ begun.op # "save"
    BY <2>2, EmptyFits DEF RequestFits, Stages, Has
  <2> QED  BY <1>0, <2>1, <2>3, <2>5, OtherStartFits
<1> QED  BY <1>1, <1>2, <1>3, <1>4

\* A step that leaves the file and the places alone.
LEMMA InnerFits ==
    ASSUME StoreInv, NEW p \in Proc, NEW r, RequestFits(r), Step(p, r), req[p].pc # "cleanup",
           r.op # "save" \/ (req[p].op = "save" /\ (~overlapped => Holds(r))),
           UNCHANGED <<config, temps, made, kills, lastWhole, before, overlapped>>,
           files' \in [Paths -> {"csv", "none", "empty"} \union Ids]
    PROVE StoreInv'
<1>1. Quiet(p, r)  BY DEF Quiet
<1>2. FileFits'  BY FileKept DEF StoreInv
<1>3. made' \in 0..MaxRequests  BY DEF StoreInv, PlacesFit
<1> QED  BY <1>1, <1>2, <1>3, QuietFits

\* A request that ends, or is refused.
LEMMA EndFits ==
    ASSUME StoreInv, NEW p \in Proc, Ends(p), req[p].pc # "cleanup",
           UNCHANGED <<config, files, temps, made, kills, lastWhole, before, overlapped>>
    PROVE StoreInv'
<1>1. files' \in [Paths -> {"csv", "none", "empty"} \union Ids]  BY DEF StoreInv, PlacesFit
<1>2. Step(p, Idle) /\ Idle.op # "save"  BY DEF Ends, Idle
<1> QED  BY <1>1, <1>2, IdleFits, InnerFits

\* The spec is made, and then validated.
LEMMA BuildFits ==
    ASSUME StoreInv, NEW p \in Proc, BuildSpec(p) \/ Validate(p) PROVE StoreInv'
<1>0. RequestFits(req[p]) /\ files' \in [Paths -> {"csv", "none", "empty"} \union Ids]
      /\ (~overlapped => Holds(req[p]))
  BY DEF StoreInv, RequestsFit, PlacesFit, SaveIsAlone, BuildSpec, Validate
<1>1. CASE BuildSpec(p)
  <2> DEFINE r == [req[p] EXCEPT !.form = SpecForBody(req[p].form, Loaded), !.pc = "validate"]
  <2>1. CASE ~Loads
    <3>1. Ends(p) /\ req[p].pc # "cleanup"  BY <1>1, <2>1 DEF BuildSpec
    <3> QED  BY <1>1, <3>1, EndFits DEF BuildSpec
  <2>2. CASE Loads
    <3>1. Step(p, r) /\ req[p].op \in {"save", "preview"} /\ req[p].pc = "spec"  BY <1>1, <2>2 DEF BuildSpec
    <3>2. /\ {"op", "pc", "form", "base", "todo", "tried"} \subseteq DOMAIN r
          /\ r.op = req[p].op /\ r.pc = "validate" /\ r.form = SpecForBody(req[p].form, Loaded)
          /\ r.base = req[p].base /\ r.todo = req[p].todo /\ r.tried = req[p].tried
      BY <1>0 DEF RequestFits
    <3> HIDE DEF r
    <3>3. req[p].form \in Forms /\ IsForm(r.form)  BY <1>0, <3>1, <3>2, PostedFits DEF RequestFits
    <3>4. RequestFits(r)  BY <1>0, <3>1, <3>2, <3>3 DEF RequestFits, Stages
    <3>5. Loaded = ChartsIn(lastWhole)  BY <2>2, LoadedFits DEF StoreInv
    <3>6. ~overlapped => Holds(r)  BY <1>0, <3>1, <3>2, <3>3, <3>5 DEF Holds
    <3> QED  BY <1>0, <1>1, <3>1, <3>2, <3>4, <3>6, InnerFits DEF BuildSpec
  <2> QED  BY <2>1, <2>2
<1>2. CASE Validate(p)
  <2>1. PICK ok \in Validates(req[p].form) : IF ok THEN Step(p, [req[p] EXCEPT !.pc = "open"]) ELSE Ends(p)
    BY <1>2 DEF Validate
  <2>2. req[p].op = "save" /\ req[p].pc = "validate"  BY <1>2 DEF Validate
  <2> DEFINE r == [req[p] EXCEPT !.pc = "open"]
  <2>3. CASE ~ok
    <3>1. Ends(p)  BY <2>1, <2>3
    <3> QED  BY <1>2, <2>2, <3>1, EndFits DEF Validate
  <2>4. CASE ok
    <3>1. Step(p, r) /\ FieldsAreValid(req[p].form)  BY <2>1, <2>4 DEF Validates
    <3>2. /\ {"op", "pc", "form", "base", "todo", "tried"} \subseteq DOMAIN r
          /\ r.op = req[p].op /\ r.pc = "open" /\ r.form = req[p].form
          /\ r.base = req[p].base /\ r.todo = req[p].todo /\ r.tried = req[p].tried
      BY <1>0 DEF RequestFits
    <3> HIDE DEF r
    <3>3. IsGood(r.form)  BY <1>0, <2>2, <3>1, <3>2 DEF RequestFits, IsGood, FieldsAreValid
    <3>4. RequestFits(r)  BY <1>0, <2>2, <3>2, <3>3 DEF RequestFits, Stages
    <3>5. ~overlapped => Holds(r)  BY <1>0, <2>2, <3>2 DEF Holds
    <3> QED  BY <1>0, <1>2, <2>2, <3>1, <3>2, <3>4, <3>5, InnerFits DEF Validate
  <2> QED  BY <2>3, <2>4
<1> QED  BY <1>1, <1>2

\* charts.json is truncated ...
LEMMA OpenConfigFits ==
    ASSUME StoreInv, NEW p \in Proc, OpenConfig(p) PROVE StoreInv'
<1>0. RequestFits(req[p]) /\ (~overlapped => Holds(req[p])) /\ req[p].op = "save" /\ req[p].pc = "open"
      /\ files' \in [Paths -> {"csv", "none", "empty"} \union Ids]
  BY DEF StoreInv, RequestsFit, PlacesFit, SaveIsAlone, OpenConfig
<1> DEFINE r == [req[p] EXCEPT !.pc = "write"]
<1>1. CASE Ends(p) /\ UNCHANGED config  BY <1>0, <1>1, EndFits DEF OpenConfig
<1>2. CASE config' = <<"torn">> /\ Step(p, r)
  <2>1. /\ {"op", "pc", "form", "base", "todo", "tried"} \subseteq DOMAIN r
        /\ r.op = req[p].op /\ r.pc = "write" /\ r.form = req[p].form
        /\ r.base = req[p].base /\ r.todo = req[p].todo /\ r.tried = req[p].tried
    BY <1>0 DEF RequestFits
  <2> HIDE DEF r
  <2>2. RequestFits(r)  BY <1>0, <2>1 DEF RequestFits, Stages
  <2>3. ~overlapped => Holds(r)  BY <1>0, <2>1 DEF Holds
  <2>4. Quiet(p, r)  BY <1>0, <1>2, <2>1, <2>2, <2>3 DEF Quiet, OpenConfig
  <2>5. FileFits'  BY <1>2, FileKept DEF OpenConfig, StoreInv
  <2>6. made' \in 0..MaxRequests  BY DEF StoreInv, PlacesFit, OpenConfig
  <2>7. UNCHANGED temps /\ req[p].pc # "cleanup"  BY <1>0 DEF OpenConfig
  <2> QED  BY <1>0, <2>4, <2>5, <2>6, <2>7, QuietFits
<1> QED  BY <1>1, <1>2 DEF OpenConfig

\* ... and written.
LEMMA WriteConfigFits ==
    ASSUME StoreInv, NEW p \in Proc, WriteConfig(p) PROVE StoreInv'
<1>0. RequestFits(req[p]) /\ req[p].op = "save" /\ req[p].pc = "write"
      /\ files' \in [Paths -> {"csv", "none", "empty"} \union Ids]
  BY DEF StoreInv, RequestsFit, PlacesFit, WriteConfig
<1>1. CASE Ends(p) /\ config' = <<"torn">> /\ UNCHANGED <<lastWhole, before>>
  <2>1. Quiet(p, Idle)  BY <1>1, IdleFits DEF Quiet, Ends, WriteConfig, Idle
  <2>2. FileFits'  BY <1>1, FileKept DEF StoreInv
  <2>3. made' \in 0..MaxRequests /\ UNCHANGED temps  BY DEF StoreInv, PlacesFit, WriteConfig
  <2> QED  BY <1>0, <2>1, <2>2, <2>3, QuietFits
<1>2. CASE ~(Ends(p) /\ config' = <<"torn">> /\ UNCHANGED <<lastWhole, before>>)
  <2> DEFINE written == Updated(req[p].base, req[p].form)
             es == [i \in DOMAIN written |-> Entry(written[i])]
             r == [req[p] EXCEPT !.pc = "draw", !.todo = <<req[p].form>>]
  <2>1. lastWhole' = <<"charts", es>> /\ config' = lastWhole' /\ before' = lastWhole /\ Step(p, r)
    BY <1>2 DEF WriteConfig
  <2>2. AreEntries(es) /\ NamedParse(es)
    <3>1. AreGood(req[p].base) /\ IsGood(req[p].form)  BY <1>0 DEF RequestFits
    <3> QED  BY <3>1, WrittenFits
  <2>3. /\ {"op", "pc", "form", "base", "todo", "tried"} \subseteq DOMAIN r
        /\ r.op = req[p].op /\ r.pc = "draw" /\ r.form = req[p].form
        /\ r.base = req[p].base /\ r.todo = <<req[p].form>> /\ r.tried = req[p].tried
    BY <1>0 DEF RequestFits
  <2> HIDE DEF es, r
  <2>4. FileFits'  BY <2>1, <2>2 DEF FileFits, IsWhole, AreEntries, IsEntry, NamedParse
  <2>5. RequestFits(r)
    <3>1. AreGood(<<req[p].form>>)  BY <1>0, OneIsGood DEF RequestFits
    <3> QED  BY <1>0, <2>3, <3>1 DEF RequestFits, Stages
  <2>6. RequestsFit' /\ \A q \in Proc : req'[q] = IF q = p THEN r ELSE req[q]
    BY <2>1, <2>5, StepFits DEF StoreInv
  <2>7. SaveIsAlone'
    <3> SUFFICES ASSUME ~overlapped PROVE SaveIsAlone'  BY DEF SaveIsAlone, WriteConfig
    <3>1. \A q, s \in Proc : req[q].op = "save" /\ req[s].op = "save" => q = s
      BY DEF StoreInv, SaveIsAlone
    <3>2. \A q, s \in Proc : req'[q].op = "save" /\ req'[s].op = "save" => q = s
      BY <1>0, <2>3, <2>6, <3>1
    <3>3. \A q \in Proc : q # p => req'[q].op # "save"  BY <1>0, <2>6, <3>1
    <3>4. \A q \in Proc : Holds(req[q])'  BY <2>3, <2>6, <3>3 DEF Holds
    <3> QED  BY <3>2, <3>4 DEF SaveIsAlone
  <2>8. PlacesFit'
    <3>1. UNCHANGED <<temps, kills, overlapped, made, files>>  BY DEF WriteConfig
    <3>2. made' \in 0..MaxRequests /\ overlapped' \in BOOLEAN  BY <3>1 DEF StoreInv, PlacesFit
    <3> QED  BY <1>0, <2>1, <2>5, <3>1, <3>2, PlacesKept DEF StoreInv
  <2> QED  BY <2>4, <2>6, <2>7, <2>8 DEF StoreInv
<1> QED  BY <1>1, <1>2

\* A preview makes a directory, and removes it.
LEMMA PreviewStepFits ==
    ASSUME StoreInv, NEW p \in Proc, Preview(p) \/ EndPreview(p) PROVE StoreInv'
<1>0. RequestFits(req[p])  BY DEF StoreInv, RequestsFit
<1> DEFINE r == IF Preview(p) THEN [req[p] EXCEPT !.pc = "cleanup"] ELSE Idle
<1>1. Step(p, r) /\ (Preview(p) => req[p].op = "preview") /\ (~Preview(p) => EndPreview(p))
  BY DEF Preview, EndPreview, Ends
<1>2. RequestFits(r) /\ r.op # "save" /\ (Preview(p) => r.pc = "cleanup")
  <2>1. CASE Preview(p)
    <3>1. /\ {"op", "pc", "form", "base", "todo", "tried"} \subseteq DOMAIN r
          /\ r.op = req[p].op /\ r.pc = "cleanup" /\ r.form = req[p].form
          /\ r.base = req[p].base /\ r.todo = req[p].todo /\ r.tried = req[p].tried
      BY <1>0, <2>1 DEF RequestFits
    <3> HIDE DEF r
    <3> QED  BY <1>0, <1>1, <2>1, <3>1 DEF RequestFits, Stages
  <2>2. CASE ~Preview(p)
    BY <2>2, IdleFits DEF Idle
  <2> QED  BY <2>1, <2>2
<1> HIDE DEF r
<1>3. RequestsFit' /\ \A q \in Proc : req'[q] = IF q = p THEN r ELSE req[q]
  BY <1>1, <1>2, StepFits DEF StoreInv
<1>4. UNCHANGED <<config, files, made, kills, lastWhole, before, overlapped>>
  BY DEF Preview, EndPreview
<1>5. SaveIsAlone'  BY <1>1, <1>2, <1>4, AloneKept DEF StoreInv
<1>6. FileFits'  BY <1>4, FileKept DEF StoreInv
<1>7. PlacesFit'
  <2>1. temps' = IF Preview(p) THEN temps \union {p} ELSE temps \ {p}
    BY <1>1 DEF Preview, EndPreview
  <2>2. kills' = 0 => \A q \in Proc : q \in temps' => req'[q].pc = "cleanup"
    BY <1>2, <1>3, <1>4, <2>1 DEF StoreInv, PlacesFit
  <2> QED  BY <1>4, <2>2 DEF StoreInv, PlacesFit
<1> QED  BY <1>3, <1>5, <1>6, <1>7 DEF StoreInv

\* The rest of the charts to draw.
LEMMA TailIsGood ==
    ASSUME NEW cs, AreGood(cs), cs # <<>>
    PROVE /\ IsGood(Head(cs)) /\ Head(cs) = cs[1] /\ 1 \in DOMAIN cs /\ AreGood(Tail(cs))
          /\ \A i \in DOMAIN cs : i = 1 \/ \E j \in DOMAIN Tail(cs) : Tail(cs)[j] = cs[i]
          /\ \A j \in DOMAIN Tail(cs) : \E i \in DOMAIN cs : Tail(cs)[j] = cs[i]
          /\ (Len(cs) = 1 => DOMAIN cs = {1}) /\ (Len(cs) # 1 => Tail(cs) # <<>>)
<1> DEFINE S == {cs[i] : i \in DOMAIN cs}
           t == Tail(cs)
           n == Len(cs)
<1>1. cs \in Seq(S) /\ n \in Nat /\ DOMAIN cs = 1..n  BY SeqIsFunction DEF AreGood, IsSeq
<1> HIDE DEF S
<1>2. n > 0 /\ 1 \in DOMAIN cs /\ Head(cs) = cs[1]  BY <1>1
<1>3. t \in Seq(S) /\ Len(t) = n - 1 /\ DOMAIN t = 1..(n - 1) /\ \A j \in 1..(n - 1) : t[j] = cs[j + 1]
  BY <1>1, <1>2
<1> HIDE DEF t, n
<1>4. t = [j \in 1..(n - 1) |-> t[j]]  BY <1>3
<1>5. n - 1 \in Nat  BY <1>1, <1>2
<1>6. IsSeq(t)  BY <1>4, <1>5, FunctionIsSeq
<1>7. \A j \in 1..(n - 1) : j + 1 \in 1..n  BY <1>1
<1>8. \A i \in 1..n : i = 1 \/ (i - 1 \in 1..(n - 1) /\ t[i - 1] = cs[i])
  <2> SUFFICES ASSUME NEW i \in 1..n, i # 1 PROVE i - 1 \in 1..(n - 1) /\ t[i - 1] = cs[i]
    OBVIOUS
  <2>1. i - 1 \in 1..(n - 1) /\ (i - 1) + 1 = i  BY <1>1
  <2> QED  BY <1>3, <2>1
<1>9. AreGood(t)  BY <1>1, <1>3, <1>6, <1>7 DEF AreGood
<1>10. IsGood(Head(cs))  BY <1>2 DEF AreGood
<1>11. n # 1 => t # <<>>  BY <1>1, <1>2, <1>3
<1>12. n = 1 => DOMAIN cs = {1}  BY <1>1
<1> QED  BY <1>1, <1>2, <1>3, <1>7, <1>8, <1>9, <1>10, <1>11, <1>12 DEF t, n

\* What is left after a chart was drawn, or failed.
LEMMA AfterDrawingFits ==
    ASSUME NEW r, RequestFits(r), r.pc \in {"draw", "drawing"}, r.todo # <<>>, NEW ok
    PROVE /\ RequestFits(AfterDrawing(r, ok))
          /\ AfterDrawing(r, ok).op # "save" \/ (r.op = "save" /\ AfterDrawing(r, ok).pc = "draw")
<1> DEFINE t == [r EXCEPT !.pc = "draw", !.todo = Tail(r.todo), !.tried = r.tried \union {Head(r.todo)}]
<1>1. AfterDrawing(r, ok) = IF Len(r.todo) = 1 \/ (~ok /\ r.op # "run") THEN Idle ELSE t
  BY DEF AfterDrawing
<1>2. /\ {"op", "pc", "form", "base", "todo", "tried"} \subseteq DOMAIN t
      /\ t.op = r.op /\ t.pc = "draw" /\ t.form = r.form /\ t.base = r.base
      /\ t.todo = Tail(r.todo) /\ t.tried = r.tried \union {Head(r.todo)}
  BY DEF RequestFits
<1> HIDE DEF t
<1>3. AreGood(r.todo)  BY DEF RequestFits
<1>4. AreGood(t.todo)  BY <1>2, <1>3, TailIsGood
<1>5. r.op = "onSave" => \A i \in DOMAIN t.todo : t.todo[i].output # CsvFile
  BY <1>2, <1>3, TailIsGood DEF RequestFits
<1>6. r.op = "run" => \A i \in DOMAIN t.base : t.base[i] \in t.tried \union {t.todo[j] : j \in DOMAIN t.todo}
  <2> SUFFICES ASSUME r.op = "run", NEW i \in DOMAIN r.base
               PROVE r.base[i] \in t.tried \union {t.todo[j] : j \in DOMAIN t.todo}
    BY <1>2
  <2>1. CASE r.base[i] \in r.tried  BY <1>2, <2>1
  <2>2. ASSUME NEW j \in DOMAIN r.todo, r.base[i] = r.todo[j]
        PROVE r.base[i] \in t.tried \union {t.todo[k] : k \in DOMAIN t.todo}
    BY <1>2, <1>3, <2>2, TailIsGood
  <2> QED  BY <2>1, <2>2 DEF RequestFits
<1>7. r.op \notin {"none", "preview"}  BY DEF RequestFits, Stages
<1>8. RequestFits(t)
  BY <1>2, <1>4, <1>5, <1>6, <1>7 DEF RequestFits, Stages
<1> QED  BY <1>1, <1>2, <1>8, IdleFits DEF Idle

\* A chart's output is truncated, and written, or not.
LEMMA DrawFits ==
    ASSUME StoreInv, NEW p \in Proc, OpenOutput(p) \/ NothingToDraw(p) \/ Draw(p) PROVE StoreInv'
<1>0. RequestFits(req[p]) /\ files \in [Paths -> {"csv", "none", "empty"} \union Ids]
  BY DEF StoreInv, RequestsFit, PlacesFit
<1>1. CASE NothingToDraw(p)
  <2>1. req[p].pc # "cleanup" /\ Ends(p)  BY <1>1 DEF NothingToDraw
  <2> QED  BY <1>1, <2>1, EndFits DEF NothingToDraw
<1>2. CASE OpenOutput(p) \/ Draw(p)
  <2> DEFINE chart == Head(req[p].todo)
  <2>1. req[p].pc \in {"draw", "drawing"} /\ req[p].todo # <<>>
        /\ UNCHANGED <<config, temps, made, kills, lastWhole, before, overlapped>>
    BY <1>0, <1>2 DEF OpenOutput, Draw, RequestFits
  <2>2. chart.id \in Ids
    <3>1. IsGood(chart)  BY <1>0, <2>1, TailIsGood DEF RequestFits
    <3> QED  BY <3>1 DEF IsGood, IsForm
  <2> HIDE DEF chart
  <2>3. files' \in [Paths -> {"csv", "none", "empty"} \union Ids]
    <3>1. \/ files' = files \/ files' = [files EXCEPT ![chart.output] = "empty"]
          \/ files' = [files EXCEPT ![chart.output] = chart.id]
      BY <1>2 DEF OpenOutput, Draw, chart
    <3> QED  BY <1>0, <2>2, <3>1
  <2>4. ASSUME NEW ok, Step(p, AfterDrawing(req[p], ok)) PROVE StoreInv'
    <3> DEFINE r == AfterDrawing(req[p], ok)
    <3>1. RequestFits(r) /\ (r.op # "save" \/ (req[p].op = "save" /\ r.pc = "draw"))
      BY <1>0, <2>1, AfterDrawingFits
    <3> HIDE DEF r
    <3>2. r.op # "save" \/ (req[p].op = "save" /\ (~overlapped => Holds(r)))  BY <3>1 DEF Holds
    <3>3. Step(p, r) /\ req[p].pc # "cleanup"  BY <2>1, <2>4 DEF r
    <3> QED  BY <2>1, <2>3, <3>1, <3>2, <3>3, InnerFits
  <2>5. ASSUME Step(p, [req[p] EXCEPT !.pc = "drawing"]) PROVE StoreInv'
    <3> DEFINE r == [req[p] EXCEPT !.pc = "drawing"]
    <3>1. /\ {"op", "pc", "form", "base", "todo", "tried"} \subseteq DOMAIN r
          /\ r.op = req[p].op /\ r.pc = "drawing" /\ r.form = req[p].form
          /\ r.base = req[p].base /\ r.todo = req[p].todo /\ r.tried = req[p].tried
      BY <1>0 DEF RequestFits
    <3> HIDE DEF r
    <3>2. RequestFits(r)  BY <1>0, <2>1, <3>1 DEF RequestFits, Stages
    <3>3. r.op # "save" \/ (req[p].op = "save" /\ (~overlapped => Holds(r)))  BY <3>1 DEF Holds
    <3>4. Step(p, r) /\ req[p].pc # "cleanup"  BY <2>1, <2>5 DEF r
    <3> QED  BY <2>1, <2>3, <3>2, <3>3, <3>4, InnerFits
  <2>6. \/ \E ok \in BOOLEAN : Step(p, AfterDrawing(req[p], ok))
        \/ Step(p, [req[p] EXCEPT !.pc = "drawing"])
    BY <1>2 DEF OpenOutput, Draw
  <2> QED  BY <2>4, <2>5, <2>6
<1> QED  BY <1>1, <1>2

\* The viewer is killed.
LEMMA KillFits ==
    ASSUME StoreInv, Kill PROVE StoreInv'
<1>1. RequestsFit'
  <2>1. \A p \in Proc : req'[p] = Idle  BY DEF Kill
  <2> QED  BY <2>1, IdleFits DEF Kill, RequestsFit, RequestFits
<1>2. FileFits'  BY FileKept DEF Kill, StoreInv
<1>3. PlacesFit'
  <2>1. kills' \in 0..MaxKills /\ kills' # 0  BY StoreAssumption DEF Kill, StoreInv, PlacesFit
  <2> QED  BY <2>1 DEF Kill, StoreInv, PlacesFit
<1>4. SaveIsAlone'
  <2>1. \A p \in Proc : req'[p].op = "none"  BY DEF Kill, Idle
  <2> QED  BY <2>1 DEF SaveIsAlone, Holds
<1> QED  BY <1>1, <1>2, <1>3, <1>4 DEF StoreInv

----------------------------------------------------------------------------
(* What ChartStore promises.                                               *)

\* Whatever the requests do, and however they are mixed.
LEMMA StoreSteps ==
    ASSUME StoreInv, [Next]_vars PROVE StoreInv'
<1>1. CASE UNCHANGED vars
  <2>1. UNCHANGED <<config, files, req, temps, made, kills, lastWhole, before, overlapped>>
    BY <1>1 DEF vars
  <2>2. FileFits'  BY <2>1, FileKept DEF StoreInv
  <2>3. RequestsFit' /\ PlacesFit'  BY <2>1 DEF StoreInv, RequestsFit, RequestFits, PlacesFit
  <2>4. SaveIsAlone'
    <3>1. \A p \in Proc : Holds(req[p]) => Holds(req[p])'  BY <2>1 DEF Holds, ChartsIn
    <3> QED  BY <2>1, <3>1 DEF StoreInv, SaveIsAlone
  <2> QED  BY <2>2, <2>3, <2>4 DEF StoreInv
<1>2. CASE Kill  BY <1>2, KillFits
<1>3. ASSUME NEW p \in Proc, Request(p) PROVE StoreInv'
  BY <1>3, StartSaveFits, BuildFits, OpenConfigFits, WriteConfigFits, DrawStartsFit, PreviewStepFits, DrawFits
     DEF Request
<1> QED  BY <1>1, <1>2, <1>3 DEF Next

\* StoreInv is inductive.
LEMMA StoreInvariant == Spec => []StoreInv
<1>1. Init => StoreInv  BY StoreStarts
<1>2. StoreInv /\ [Next]_vars => StoreInv'  BY StoreSteps
<1> QED  BY <1>1, <1>2, PTL DEF Spec

\* The invariant carries the run's.
LEMMA ConfigInvFollows == ASSUME StoreInv PROVE ConfigInv
<1>1. ChartTypeOK
  <2>1. \A p \in Proc : RequestFits(req[p])  BY DEF StoreInv, RequestsFit
  <2>2. config[1] \in {"missing", "torn", "charts"}  BY DEF StoreInv, FileFits, IsWhole
  <2>3. \A p \in Proc :
          /\ req[p].op \in {"none", "save", "generate", "onSave", "run", "preview"}
          /\ req[p].pc \in {"idle", "spec", "validate", "open", "write", "draw", "drawing", "cleanup"}
          /\ req[p].pc = "drawing" => req[p].todo # <<>>
    BY <2>1 DEF RequestFits, Stages
  <2>4. \A p \in Proc : req[p] = Idle /\ kills = 0 => p \notin temps
    <3>1. Idle.pc # "cleanup"  BY DEF Idle
    <3> QED  BY <3>1 DEF StoreInv, PlacesFit
  <2>5. files \in [Paths -> {"csv", "none", "empty"} \union {SanitizeChartId(f.id) : f \in Forms} \union
                              UNION {{c[i].id : i \in DOMAIN c} : c \in Configs}]
    <3>1. {"csv", "none", "empty"} \union Ids
            = {"csv", "none", "empty"} \union {SanitizeChartId(f.id) : f \in Forms} \union
                UNION {{c[i].id : i \in DOMAIN c} : c \in Configs}
      BY DEF Ids
    <3> QED  BY <3>1 DEF StoreInv, PlacesFit
  <2> QED  BY <2>2, <2>3, <2>4, <2>5 DEF ChartTypeOK, StoreInv, PlacesFit
<1>2. SavedConfigLoads
  <2> SUFFICES ASSUME config[1] = "charts", config = lastWhole, lastWhole # before,
                      \A i \in DOMAIN Entries : ColumnsAreNamed(Entries[i].options)
               PROVE Loads
    BY DEF SavedConfigLoads
  <2>1. PICK es : lastWhole = <<"charts", es>> /\ NamedParse(es)
    BY DEF StoreInv, FileFits, IsWhole
  <2> QED  BY <2>1 DEF Loads, Entries, NamedParse
<1> QED  BY <1>1, <1>2 DEF ConfigInv

\* Drawing a chart is all that changes an output, and a chart that is drawn after
\* a save does not write over the CSV.
LEMMA OutputsChange ==
    ASSUME StoreInv, [Next]_vars, NEW f \in Paths, files'[f] # files[f]
    PROVE \/ f = CsvFile /\ files'[f] = "csv"
          \/ \E p \in Proc :
               /\ req[p].op \in {"save", "generate", "run"} \/ (req[p].op = "onSave" /\ f # CsvFile)
               /\ req[p].todo # <<>> /\ Head(req[p].todo).output = f
<1>1. files \in [Paths -> {"csv", "none", "empty"} \union Ids]  BY DEF StoreInv, PlacesFit
<1>2. PICK p \in Proc : Request(p)  BY DEF Next, Kill, vars
<1>3. StartRunOnSave(p) \/ OpenOutput(p) \/ Draw(p)
  BY <1>2 DEF Request, StartSave, BuildSpec, Validate, OpenConfig, WriteConfig, StartGenerate, StartRun,
              StartPreview, Preview, EndPreview, NothingToDraw
<1>4. CASE StartRunOnSave(p)
  BY <1>1, <1>4 DEF StartRunOnSave
<1>5. CASE OpenOutput(p) \/ Draw(p)
  <2>1. RequestFits(req[p])  BY DEF StoreInv, RequestsFit
  <2>2. req[p].pc \in {"draw", "drawing"} /\ req[p].todo # <<>>
    BY <1>5, <2>1 DEF OpenOutput, Draw, RequestFits
  <2>3. req[p].op \in {"save", "generate", "run", "onSave"}  BY <2>1, <2>2 DEF RequestFits, Stages
  <2>4. req[p].op = "onSave" => Head(req[p].todo).output # CsvFile
    BY <2>1, <2>2, TailIsGood DEF RequestFits
  <2>5. Head(req[p].todo).output = f
    BY <1>1, <1>5 DEF OpenOutput, Draw
  <2> QED  BY <2>2, <2>3, <2>4, <2>5
<1> QED  BY <1>3, <1>4, <1>5

\* A run that ends has tried every chart it was given.
LEMMA RunTries ==
    ASSUME StoreInv, [Next]_vars, NEW p \in Proc, req[p].op = "run", req'[p] = Idle, kills' = kills
    PROVE {req[p].base[i] : i \in DOMAIN req[p].base} \subseteq
            req[p].tried \union {req[p].todo[i] : i \in {1} \cap DOMAIN req[p].todo}
<1>1. RequestFits(req[p]) /\ Idle.op = "none" /\ req[p].pc \in {"draw", "drawing"}
  BY DEF StoreInv, RequestsFit, RequestFits, Stages, Idle
<1>2. PICK q \in Proc : Request(q)
  <2>1. ~Kill  BY DEF Kill, StoreInv, PlacesFit
  <2>2. ~UNCHANGED vars  BY <1>1 DEF vars
  <2> QED  BY <2>1, <2>2 DEF Next
<1>3. \A r, s \in Proc : \A new : Step(r, new) => req'[s] = IF s = r THEN new ELSE req[s]
  BY DEF Step, StoreInv, RequestsFit
<1>4. q = p
  <2>1. \E new : Step(q, new)
    BY <1>2 DEF Request, StartSave, BuildSpec, Validate, OpenConfig, WriteConfig, StartGenerate, StartRunOnSave,
                StartRun, StartPreview, Preview, EndPreview, OpenOutput, NothingToDraw, Draw, Starts, Ends
  <2>2. req'[p] # req[p]  BY <1>1
  <2> QED  BY <1>3, <2>1, <2>2
<1>5. OpenOutput(p) \/ NothingToDraw(p) \/ Draw(p)
  BY <1>1, <1>2, <1>4
     DEF Request, StartSave, BuildSpec, Validate, OpenConfig, WriteConfig, StartGenerate, StartRunOnSave, StartRun,
         StartPreview, Preview, EndPreview, Starts, Idle
<1>6. CASE req[p].todo = <<>>
  <2>1. DOMAIN req[p].todo = {}  BY <1>6
  <2> QED  BY <1>1, <2>1 DEF RequestFits
<1>7. CASE req[p].todo # <<>>
  <2>1. \/ \E ok \in BOOLEAN : Step(p, AfterDrawing(req[p], ok))
        \/ Step(p, [req[p] EXCEPT !.pc = "drawing"])
    BY <1>5, <1>7 DEF OpenOutput, NothingToDraw, Draw
  <2>2. ~Step(p, [req[p] EXCEPT !.pc = "drawing"])
    <3>1. [req[p] EXCEPT !.pc = "drawing"].op = "run"  BY <1>1
    <3> QED  BY <1>1, <1>3, <3>1
  <2>3. PICK ok \in BOOLEAN : Idle = AfterDrawing(req[p], ok)  BY <1>3, <2>1, <2>2
  <2>4. Len(req[p].todo) = 1
    <3> DEFINE t == [req[p] EXCEPT !.pc = "draw", !.todo = Tail(req[p].todo),
                                   !.tried = req[p].tried \union {Head(req[p].todo)}]
    <3>1. t.op = "run"  BY <1>1
    <3>2. AfterDrawing(req[p], ok) = IF Len(req[p].todo) = 1 \/ (~ok /\ req[p].op # "run") THEN Idle ELSE t
      BY DEF AfterDrawing
    <3> HIDE DEF t
    <3> QED  BY <1>1, <2>3, <3>1, <3>2
  <2>5. DOMAIN req[p].todo = {1}  BY <1>1, <1>7, <2>4, TailIsGood DEF RequestFits
  <2> QED  BY <1>1, <2>5 DEF RequestFits
<1> QED  BY <1>6, <1>7

----------------------------------------------------------------------------
(* What a save leaves in charts.json.                                      *)

\* What is read of the charts that were written.
ReadsBack(read, written) ==
    /\ IsSeq(read) /\ DOMAIN read = DOMAIN written
    /\ \A i \in DOMAIN written : EntryOf(written[i], read[i]) /\ read[i].id = written[i].id
                                 /\ read[i].type = written[i].type

\* Charts that are written can be read back.
LEMMA WholeReadsBack ==
    ASSUME NEW cs, AreGood(cs), NEW whole, whole = <<"charts", [i \in DOMAIN cs |-> Entry(cs[i])]>>
    PROVE ReadsBack(ChartsIn(whole), cs)
<1> DEFINE es == [i \in DOMAIN cs |-> Entry(cs[i])]
           read == ChartsIn(whole)
<1>1. Len(cs) \in Nat /\ DOMAIN cs = 1..Len(cs)  BY SeqIsFunction DEF AreGood
<1>2. read = [i \in DOMAIN es |-> SpecOf(es[i])]  BY DEF ChartsIn
<1>3. DOMAIN read = DOMAIN cs /\ \A i \in DOMAIN cs : read[i] = SpecOf(Entry(cs[i]))  BY <1>2
<1>4. read = [i \in 1..Len(cs) |-> read[i]]  BY <1>1, <1>2
<1> HIDE DEF read
<1>5. IsSeq(read)  BY <1>1, <1>4, FunctionIsSeq
<1>6. ASSUME NEW i \in DOMAIN cs
      PROVE EntryOf(cs[i], read[i]) /\ read[i].id = cs[i].id /\ read[i].type = cs[i].type
  <2>1. IsSpec(cs[i])  BY DEF AreGood, IsGood, IsForm
  <2>2. EntryOf(cs[i], read[i])  BY <1>3, <2>1, EntryKeeps
  <2> QED  BY <2>1, <2>2, SameFields DEF EntryOf, IsSpec
<1> QED  BY <1>3, <1>5, <1>6 DEF ReadsBack, read

\* What the charts of other ids mean, in their order.
OthersOf(cs, id) ==
    [k \in 1..Cardinality(Beside(cs, id)) |-> Meaning(cs[Place(Beside(cs, id), k)])]

\* The property's `others` are these.
LEMMA OthersAre ==
    ASSUME NEW whole, IsSeq(ChartsIn(whole)), NEW id
    PROVE OthersIn(whole, id) = OthersOf(ChartsIn(whole), id)
<1> DEFINE cs == ChartsIn(whole)
           at == Beside(cs, id)
           others == Kept(cs, at)
<1>1. OthersIn(whole, id) = [i \in DOMAIN others |-> Meaning(others[i])]
  BY DEF OthersIn, Beside
<1>2. at \subseteq DOMAIN cs  BY DEF Beside
<1> HIDE DEF cs, at
<1>3. KeepsOf(others, cs, at)  BY <1>2, KeptFits DEF cs
<1> HIDE DEF others
<1>4. DOMAIN others = 1..Cardinality(at) /\ \A k \in 1..Cardinality(at) : others[k] = cs[Place(at, k)]
  BY <1>3 DEF KeepsOf
<1>5. [i \in DOMAIN others |-> Meaning(others[i])]
        = [k \in 1..Cardinality(at) |-> Meaning(cs[Place(at, k)])]
  BY <1>4
<1> QED  BY <1>1, <1>5 DEF OthersOf, cs, at

\* The property's query is this one.
LEMMA SqlIs ==
    ASSUME NEW whole, NEW spec
    PROVE SqlIn(whole, spec) = SqlOf(ChartsIn(whole), spec)
BY DEF SqlIn, SqlOf, SameCharts, FirstOf

\* Charts of other ids mean what they meant.
LEMMA OthersStay ==
    ASSUME NEW cs, AreGood(cs), NEW spec, IsGood(spec), NEW read, ReadsBack(read, Updated(cs, spec))
    PROVE OthersOf(read, spec.id) = OthersOf(cs, spec.id)
<1> DEFINE new == Updated(cs, spec)
           card == Cardinality(Beside(cs, spec.id))
           P(m) == Place(Beside(new, spec.id), m)
<1>1. IsUpdated(new, cs, spec)  BY UpdatedFits DEF AreGood
<1> HIDE DEF new
<1>2. Beside(read, spec.id) = Beside(new, spec.id)  BY DEF Beside, ReadsBack, new
<1>3. \A m \in 1..card : /\ P(m) \in DOMAIN new
                         /\ new[P(m)] = cs[Place(Beside(cs, spec.id), m)]
  BY <1>1 DEF IsUpdated, Beside
<1>4. \A m \in 1..card : Meaning(read[P(m)]) = Meaning(new[P(m)])
  BY <1>3 DEF ReadsBack, EntryOf, new
<1>5. \A m \in 1..card : Meaning(read[P(m)]) = Meaning(cs[Place(Beside(cs, spec.id), m)])
  BY <1>3, <1>4
<1>6. Cardinality(Beside(new, spec.id)) = card  BY <1>1 DEF IsUpdated
<1>7. OthersOf(read, spec.id) = [m \in 1..card |-> Meaning(read[P(m)])]  BY <1>2, <1>6 DEF OthersOf
<1> HIDE DEF card, P
<1>8. [m \in 1..card |-> Meaning(read[P(m)])] = [m \in 1..card |-> Meaning(cs[Place(Beside(cs, spec.id), m)])]
  BY <1>5
<1> QED  BY <1>7, <1>8 DEF OthersOf, card

\* The chart that was saved is there, once, with its query.
LEMMA SavedIsThere ==
    ASSUME NEW cs, AreGood(cs), NEW spec, IsGood(spec), NEW read, ReadsBack(read, Updated(cs, spec))
    PROVE /\ \E i \in DOMAIN read : read[i].id = spec.id
          /\ SqlOf(read, spec) = spec.options.sql
<1> DEFINE new == Updated(cs, spec)
<1>1. IsUpdated(new, cs, spec)  BY UpdatedFits DEF AreGood
<1> HIDE DEF new
<1>2. PICK k \in DOMAIN new : new[k] = spec  BY <1>1 DEF IsUpdated
<1>3. k \in DOMAIN read /\ read[k].id = spec.id /\ read[k].type = spec.type
      /\ read[k].options.sql = spec.options.sql
  BY <1>2 DEF ReadsBack, EntryOf, new
<1>4. \A l \in DOMAIN new : new[l].id = spec.id => l = k  BY <1>1, <1>2 DEF IsUpdated
<1>5. SameCharts(read, spec) = {k}  BY <1>3, <1>4 DEF SameCharts, ReadsBack, new
<1>6. FirstOf({k}) = k
  <2>1. k \in Nat  BY <1>2, <1>1, SeqIsFunction DEF IsUpdated
  <2> QED  BY <2>1, FirstFits
<1> QED  BY <1>3, <1>5, <1>6 DEF SqlOf

\* A save that is alone replaces one chart and keeps its query.
LEMMA SavesOne ==
    ASSUME StoreInv, [Next]_vars, lastWhole' # lastWhole, ~overlapped
    PROVE \E p \in Proc :
            LET spec == req[p].form IN
            /\ req[p].op = "save"
            /\ OthersIn(lastWhole', spec.id) = OthersIn(lastWhole, spec.id)
            /\ \E i \in DOMAIN ChartsIn(lastWhole') : ChartsIn(lastWhole')[i].id = spec.id
            /\ spec.type # "markdown-table" =>
                 SqlIn(lastWhole', spec) = SqlIn(lastWhole, spec)
<1>1. PICK p \in Proc : WriteConfig(p)
  BY DEF Next, vars, Kill, Request, StartSave, BuildSpec, Validate, OpenConfig, StartGenerate, StartRunOnSave,
         StartRun, StartPreview, Preview, EndPreview, OpenOutput, NothingToDraw, Draw
<1> DEFINE spec == req[p].form
           cs == req[p].base
           new == Updated(cs, spec)
<1>2. req[p].op = "save" /\ lastWhole' = <<"charts", [i \in DOMAIN new |-> Entry(new[i])]>>
  BY <1>1 DEF WriteConfig
<1>3. RequestFits(req[p]) /\ Holds(req[p]) /\ req[p].pc = "write"
  BY <1>1 DEF StoreInv, RequestsFit, SaveIsAlone, WriteConfig
<1>4. AreGood(cs) /\ IsGood(spec) /\ cs = ChartsIn(lastWhole)
  BY <1>2, <1>3 DEF RequestFits, Holds
<1>5. PICK form \in Forms : spec = SpecForBody(form, cs)
  BY <1>2, <1>3, <1>4 DEF Holds
<1> HIDE DEF spec, cs
<1>6. AreGood(new)
  <2>1. IsUpdated(new, cs, spec)  BY <1>4, UpdatedFits DEF AreGood
  <2> QED  BY <1>4, <2>1 DEF IsUpdated, AreGood
<1> HIDE DEF new
<1> DEFINE read == ChartsIn(lastWhole')
<1>7. ReadsBack(read, new)  BY <1>2, <1>6, WholeReadsBack
<1> HIDE DEF read
<1>8. ReadsBack(read, Updated(cs, spec))  BY <1>7 DEF new
<1>9. OthersIn(lastWhole', spec.id) = OthersIn(lastWhole, spec.id)
  <2>1. OthersIn(lastWhole', spec.id) = OthersOf(read, spec.id)
    BY <1>7, OthersAre DEF ReadsBack, read
  <2>2. OthersIn(lastWhole, spec.id) = OthersOf(cs, spec.id)
    BY <1>4, OthersAre DEF AreGood
  <2> QED  BY <1>4, <1>8, <2>1, <2>2, OthersStay
<1>10. \E i \in DOMAIN ChartsIn(lastWhole') : ChartsIn(lastWhole')[i].id = spec.id
  BY <1>4, <1>8, SavedIsThere DEF read
<1>11. ASSUME spec.type # "markdown-table" PROVE SqlIn(lastWhole', spec) = SqlIn(lastWhole, spec)
  <2>1. SqlIn(lastWhole', spec) = spec.options.sql
    BY <1>4, <1>8, SavedIsThere, SqlIs DEF read
  <2>2. /\ IsOfBody(spec, Body(form), cs) /\ spec.id = Body(form).id /\ spec.type = form.type
        /\ Body(form).type = form.type /\ Body(form).options = form.options
    BY <1>5, PostedFits
  <2>3. "sql" \notin DOMAIN form.options
    BY <1>11, <2>2, StoreAssumption DEF FormsArePosted
  <2>4. spec.options.sql = SqlOf(cs, Body(form))  BY <1>11, <2>2, <2>3 DEF IsOfBody
  <2>5. SqlOf(cs, Body(form)) = SqlOf(cs, spec)  BY <2>2 DEF SqlOf, SameCharts
  <2>6. SqlIn(lastWhole, spec) = SqlOf(cs, spec)  BY <1>4, SqlIs
  <2> QED  BY <2>1, <2>4, <2>5, <2>6
<1> QED  BY <1>2, <1>9, <1>10, <1>11 DEF spec

\* The state of every request is well formed, and a saved charts.json can be loaded
\* again, whatever the requests and however they are mixed.
THEOREM ConfigInvCorrect == Spec => []ConfigInv
<1>1. StoreInv => ConfigInv  BY ConfigInvFollows
<1> QED  BY <1>1, StoreInvariant, PTL

\* Only drawing a chart changes its output, and drawing after a save spares the CSV.
THEOREM OutputsAreAskedForCorrect == Spec => OutputsAreAskedFor
<1> DEFINE Asked == \A f \in Paths : files'[f] # files[f] =>
             \/ f = CsvFile /\ files'[f] = "csv"
             \/ \E p \in Proc :
                  /\ req[p].op \in {"save", "generate", "run"} \/ (req[p].op = "onSave" /\ f # CsvFile)
                  /\ req[p].todo # <<>> /\ Head(req[p].todo).output = f
<1>1. StoreInv /\ [Next]_vars => [Asked]_vars  BY OutputsChange
<1>2. [][Asked]_vars <=> OutputsAreAskedFor  BY DEF OutputsAreAskedFor
<1> HIDE DEF Asked
<1> QED  BY <1>1, <1>2, StoreInvariant, PTL DEF Spec

\* `charts run` tries every chart it was asked for, whichever fail.
THEOREM RunTriesEveryChartCorrect == Spec => RunTriesEveryChart
<1> DEFINE Tries == \A p \in Proc :
             (req[p].op = "run" /\ req'[p] = Idle /\ kills' = kills) =>
               {req[p].base[i] : i \in DOMAIN req[p].base} \subseteq
                 req[p].tried \union {req[p].todo[i] : i \in {1} \cap DOMAIN req[p].todo}
<1>1. StoreInv /\ [Next]_vars => [Tries]_vars  BY RunTries
<1>2. [][Tries]_vars <=> RunTriesEveryChart  BY DEF RunTriesEveryChart
<1> HIDE DEF Tries
<1> QED  BY <1>1, <1>2, StoreInvariant, PTL DEF Spec

\* A save that no other overlaps changes one chart of charts.json, and keeps its query.
THEOREM SavesOneChartCorrect == Spec => SavesOneChart
<1> DEFINE One == lastWhole' # lastWhole /\ ~overlapped =>
             \E p \in Proc :
               LET spec == req[p].form IN
               /\ req[p].op = "save"
               /\ OthersIn(lastWhole', spec.id) = OthersIn(lastWhole, spec.id)
               /\ \E i \in DOMAIN ChartsIn(lastWhole') : ChartsIn(lastWhole')[i].id = spec.id
               /\ spec.type # "markdown-table" =>
                    SqlIn(lastWhole', spec) = SqlIn(lastWhole, spec)
<1>1. StoreInv /\ [Next]_vars => [One]_vars  BY SavesOne
<1>2. [][One]_vars <=> SavesOneChart  BY DEF SavesOneChart
<1> HIDE DEF One
<1> QED  BY <1>1, <1>2, StoreInvariant, PTL DEF Spec

----------------------------------------------------------------------------
(* The invariant of ChartForm.                                             *)

\* What the viewer is given of charts.json.
IsLoaded(c) == IsSpec(c) /\ ("values" \in DOMAIN c.options => IsSeq(c.options.values))
AreLoaded(cs) == IsSeq(cs) /\ IdsDiffer(cs) /\ \A i \in DOMAIN cs : IsLoaded(cs[i])

\* What the controls may hold.
Controls(f) ==
    /\ {"type", "value", "value2", "date"} \subseteq DOMAIN f
    /\ f.type \in ChartTypes /\ {f.value, f.value2, f.date} \subseteq Columns \union {""}

IsCall(c) == {"kind", "stage", "fields", "reply"} \subseteq DOMAIN c

\* The form and the charts it was given.
FormFits ==
    /\ AreLoaded(charts) /\ AreLoaded(listed) /\ Controls(fields)
    /\ shown \in BOOLEAN /\ opening \in BOOLEAN /\ generable \in BOOLEAN /\ steps \in 0..MaxSteps

\* The request under way, and the list that is waited for.
CallFits ==
    /\ IsCall(call) /\ call.kind \in {"no", "preview", "save", "generate", "relist"}
    /\ call.stage \in {"no", "posted", "done", "refused"} /\ (call.stage = "no" <=> call.kind = "no")
    /\ call.kind # "no" => Controls(call.fields)
    /\ call.kind = "relist" /\ call.stage = "done" => AreLoaded(call.reply)

ListFits ==
    /\ IsCall(list) /\ (opening <=> list.kind # "no") /\ (list.stage = "no" <=> list.kind = "no")
    /\ list.stage = "done" => AreLoaded(list.reply)

\* Edits and answers that change the controls take back the preview, and the
\* right of a pending one to be shown.
PreviewFits ==
    /\ preview # <<>> => preview = <<fields>>
    /\ call.kind = "preview" /\ current => call.fields = fields

FormInv == FormFits /\ CallFits /\ ListFits /\ PreviewFits

\* A sequence that is not empty has a first.
LEMMA HasFirst ==
    ASSUME NEW s, IsSeq(s), s # <<>> PROVE 1 \in DOMAIN s
<1>1. Len(s) \in Nat /\ DOMAIN s = 1..Len(s) /\ s = [i \in 1..Len(s) |-> s[i]]  BY SeqIsFunction
<1>2. Len(s) # 0
  <2> SUFFICES ASSUME Len(s) = 0 PROVE FALSE  OBVIOUS
  <2>1. s \in Seq({s[i] : i \in DOMAIN s})  BY DEF IsSeq
  <2> HIDE DEF IsSeq
  <2> QED  BY <2>1
<1> QED  BY <1>1, <1>2

\* A chart in the controls.
LEMMA ShownFits ==
    ASSUME NEW c, c.type \in ChartTypes PROVE Controls(Shown(c)) /\ Shown(c).type = c.type
BY DEF Controls, Shown, Select

\* Defaults in the controls.
LEMMA DefaultsFit ==
    ASSUME NEW type \in ChartTypes PROVE Controls(Defaults[type])
<1>1. type \in ChartTypes  OBVIOUS
<1>2. \E c : Defaults[type] = Shown(c) /\ c.type = type
  BY <1>1 DEF Defaults
<1> QED  BY <1>2, ShownFits

\* A sequence of none, one or two.
LEMMA ShortSeqs ==
    ASSUME NEW c, NEW d
    PROVE /\ IsSeq(<<>>) /\ DOMAIN <<>> = {} /\ Len(<<>>) = 0
          /\ IsSeq(<<c>>) /\ DOMAIN <<c>> = {1} /\ Len(<<c>>) = 1 /\ <<c>>[1] = c
          /\ IsSeq(<<c, d>>) /\ DOMAIN <<c, d>> = {1, 2} /\ Len(<<c, d>>) = 2
          /\ <<c, d>>[1] = c /\ <<c, d>>[2] = d
<1>1. DOMAIN <<>> = {} /\ Len(<<>>) = 0 /\ IsSeq(<<>>)  BY DEF IsSeq
<1>2. DOMAIN <<c>> = {1} /\ Len(<<c>>) = 1 /\ <<c>>[1] = c  OBVIOUS
<1>3. DOMAIN <<c, d>> = {1, 2} /\ Len(<<c, d>>) = 2 /\ <<c, d>>[1] = c /\ <<c, d>>[2] = d  OBVIOUS
<1>4. IsSeq(<<c>>)
  <2>1. {<<c>>[i] : i \in {1}} = {c} /\ <<c>> \in Seq({c})  BY <1>2
  <2> QED  BY <1>2, <2>1 DEF IsSeq
<1>5. IsSeq(<<c, d>>)
  <2>1. {<<c, d>>[i] : i \in {1, 2}} = {c, d} /\ <<c, d>> \in Seq({c, d})  BY <1>3
  <2> QED  BY <1>3, <2>1 DEF IsSeq
<1> QED  BY <1>1, <1>2, <1>3, <1>4, <1>5

\* Two selects give a column each, unless they are empty.
LEMMA SelectedFits ==
    ASSUME NEW f
    PROVE Selected(f) = IF f.value = ""
                          THEN IF f.value2 = "" THEN <<>> ELSE <<Plain(f.value2)>>
                          ELSE IF f.value2 = "" THEN <<Plain(f.value)>> ELSE <<Plain(f.value), Plain(f.value2)>>
<1>1. ASSUME NEW c, NEW d
      PROVE <<c>> \o <<d>> = <<c, d>> /\ <<c>> \o <<>> = <<c>> /\ <<>> \o <<d>> = <<d>>
            /\ <<>> \o <<>> = <<>>
  <2> DEFINE S == {c, d}
  <2>1. <<c>> \in Seq(S) /\ <<d>> \in Seq(S) /\ <<>> \in Seq(S) /\ <<c, d>> \in Seq(S)  OBVIOUS
  <2>2. Len(<<c>>) = 1 /\ Len(<<d>>) = 1 /\ <<c>>[1] = c /\ <<d>>[1] = d  OBVIOUS
  <2>3. Len(<<c, d>>) = 2 /\ <<c, d>>[1] = c /\ <<c, d>>[2] = d  OBVIOUS
  <2> HIDE DEF S
  <2>4. /\ <<c>> \o <<d>> \in Seq(S) /\ Len(<<c>> \o <<d>>) = 1 + 1
        /\ \A i \in 1..(1 + 1) : (<<c>> \o <<d>>)[i] = IF i <= 1 THEN <<c>>[i] ELSE <<d>>[i - 1]
    BY <2>1, <2>2, ConcatProperties
  <2>5. \A i \in 1..2 : (<<c>> \o <<d>>)[i] = <<c, d>>[i]
    <3> SUFFICES ASSUME NEW i \in 1..2 PROVE (<<c>> \o <<d>>)[i] = <<c, d>>[i]  OBVIOUS
    <3>1. CASE i = 1  BY <2>2, <2>3, <2>4, <3>1
    <3>2. CASE i = 2
      <4>1. i - 1 = 1 /\ ~(i <= 1)  BY <3>2
      <4>2. (<<c>> \o <<d>>)[i] = <<d>>[1]  BY <2>4, <4>1
      <4> QED  BY <2>2, <2>3, <3>2, <4>2
    <3> QED  BY <3>1, <3>2
  <2>6. Len(<<c>> \o <<d>>) = 2  BY <2>4
  <2>7. <<c>> \o <<d>> = <<c, d>>  BY <2>1, <2>3, <2>4, <2>5, <2>6, SeqEqual
  <2> QED  BY <2>1, <2>7, ConcatEmptySeq
<1> QED  BY <1>1 DEF Selected, Named

\* What is listed is a sequence, of none, one or two.
LEMMA SelectedIsSeq ==
    ASSUME NEW f
    PROVE IsSeq(Selected(f)) /\ IsSeq(<<>>)
BY SelectedFits, ShortSeqs

\* What the form posts is a chart of its type, and not the query of one that is drawn.
LEMMA PayloadFits ==
    ASSUME NEW f, f.type \in ChartTypes
    PROVE /\ IsChart(Posted(f)) /\ Posted(f).type = f.type /\ Posted(f).options = Payload(f)
          /\ "values" \in DOMAIN Payload(f) =>
               Payload(f).values = IF Len(Selected(f)) > 1 THEN Selected(f) ELSE <<>>
          /\ f.type # "markdown-table" => "sql" \notin DOMAIN Payload(f)
<1>1. /\ Payload(f) = [k \in DOMAIN Payload(f) |-> Payload(f)[k]]
      /\ "values" \in DOMAIN Payload(f) =>
           Payload(f).values = IF Len(Selected(f)) > 1 THEN Selected(f) ELSE <<>>
      /\ f.type # "markdown-table" => "sql" \notin DOMAIN Payload(f)
  <2>1. CASE f.type = "heatmap"  BY <2>1 DEF Payload
  <2>2. CASE f.type = "bar"  BY <2>2 DEF Payload
  <2>3. CASE f.type = "line"  BY <2>3 DEF Payload
  <2>4. CASE f.type = "markdown-table"  BY <2>4 DEF Payload
  <2> QED  BY <2>1, <2>2, <2>3, <2>4 DEF ChartTypes
<1> QED  BY <1>1 DEF IsChart, Posted

\* The spec of what the form posts can be loaded.
LEMMA SpecFits ==
    ASSUME NEW f, f.type \in ChartTypes
    PROVE /\ IsOfBody(SpecOfForm(f), Body(Posted(f)), charts) /\ IsLoaded(SpecOfForm(f))
          /\ IsChart(Body(Posted(f))) /\ Body(Posted(f)).type = f.type /\ Body(Posted(f)).options = Payload(f)
          /\ Body(Posted(f)).id = SanitizeChartId(Trim(f.id)) /\ Body(Posted(f)).output = Trim(f.output)
          /\ Body(Posted(f)).runOnSave = f.runOnSave
<1> DEFINE b == Body(Posted(f))
           spec == SpecOfForm(f)
<1>1. /\ IsOfBody(spec, b, charts) /\ IsChart(b) /\ DOMAIN b = DOMAIN Posted(f)
      /\ b.id = SanitizeChartId(Posted(f).id)
      /\ \A field \in DOMAIN Posted(f) \ {"id"} : b[field] = Posted(f)[field]
  BY PayloadFits, BodyFits DEF SpecOfForm
<1>2. /\ b.type = f.type /\ b.options = Payload(f) /\ b.output = Trim(f.output) /\ b.runOnSave = f.runOnSave
      /\ b.id = SanitizeChartId(Trim(f.id))
  BY <1>1 DEF Posted
<1> HIDE DEF b, spec
<1>3. IsSpec(spec) /\ spec.type = f.type  BY <1>1, <1>2, SameFields DEF IsOfBody
<1>4. ASSUME "values" \in OptionKeys(f.type) PROVE IsSeq(spec.options["values"])
  <2>1. spec.options["values"] = Filled(f.type, Payload(f))["values"]
    BY <1>1, <1>2, <1>4 DEF IsOfBody
  <2>2. spec.options["values"] \in {Selected(f), <<>>}
    BY <1>4, <2>1, PayloadFits DEF Filled, Default, Empty, ListKeys
  <2> QED  BY <2>2, SelectedIsSeq
<1> QED  BY <1>1, <1>2, <1>3, <1>4 DEF IsLoaded, IsSpec, b, spec

\* What is written and read again has the values it had, under the id it had.
LEMMA ReadAgain ==
    ASSUME NEW c, IsLoaded(c)
    PROVE IsLoaded(SpecOf(Entry(c))) /\ SpecOf(Entry(c)).id = c.id
<1>1. EntryOf(c, SpecOf(Entry(c))) /\ IsSpec(c)  BY EntryKeeps DEF IsLoaded
<1>2. SpecOf(Entry(c)).id = c.id /\ SpecOf(Entry(c)).type = c.type
  BY <1>1, SameFields DEF EntryOf, IsSpec
<1> QED  BY <1>1, <1>2 DEF EntryOf, IsLoaded, IsSpec

\* A chart that is saved leaves charts that can be loaded.
LEMMA SavedFits ==
    ASSUME AreLoaded(charts), NEW f, f.type \in ChartTypes
    PROVE AreLoaded(Stored(SpecOfForm(f)))
<1> DEFINE spec == SpecOfForm(f)
           new == Updated(charts, spec)
           read == Stored(spec)
<1>1. IsUpdated(new, charts, spec)  BY UpdatedFits DEF AreLoaded
<1>2. IsLoaded(spec)  BY SpecFits
<1>3. read = [i \in DOMAIN new |-> SpecOf(Entry(new[i]))]  BY DEF Stored
<1> HIDE DEF new, spec
<1>4. IsSeq(new) /\ IdsDiffer(new)  BY <1>1 DEF IsUpdated, AreLoaded
<1>5. \A k \in DOMAIN new : IsLoaded(new[k])  BY <1>1, <1>2 DEF IsUpdated, AreLoaded
<1>6. Len(new) \in Nat /\ DOMAIN new = 1..Len(new)  BY <1>4, SeqIsFunction
<1>7. /\ DOMAIN read = DOMAIN new /\ read = [i \in 1..Len(new) |-> read[i]]
      /\ \A k \in DOMAIN new : read[k] = SpecOf(Entry(new[k]))
  BY <1>3, <1>6
<1> HIDE DEF read
<1>8. IsSeq(read)  BY <1>6, <1>7, FunctionIsSeq
<1>9. \A k \in DOMAIN new : IsLoaded(read[k]) /\ read[k].id = new[k].id  BY <1>5, <1>7, ReadAgain
<1>10. IdsDiffer(read)  BY <1>4, <1>7, <1>9 DEF IdsDiffer
<1> QED  BY <1>7, <1>8, <1>9, <1>10 DEF AreLoaded, read, spec

----------------------------------------------------------------------------
(* Every step of the form keeps its invariant.                             *)

\* The controls after a list was taken.
LEMMA LoadFits ==
    ASSUME NEW in, AreLoaded(in), Load(in)
    PROVE AreLoaded(listed') /\ Controls(fields') /\ generable' \in BOOLEAN
          /\ preview' = <<>> /\ current' = FALSE
<1> DEFINE same == WithId(in, selected)
           at == {i \in DOMAIN in : in[i].id = selected}
           f == IF same # <<>> THEN Shown(same[1])
                ELSE IF in # <<>> THEN Shown(in[1]) ELSE Defaults["heatmap"]
<1>1. listed' = in /\ Fill(f, in)  BY DEF Load
<1>2. same = Kept(in, at)  BY DEF WithId
<1>3. KeepsOf(same, in, at)
  <2>1. at \subseteq DOMAIN in  OBVIOUS
  <2> HIDE DEF at
  <2> QED  BY <1>2, <2>1, KeptFits DEF AreLoaded
<1> HIDE DEF same
<1>4. same # <<>> => \E i \in DOMAIN in : same[1] = in[i]
  BY <1>3, HasFirst DEF KeepsOf
<1>5. in # <<>> => 1 \in DOMAIN in  BY HasFirst DEF AreLoaded
<1>6. \A i \in DOMAIN in : in[i].type \in ChartTypes  BY DEF AreLoaded, IsLoaded, IsSpec
<1>7. Controls(f)
  <2>1. CASE same # <<>>  BY <1>4, <1>6, <2>1, ShownFits
  <2>2. CASE same = <<>> /\ in # <<>>  BY <1>5, <1>6, <2>2, ShownFits
  <2>3. CASE same = <<>> /\ in = <<>>  BY <2>3, DefaultsFit DEF ChartTypes
  <2> QED  BY <2>1, <2>2, <2>3
<1> HIDE DEF f
<1> QED  BY <1>1, <1>7 DEF Fill, ClearPreview

\* Nothing is waited for.
LEMMA NoCallFits ==
    IsCall(NoCall) /\ NoCall.kind = "no" /\ NoCall.stage = "no"
BY DEF NoCall, IsCall

\* No charts at all.
LEMMA NoChartsFit == AreLoaded(<<>>)
<1>1. DOMAIN <<>> = {} /\ IsSeq(<<>>)  BY DEF IsSeq
<1> QED  BY <1>1 DEF AreLoaded, IdsDiffer

\* How the form starts.
LEMMA FormStarts ==
    ASSUME ChartsAreLoaded, MaxSteps \in Nat, FormInit PROVE FormInv
<1>1. AreLoaded(charts)
  <2>1. charts \in StoredCharts  BY DEF FormInit
  <2>2. charts \in Seq({charts[i] : i \in DOMAIN charts}) /\ IdsDiffer(charts)
    BY <2>1 DEF ChartsAreLoaded, IdsDiffer
  <2>3. \A i \in DOMAIN charts : IsLoaded(charts[i])
    <3> SUFFICES ASSUME NEW i \in DOMAIN charts PROVE IsLoaded(charts[i])  OBVIOUS
    <3> DEFINE o == charts[i].options
    <3>1. IsChart(charts[i]) /\ charts[i].type \in ChartTypes /\ DOMAIN o = OptionKeys(charts[i].type)
      BY <2>1 DEF ChartsAreLoaded
    <3>2. \A k \in ListKeys \cap DOMAIN o : o[k] \in Seq({o[k][n] : n \in DOMAIN o[k]})
      BY <2>1, Zenon DEF ChartsAreLoaded
    <3>3. "values" \in DOMAIN o => IsSeq(o["values"])  BY <3>2, Zenon DEF ListKeys, IsSeq
    <3> QED  BY <3>1, <3>3 DEF IsLoaded, IsSpec
  <2> QED  BY <2>2, <2>3 DEF AreLoaded, IsSeq
<1>2. FormFits
  <2>1. Controls(fields)  BY DefaultsFit DEF FormInit, ChartTypes
  <2>2. AreLoaded(listed)  BY NoChartsFit DEF FormInit
  <2>3. steps \in 0..MaxSteps
    <3>1. steps = 0  BY Zenon DEF FormInit
    <3> QED  BY <3>1
  <2>4. shown \in BOOLEAN /\ opening \in BOOLEAN /\ generable \in BOOLEAN  BY DEF FormInit
  <2> QED  BY <1>1, <2>1, <2>2, <2>3, <2>4 DEF FormFits
<1>3. CallFits /\ ListFits  BY NoCallFits DEF FormInit, CallFits, ListFits
<1>4. PreviewFits  BY NoCallFits DEF FormInit, PreviewFits
<1> QED  BY <1>2, <1>3, <1>4 DEF FormInv

\* One more step of the user.
LEMMA ActsFit == ASSUME MaxSteps \in Nat, FormFits, Acts PROVE steps' \in 0..MaxSteps
BY DEF FormFits, Acts

\* The dialog and its list.
LEMMA DialogFits ==
    ASSUME MaxSteps \in Nat, FormInv, Open \/ ListServed \/ ListTaken \/ Cancel PROVE FormInv'
<1>0. FormFits /\ CallFits /\ ListFits /\ PreviewFits  BY DEF FormInv
<1>1. CASE Open
  <2>1. list'.kind = "list" /\ list'.stage = "posted" /\ IsCall(list')
    BY <1>1 DEF Open, NoCall, IsCall
  <2>2. steps' \in 0..MaxSteps  BY <1>0, <1>1, ActsFit DEF Open
  <2>3. FormFits'  BY <1>0, <1>1, <2>2 DEF Open, FormFits
  <2>4. ListFits'  BY <1>1, <2>1 DEF Open, ListFits
  <2>5. CallFits' /\ PreviewFits'  BY <1>0, <1>1 DEF Open, ClearPreview, CallFits, PreviewFits
  <2> QED  BY <2>3, <2>4, <2>5 DEF FormInv
<1>2. CASE ListServed
  <2>1. /\ list'.kind = list.kind /\ IsCall(list') /\ list'.stage \in {"done", "refused"}
        /\ list'.stage = "done" => list'.reply = charts
    BY <1>0, <1>2 DEF ListServed, ListFits, IsCall
  <2>2. ListFits'  BY <1>0, <1>2, <2>1 DEF ListServed, ListFits, FormFits
  <2>3. FormFits' /\ CallFits' /\ PreviewFits'
    BY <1>0, <1>2 DEF ListServed, FormFits, CallFits, PreviewFits
  <2> QED  BY <2>2, <2>3 DEF FormInv
<1>3. CASE ListTaken
  <2>1. ListFits'  BY <1>3, NoCallFits DEF ListTaken, ListFits
  <2>2. CallFits'  BY <1>0, <1>3 DEF ListTaken, CallFits
  <2>3. CASE list.stage = "done"
    <3>1. Load(list.reply) /\ AreLoaded(list.reply)  BY <1>0, <1>3, <2>3 DEF ListTaken, ListFits
    <3>2. AreLoaded(listed') /\ Controls(fields') /\ generable' \in BOOLEAN /\ preview' = <<>> /\ current' = FALSE
      BY <3>1, LoadFits
    <3> QED  BY <1>0, <1>3, <2>1, <2>2, <3>2 DEF ListTaken, FormInv, FormFits, PreviewFits
  <2>4. CASE list.stage # "done"
    BY <1>0, <1>3, <2>1, <2>2, <2>4 DEF ListTaken, FormInv, FormFits, PreviewFits
  <2> QED  BY <2>3, <2>4
<1>4. CASE Cancel
  <2>1. steps' \in 0..MaxSteps  BY <1>0, <1>4, ActsFit DEF Cancel
  <2> QED  BY <1>0, <1>4, <2>1 DEF Cancel, FormInv, FormFits, CallFits, ListFits, PreviewFits
<1> QED  BY <1>1, <1>2, <1>3, <1>4

\* What the user does to the controls.
LEMMA ControlsFit ==
    ASSUME MaxSteps \in Nat, FormInv, Edit \/ Choose \/ Start PROVE FormInv'
<1>0. FormFits /\ CallFits /\ ListFits /\ PreviewFits  BY DEF FormInv
<1>1. /\ steps' \in 0..MaxSteps /\ preview' = <<>> /\ current' = FALSE
      /\ UNCHANGED <<charts, shown, opening, listed, call, list>>
  BY <1>0, ActsFit DEF Edit, Choose, Start, Fill, ClearPreview
<1>2. Controls(fields') /\ generable' \in BOOLEAN
  <2>1. CASE Edit
    <3>1. fields' \in Edits /\ generable' = generable  BY <2>1 DEF Edit
    <3>2. \A f \in Edits : Controls(f)
      <4> SUFFICES ASSUME NEW f \in Edits PROVE Controls(f)  OBVIOUS
      <4>1. Controls(fields)  BY <1>0 DEF FormFits
      <4>2. \/ f = [fields EXCEPT !.runOnSave = ~fields.runOnSave]
            \/ \E m : f = [fields EXCEPT !.table = m]
            \/ \E c \in {"", Select("c2")} : f = [fields EXCEPT !.value2 = c]
            \/ f = [fields EXCEPT !.rolling = ~fields.rolling]
        BY DEF Edits
      <4>3. Select("c2") \in Columns \union {""}  BY DEF Select
      <4> QED  BY <4>1, <4>2, <4>3 DEF Controls
    <3> QED  BY <1>0, <3>1, <3>2 DEF FormFits
  <2>2. CASE Choose
    <3>1. PICK i \in DOMAIN listed : Fill(Shown(listed[i]), listed)  BY <2>2 DEF Choose
    <3>2. listed[i].type \in ChartTypes  BY <1>0 DEF FormFits, AreLoaded, IsLoaded, IsSpec
    <3> QED  BY <3>1, <3>2, ShownFits DEF Fill
  <2>3. CASE Start
    <3>1. PICK type \in ChartTypes : fields' = Defaults[type]  BY <2>3 DEF Start
    <3> QED  BY <2>3, <3>1, DefaultsFit DEF Start
  <2> QED  BY <2>1, <2>2, <2>3
<1> QED  BY <1>0, <1>1, <1>2 DEF FormInv, FormFits, CallFits, ListFits, PreviewFits

\* What the user asks of the server.
LEMMA AsksFit ==
    ASSUME MaxSteps \in Nat, FormInv, AskPreview \/ AskSave \/ AskGenerate PROVE FormInv'
<1>0. FormFits /\ CallFits /\ ListFits /\ PreviewFits  BY DEF FormInv
<1>1. /\ steps' \in 0..MaxSteps /\ generable' \in BOOLEAN
      /\ UNCHANGED <<charts, shown, opening, listed, fields, list>>
  BY <1>0, ActsFit DEF AskPreview, AskSave, AskGenerate, FormFits
<1>2. FormFits' /\ ListFits'  BY <1>0, <1>1 DEF FormFits, ListFits
<1>3. call.kind = "no"  BY DEF AskPreview, AskSave, AskGenerate, Free
<1>4. ASSUME NEW kind \in {"preview", "save", "generate"}, Post(kind)
      PROVE CallFits' /\ call'.kind = kind /\ call'.fields = fields
  <2>1. IsCall(call') /\ call'.kind = kind /\ call'.stage = "posted" /\ call'.fields = fields
    BY <1>4 DEF Post, IsCall
  <2> QED  BY <1>0, <2>1 DEF CallFits, FormFits
<1>5. CASE AskPreview
  <2>1. CASE Complete(fields)
    <3>1. Post("preview") /\ preview' = <<>>  BY <1>5, <2>1 DEF AskPreview
    <3>2. CallFits' /\ call'.fields = fields  BY <1>4, <3>1
    <3> QED  BY <1>1, <1>2, <3>1, <3>2 DEF FormInv, PreviewFits
  <2>2. CASE ~Complete(fields)
    <3>1. call' = call /\ preview' = <<>>  BY <1>5, <2>2 DEF AskPreview
    <3> QED  BY <1>0, <1>2, <1>3, <3>1 DEF FormInv, PreviewFits, CallFits
  <2> QED  BY <2>1, <2>2
<1>6. CASE AskSave \/ AskGenerate
  <2>1. \E kind \in {"save", "generate"} : Post(kind)  BY <1>6 DEF AskSave, AskGenerate
  <2>2. preview' = preview  BY <1>6 DEF AskSave, AskGenerate
  <2>3. CallFits' /\ call'.kind # "preview"  BY <1>4, <2>1
  <2> QED  BY <1>0, <1>1, <1>2, <2>2, <2>3 DEF FormInv, PreviewFits
<1> QED  BY <1>5, <1>6

\* What the server does.
LEMMA ServeFits ==
    ASSUME FormInv, Serve PROVE FormInv'
<1>0. FormFits /\ CallFits /\ ListFits /\ PreviewFits  BY DEF FormInv
<1>1. PICK ok \in BOOLEAN : Answered(ok)
  BY DEF Serve, Accepted
<1>2. /\ IsCall(call') /\ call'.kind = call.kind /\ call'.fields = call.fields
      /\ call'.stage \in {"done", "refused"}
      /\ call'.reply = IF ok /\ call.kind = "relist" THEN charts ELSE <<>>
      /\ call'.stage = IF ok THEN "done" ELSE "refused"
  BY <1>0, <1>1 DEF Answered, CallFits, IsCall
<1>3. call.kind # "no"  BY <1>0 DEF Serve, CallFits
<1>4. CallFits'
  BY <1>0, <1>2, <1>3 DEF CallFits, FormFits
<1>5. AreLoaded(charts')
  <2>1. charts' = charts \/ (call.kind = "save" /\ charts' = Stored(SpecOfForm(call.fields)))
    BY DEF Serve
  <2>2. call.fields.type \in ChartTypes  BY <1>0, <1>3 DEF CallFits, Controls
  <2> QED  BY <1>0, <2>1, <2>2, SavedFits DEF FormFits
<1>6. FormFits' /\ ListFits'  BY <1>0, <1>5 DEF Serve, FormFits, ListFits
<1>7. PreviewFits'  BY <1>0, <1>2 DEF Serve, PreviewFits
<1> QED  BY <1>4, <1>6, <1>7 DEF FormInv

\* What comes back.
LEMMA AnswerFits ==
    ASSUME FormInv, Answer PROVE FormInv'
<1>0. FormFits /\ CallFits /\ ListFits /\ PreviewFits  BY DEF FormInv
<1>1. CASE PreviewTaken
  <2>1. call' = NoCall /\ call.kind = "preview"
        /\ preview' = (IF current THEN <<call.fields>> ELSE preview)
        /\ UNCHANGED <<charts, shown, opening, listed, selected, fields, current, generable, list, steps>>
    BY <1>1 DEF PreviewTaken, IsAt
  <2>2. FormFits' /\ CallFits' /\ ListFits'  BY <1>0, <2>1, NoCallFits DEF FormFits, CallFits, ListFits
  <2>3. PreviewFits'  BY <1>0, <2>1, NoCallFits DEF PreviewFits
  <2> QED  BY <2>2, <2>3 DEF FormInv
<1>2. CASE GenerateTaken \/ Refused
  <2>1. call' = NoCall /\ generable' \in BOOLEAN
        /\ UNCHANGED <<charts, shown, opening, listed, selected, fields, preview, current, list, steps>>
    BY <1>0, <1>2 DEF GenerateTaken, Refused, FormFits
  <2> QED  BY <1>0, <2>1, NoCallFits DEF FormInv, FormFits, CallFits, ListFits, PreviewFits
<1>3. CASE SaveTaken
  <2>1. /\ IsCall(call') /\ call'.kind = "relist" /\ call'.stage = "posted" /\ call'.fields = call.fields
        /\ call.kind = "save"
        /\ UNCHANGED <<charts, shown, opening, listed, fields, preview, current, generable, list, steps>>
    BY <1>0, <1>3 DEF SaveTaken, IsAt, CallFits, IsCall
  <2>2. CallFits'  BY <1>0, <2>1 DEF CallFits
  <2> QED  BY <1>0, <2>1, <2>2 DEF FormInv, FormFits, ListFits, PreviewFits
<1>4. CASE RelistTaken
  <2>1. call' = NoCall /\ shown' = FALSE /\ Load(call.reply) /\ AreLoaded(call.reply)
        /\ UNCHANGED <<charts, opening, list, steps>>
    BY <1>0, <1>4 DEF RelistTaken, IsAt, CallFits
  <2>2. AreLoaded(listed') /\ Controls(fields') /\ generable' \in BOOLEAN /\ preview' = <<>> /\ current' = FALSE
    BY <2>1, LoadFits
  <2> QED  BY <1>0, <2>1, <2>2, NoCallFits DEF FormInv, FormFits, CallFits, ListFits, PreviewFits
<1> QED  BY <1>1, <1>2, <1>3, <1>4 DEF Answer

\* Every step.
LEMMA FormSteps ==
    ASSUME MaxSteps \in Nat, FormInv, [FormNext]_formVars PROVE FormInv'
<1>1. CASE UNCHANGED formVars
  <2>1. UNCHANGED <<charts, shown, opening, listed, selected, fields, preview, current, generable, call, list, steps>>
    BY <1>1 DEF formVars
  <2> QED  BY <2>1 DEF FormInv, FormFits, CallFits, ListFits, PreviewFits
<1>2. CASE FormNext
  BY <1>2, DialogFits, ControlsFit, AsksFit, ServeFits, AnswerFits DEF FormNext
<1> QED  BY <1>1, <1>2

\* FormInv is inductive, for charts as they are loaded.
LEMMA FormInvariant == FormSpec => []FormInv
<1>1. FormInit => FormInv  BY FormStarts, FormAssumption
<1>2. FormInv /\ [FormNext]_formVars => FormInv'  BY FormSteps, FormAssumption
<1> QED  BY <1>1, <1>2, PTL DEF FormSpec

\* A preview that is visible was drawn from what the controls hold, whatever is
\* edited, chosen, opened or answered in between.
THEOREM PreviewIsOfTheFormCorrect == FormSpec => []PreviewIsOfTheForm
<1>1. FormInv => PreviewIsOfTheForm  BY DEF FormInv, PreviewFits, PreviewIsOfTheForm
<1> QED  BY <1>1, FormInvariant, PTL

\* The types of the form, and no chart twice in the list.
THEOREM FormTypesCorrect == FormSpec => []FormTypeOK
<1>1. FormInv => FormTypeOK
  BY DEF FormInv, FormFits, CallFits, ListFits, Controls, AreLoaded, IdsDiffer, FormTypeOK, Free
<1> QED  BY <1>1, FormInvariant, PTL

----------------------------------------------------------------------------
(* From a chart to the controls and back.                                  *)

\* The keys of a type that the form has controls for.
DrawnKeys(type) == OptionKeys(type) \ {"xLabel", "yLabel", "values", "value", "y"}

FirstTwo(v) == [i \in {1, 2} \cap DOMAIN v |-> v[i]]

ListsValues(c) == c.type = "heatmap" /\ Option(c, "values") # <<>>

\* Charts of one name, type and output are drawn alike when their values and options are.
LEMMA DrawnEqual ==
    ASSUME NEW c, NEW d, c.id = d.id, c.type = d.type, c.output = d.output, c.runOnSave = d.runOnSave,
           FirstTwo(ValueSpecs(c)) = FirstTwo(ValueSpecs(d)), ListsValues(c) = ListsValues(d),
           \A k \in DrawnKeys(c.type) : DrawnOption(c.options, k) = DrawnOption(d.options, k)
    PROVE Drawn(c) = Drawn(d)
<1>1. \A e : Drawn(e) =
         [id |-> e.id, type |-> e.type, output |-> e.output, runOnSave |-> e.runOnSave,
          values |-> FirstTwo(ValueSpecs(e)), names |-> ListsValues(e),
          options |-> [k \in DrawnKeys(e.type) |-> DrawnOption(e.options, k)]]
  BY Zenon DEF Drawn, FirstTwo, ListsValues, DrawnKeys
<1>2. [k \in DrawnKeys(c.type) |-> DrawnOption(c.options, k)]
        = [k \in DrawnKeys(d.type) |-> DrawnOption(d.options, k)]
  OBVIOUS
<1> QED  BY <1>1, <1>2

\* A choice that is not given is the default, however it is spelt.
LEMMA StyleDefault ==
    ASSUME NEW k \in StyleKeys
    PROVE Style(k, "") = Default(k) /\ Style(k, Default(k)) = Default(k) /\ Empty(k) = ""
<1>1. DOMAIN Spelt = {"horizontal", "vertical", "Diverging", "Grouped"}  BY DEF Spelt
<1>2. Default(k) \in {"months-horizontal", "sequential", "stacked"} /\ k \notin ListKeys
  BY DEF StyleKeys, Default, ListKeys
<1> QED  BY <1>1, <1>2 DEF Style, Empty

\* A length is the same when it is read again.
LEMMA LookbackAgain == ASSUME NEW t PROVE Lookback(Lookback(t)) = Lookback(t) /\ Lookback("") = ""
BY DEF Lookback

\* The keys that the form has controls for, and what they are when nothing is said.
LEMMA DrawnKeysFit ==
    ASSUME NEW type \in ChartTypes
    PROVE /\ SingleValue(type) \notin DrawnKeys(type)
          /\ \A k \in DrawnKeys(type) \ (StyleKeys \union {"date"}) : Default(k) = Empty(k)
          /\ "end" \in DrawnKeys(type) => "lookback" \in DrawnKeys(type)
          /\ type # "markdown-table" => {"values", SingleValue(type)} \subseteq OptionKeys(type) \ {"sql"}
          /\ Default(SingleValue(type)) = "" /\ Empty(SingleValue(type)) = "" /\ Empty("values") = <<>>
          /\ type = "markdown-table" => {"values", SingleValue(type)} \cap OptionKeys(type) = {}
<1>1. CASE type = "heatmap"
  BY <1>1 DEF OptionKeys, DrawnKeys, SingleValue, Default, Empty, ListKeys, StyleKeys
<1>2. CASE type = "bar"
  BY <1>2 DEF OptionKeys, DrawnKeys, SingleValue, Default, Empty, ListKeys, StyleKeys
<1>3. CASE type = "line"
  BY <1>3 DEF OptionKeys, DrawnKeys, SingleValue, Default, Empty, ListKeys, StyleKeys
<1>4. CASE type = "markdown-table"
  BY <1>4 DEF OptionKeys, DrawnKeys, SingleValue, Default, Empty, ListKeys, StyleKeys
<1> QED  BY <1>1, <1>2, <1>3, <1>4 DEF ChartTypes

\* The values of a list, or of the single column beside it.
ValuesOf(values, single) ==
    IF values # <<>> THEN values ELSE IF single # "" THEN <<Plain(single)>> ELSE <<>>

\* The values of a spec.
LEMMA ValuesFit ==
    ASSUME NEW c, IsSpec(c)
    PROVE /\ c.type = "markdown-table" => ValueSpecs(c) = <<>> /\ Option(c, "values") = <<>>
          /\ c.type # "markdown-table" =>
               /\ ValueSpecs(c) = ValuesOf(c.options["values"], c.options[SingleValue(c.type)])
               /\ Option(c, "values") = c.options["values"]
<1>1. c.type \in ChartTypes /\ DOMAIN c.options = OptionKeys(c.type)  BY DEF IsSpec
<1>2. CASE c.type = "markdown-table"
  <2>1. Option(c, "values") = <<>> /\ Option(c, SingleValue(c.type)) = ""
    BY <1>1, <1>2, DrawnKeysFit DEF Option
  <2> QED  BY <1>2, <2>1 DEF ValueSpecs
<1>3. CASE c.type # "markdown-table"
  <2>1. /\ Option(c, "values") = c.options["values"]
        /\ Option(c, SingleValue(c.type)) = c.options[SingleValue(c.type)]
    BY <1>1, <1>3, DrawnKeysFit DEF Option
  <2> QED  BY <1>3, <2>1 DEF ValueSpecs, ValuesOf
<1> QED  BY <1>2, <1>3

\* What is written and read again is drawn as it was.
LEMMA DrawnStored ==
    ASSUME NEW s, IsSpec(s) PROVE Drawn(SpecOf(Entry(s))) = Drawn(s)
<1> DEFINE t == SpecOf(Entry(s))
<1>1. EntryOf(s, t)  BY EntryKeeps
<1> HIDE DEF t
<1>2. IsSpec(t) /\ SameButOptions(s, t) /\ s.type \in ChartTypes /\ IsChart(s)
  BY <1>1 DEF EntryOf, IsSpec
<1>3. s.id = t.id /\ s.type = t.type /\ s.output = t.output /\ s.runOnSave = t.runOnSave
  BY <1>2, SameFields
<1>4. \A k \in OptionKeys(s.type) :
        \/ t.options[k] = s.options[k]
        \/ t.options[k] = Default(k) /\ s.options[k] = Empty(k) /\ k # "date"
        \/ k = SingleValue(s.type) /\ s.options["values"] # <<>>
  BY <1>1 DEF EntryOf
<1>5. ValueSpecs(t) = ValueSpecs(s) /\ Option(t, "values") = Option(s, "values")
  <2>1. CASE s.type = "markdown-table"  BY <1>2, <1>3, <2>1, ValuesFit
  <2>2. CASE s.type # "markdown-table"
    <3> DEFINE single == SingleValue(s.type)
    <3>1. {"values", single} \subseteq OptionKeys(s.type)  BY <1>2, <2>2, DrawnKeysFit
    <3>2. t.options["values"] = s.options["values"]  BY <1>1, <3>1 DEF EntryOf
    <3>3. t.options[single] = s.options[single] \/ s.options["values"] # <<>>
      BY <1>2, <1>4, <3>1, DrawnKeysFit
    <3>4. ValuesOf(t.options["values"], t.options[single])
            = ValuesOf(s.options["values"], s.options[single])
      BY <3>2, <3>3 DEF ValuesOf
    <3> QED  BY <1>2, <1>3, <2>2, <3>2, <3>4, ValuesFit
  <2> QED  BY <2>1, <2>2
<1>6. ASSUME NEW k \in DrawnKeys(s.type) PROVE DrawnOption(t.options, k) = DrawnOption(s.options, k)
  <2>1. \A j \in DrawnKeys(s.type) :
          \/ t.options[j] = s.options[j]
          \/ t.options[j] = Default(j) /\ s.options[j] = Empty(j) /\ j # "date"
    BY <1>2, <1>4, DrawnKeysFit DEF DrawnKeys
  <2>2. \A j \in DrawnKeys(s.type) \ StyleKeys : t.options[j] = s.options[j]
    BY <1>2, <2>1, DrawnKeysFit
  <2>3. CASE k \in StyleKeys
    <3>1. Style(k, t.options[k]) = Style(k, s.options[k])  BY <2>1, <2>3, StyleDefault
    <3>2. k # "end" /\ k # "lookback"  BY <2>3 DEF StyleKeys
    <3> QED  BY <2>3, <3>1, <3>2 DEF DrawnOption
  <2>4. CASE k \notin StyleKeys
    <3>1. k = "end" => t.options["lookback"] = s.options["lookback"]
      BY <1>2, <2>2, DrawnKeysFit DEF StyleKeys
    <3> QED  BY <2>2, <2>4, <3>1 DEF DrawnOption
  <2> QED  BY <2>3, <2>4
<1>7. ListsValues(s) = ListsValues(t)  BY <1>3, <1>5 DEF ListsValues
<1> QED  BY <1>3, <1>5, <1>6, <1>7, DrawnEqual DEF t

\* A chart that the form holds, and the form that was filled from it.
IsShown(c, f) == IsLoaded(c) /\ FormHolds(c) /\ FieldsAreValid(c) /\ f = Shown(c)

\* What the form takes over as it is.
LEMMA ShownFields ==
    ASSUME NEW c, NEW f, IsShown(c, f)
    PROVE /\ IsSpec(c) /\ c.type \in ChartTypes /\ DOMAIN c.options = OptionKeys(c.type)
          /\ f.type = c.type /\ f.id = c.id /\ f.output = c.output /\ f.runOnSave = c.runOnSave
          /\ SanitizeChartId(Trim(f.id)) = c.id /\ Trim(f.output) = c.output
          /\ "title" \in OptionKeys(c.type) => Trim(f.title) = c.options["title"]
<1>1. IsSpec(c) /\ c.type \in ChartTypes /\ DOMAIN c.options = OptionKeys(c.type)
  BY DEF IsShown, IsLoaded, IsSpec
<1>2. /\ f.type = c.type /\ f.id = c.id /\ f.output = c.output /\ f.runOnSave = c.runOnSave
      /\ f.title = Option(c, "title")
  BY DEF IsShown, Shown
<1>3. /\ SanitizeChartId(Trim(c.id)) = c.id /\ Trim(c.output) = c.output
      /\ Trim(Option(c, "title")) = Option(c, "title")
  BY DEF IsShown, FormHolds
<1>4. "title" \in OptionKeys(c.type) => Option(c, "title") = c.options["title"]  BY <1>1 DEF Option
<1> QED  BY <1>1, <1>2, <1>3, <1>4

\* The selects of a chart name the columns it has.
LEMMA SelectShows ==
    ASSUME NEW c, NEW f, IsShown(c, f)
    PROVE /\ DateKey(c.type) \in OptionKeys(c.type) => f.date = c.options[DateKey(c.type)]
          /\ LabelKey(c.type) \in OptionKeys(c.type) => f.label = c.options[LabelKey(c.type)]
<1>1. \A x \in Columns \union {""} : Select(x) = x  BY DEF Select
<1>2. DateKey(c.type) \in {"date", "label", "x"} /\ LabelKey(c.type) \in {"series", "label"}
  BY DEF DateKey, LabelKey
<1>3. DOMAIN c.options = OptionKeys(c.type)  BY ShownFields
<1>4. \A k \in {"date", "label", "x", "series"} \cap OptionKeys(c.type) : c.options[k] \in Columns \union {""}
  BY <1>3 DEF IsShown, FormHolds
<1>5. f.date = Select(Option(c, DateKey(c.type))) /\ f.label = Select(Option(c, LabelKey(c.type)))
  BY DEF IsShown, Shown
<1> HIDE DEF DateKey, LabelKey
<1>6. \A k \in OptionKeys(c.type) : Option(c, k) = c.options[k]  BY <1>3 DEF Option
<1> QED  BY <1>1, <1>2, <1>4, <1>5, <1>6

\* The values of a chart that the form holds are a list of columns by their names,
\* and the first two are in the selects.
LEMMA ValuesShown ==
    ASSUME NEW c, NEW f, IsShown(c, f), NEW v, v = ValueSpecs(c)
    PROVE /\ IsSeq(v)
          /\ \A i \in {1, 2} \cap DOMAIN v : v[i] = Plain(v[i].column) /\ v[i].column # ""
          /\ f.value = (IF 1 \in DOMAIN v THEN v[1].column ELSE "")
          /\ f.value2 = (IF 2 \in DOMAIN v THEN v[2].column ELSE "")
<1>1. IsSeq(v)
  <2>1. IsSpec(c) /\ c.type \in ChartTypes  BY ShownFields
  <2>2. CASE c.type = "markdown-table"  BY <2>1, <2>2, ValuesFit, ShortSeqs
  <2>3. CASE c.type # "markdown-table"
    <3>1. "values" \in DOMAIN c.options  BY <2>1, <2>3, DrawnKeysFit DEF IsSpec
    <3>2. IsSeq(c.options["values"])  BY <3>1 DEF IsShown, IsLoaded
    <3>3. v = ValuesOf(c.options["values"], c.options[SingleValue(c.type)])  BY <2>1, <2>3, ValuesFit
    <3>4. IsSeq(<<>>) /\ \A x : IsSeq(<<x>>)  BY ShortSeqs
    <3> QED  BY <3>2, <3>3, <3>4, Zenon DEF ValuesOf
  <2> QED  BY <2>2, <2>3
<1>2. ASSUME NEW i \in {1, 2} \cap DOMAIN v
      PROVE v[i] = Plain(v[i].column) /\ v[i].column \in Columns
  <2>1. v[i] \in {Plain(column) : column \in Columns}  BY <1>2 DEF IsShown, FormHolds
  <2>2. PICK column \in Columns : v[i] = Plain(column)  BY <2>1
  <2>3. Plain(column).column = column  BY DEF Plain
  <2> QED  BY <2>2, <2>3, Zenon
<1>3. "" \notin Columns  BY FormAssumption
<1>4. f.value = Select(ValueColumn(c, 1)) /\ f.value2 = Select(ValueColumn(c, 2))
  BY DEF IsShown, Shown
<1>5. \A i : ValueColumn(c, i) = IF i \in DOMAIN v THEN v[i].column ELSE ""  BY DEF ValueColumn
<1>6. \A x \in Columns \union {""} : Select(x) = x  BY DEF Select
<1>7. /\ (1 \in DOMAIN v => v[1].column \in Columns) /\ (2 \in DOMAIN v => v[2].column \in Columns)
  BY <1>2
<1> QED  BY <1>1, <1>2, <1>3, <1>4, <1>5, <1>6, <1>7

\* One value, more of them, or none.
LEMMA HowMany ==
    ASSUME NEW v, IsSeq(v)
    PROVE \/ v = <<>> /\ DOMAIN v = {}
          \/ 1 \in DOMAIN v /\ 2 \notin DOMAIN v /\ Len(v) = 1
          \/ 1 \in DOMAIN v /\ 2 \in DOMAIN v /\ Len(v) > 1
<1>1. Len(v) \in Nat /\ DOMAIN v = 1..Len(v)  BY SeqIsFunction
<1>2. CASE v = <<>>  BY <1>2, ShortSeqs
<1>3. CASE v # <<>>
  <2>1. 1 \in DOMAIN v  BY <1>3, HasFirst
  <2> QED  BY <1>1, <2>1
<1> QED  BY <1>2, <1>3

\* The selects give back the first two values, as one or as several.
LEMMA SelectedComes ==
    ASSUME NEW c, NEW f, IsShown(c, f), NEW v, v = ValueSpecs(c)
    PROVE Selected(f) = IF v = <<>> THEN <<>>
                        ELSE IF 2 \in DOMAIN v THEN <<v[1], v[2]>> ELSE <<v[1]>>
<1>1. /\ IsSeq(v)
      /\ \A i \in {1, 2} \cap DOMAIN v : v[i] = Plain(v[i].column) /\ v[i].column # ""
      /\ f.value = (IF 1 \in DOMAIN v THEN v[1].column ELSE "")
      /\ f.value2 = (IF 2 \in DOMAIN v THEN v[2].column ELSE "")
  BY ValuesShown
<1>2. CASE v = <<>>
  <2>1. f.value = "" /\ f.value2 = ""  BY <1>1, <1>2, ShortSeqs
  <2> QED  BY <1>2, <2>1, SelectedFits
<1>3. CASE 1 \in DOMAIN v /\ 2 \notin DOMAIN v /\ v # <<>>
  <2>1. f.value = v[1].column /\ f.value # "" /\ f.value2 = "" /\ v[1] = Plain(f.value)  BY <1>1, <1>3
  <2> QED  BY <1>3, <2>1, SelectedFits
<1>4. CASE 1 \in DOMAIN v /\ 2 \in DOMAIN v /\ v # <<>>
  <2>1. /\ f.value # "" /\ f.value2 # "" /\ v[1] = Plain(f.value) /\ v[2] = Plain(f.value2)
    BY <1>1, <1>4
  <2> QED  BY <1>4, <2>1, SelectedFits
<1>5. 1 \in DOMAIN v => v # <<>>  BY ShortSeqs
<1> QED  BY <1>1, <1>2, <1>3, <1>4, <1>5, HowMany

\* The keys of what the form posts, and its values.
LEMMA KeysPosted ==
    ASSUME NEW f, f.type \in ChartTypes
    PROVE /\ DrawnKeys(f.type) \ {"sql"} \subseteq DOMAIN Payload(f)
          /\ f.type # "markdown-table" =>
               /\ {"values", SingleValue(f.type)} \subseteq DOMAIN Payload(f)
               /\ Payload(f)["values"] = IF Len(Selected(f)) > 1 THEN Selected(f) ELSE <<>>
               /\ Payload(f)[SingleValue(f.type)] = IF Len(Selected(f)) = 1 THEN Selected(f)[1].column ELSE ""
<1>1. CASE f.type = "heatmap"  BY <1>1 DEF Payload, DrawnKeys, OptionKeys, SingleValue
<1>2. CASE f.type = "bar"  BY <1>2 DEF Payload, DrawnKeys, OptionKeys, SingleValue
<1>3. CASE f.type = "line"  BY <1>3 DEF Payload, DrawnKeys, OptionKeys, SingleValue
<1>4. CASE f.type = "markdown-table"  BY <1>4 DEF Payload, DrawnKeys, OptionKeys
<1> QED  BY <1>1, <1>2, <1>3, <1>4 DEF ChartTypes

\* The first two values come back from the form, and a heatmap that lists its
\* values goes on listing them.
LEMMA ValuesPosted ==
    ASSUME NEW c, NEW f, IsShown(c, f), c.type # "markdown-table", NEW p, p = Payload(f)
    PROVE /\ FirstTwo(ValuesOf(p["values"], p[SingleValue(c.type)])) = FirstTwo(ValueSpecs(c))
          /\ c.type = "heatmap" => (p["values"] # <<>> <=> c.options["values"] # <<>>)
          /\ Len(Selected(f)) > 1 => Len(c.options["values"]) > 1
<1> DEFINE v == ValueSpecs(c)
           single == SingleValue(c.type)
           own == c.options["values"]
           n == ValuesOf(p["values"], p[single])
           s == Selected(f)
<1>1. v = ValuesOf(own, c.options[single]) /\ f.type = c.type /\ c.type \in ChartTypes
  BY ShownFields, ValuesFit
<1>2. /\ p["values"] = (IF Len(s) > 1 THEN s ELSE <<>>)
      /\ p[single] = (IF Len(s) = 1 THEN s[1].column ELSE "")
  BY <1>1, KeysPosted
<1>3. /\ s = IF v = <<>> THEN <<>> ELSE IF 2 \in DOMAIN v THEN <<v[1], v[2]>> ELSE <<v[1]>>
      /\ IsSeq(v) /\ \A i \in {1, 2} \cap DOMAIN v : v[i] = Plain(v[i].column) /\ v[i].column # ""
  BY SelectedComes, ValuesShown
<1>4. c.type = "heatmap" => Len(own) # 1  BY DEF IsShown, FormHolds
<1>5. n = IF p["values"] # <<>> THEN p["values"] ELSE IF p[single] # "" THEN <<Plain(p[single])>> ELSE <<>>
  BY DEF ValuesOf
<1>6. /\ own # <<>> => v = own
      /\ own = <<>> => v = <<>> \/ \E d : v = <<d>>
  BY <1>1 DEF ValuesOf
<1> HIDE DEF v, single, own, n, s
<1>7. CASE v = <<>> /\ DOMAIN v = {}
  <2>1. s = <<>> /\ Len(s) = 0  BY <1>3, <1>7, ShortSeqs
  <2>4. ~(Len(s) > 1) /\ Len(s) # 1  BY <2>1
  <2>2. p["values"] = <<>> /\ p[single] = ""  BY <1>2, <2>4, Zenon
  <2>3. n = <<>> /\ own = <<>>  BY <1>5, <1>6, <1>7, <2>2
  <2> QED  BY <1>7, <2>1, <2>2, <2>3 DEF v, single, own, n, s
<1>8. CASE 1 \in DOMAIN v /\ 2 \notin DOMAIN v /\ Len(v) = 1
  <2>1. v # <<>>  BY <1>8, ShortSeqs
  <2>2. s = <<v[1]>> /\ Len(s) = 1 /\ s[1] = v[1]  BY <1>3, <1>8, <2>1, ShortSeqs
  <2>3. p["values"] = <<>> /\ p[single] = v[1].column  BY <1>2, <2>2
  <2>4. n = <<v[1]>>  BY <1>3, <1>5, <1>8, <2>3
  <2>5. FirstTwo(n) = FirstTwo(v)
    <3>1. DOMAIN n = {1} /\ n[1] = v[1]  BY <2>4, ShortSeqs
    <3>2. {1, 2} \cap DOMAIN n = {1} /\ {1, 2} \cap DOMAIN v = {1}  BY <1>8, <3>1
    <3> QED  BY <3>1, <3>2 DEF FirstTwo
  <2>6. c.type = "heatmap" => own = <<>>  BY <1>4, <1>6, <1>8
  <2>7. ~(Len(s) > 1)  BY <2>2
  <2> QED  BY <2>3, <2>5, <2>6, <2>7 DEF v, single, own, n, s
<1>9. CASE 1 \in DOMAIN v /\ 2 \in DOMAIN v /\ Len(v) > 1
  <2>1. v # <<>>  BY <1>9, ShortSeqs
  <2>2. s = <<v[1], v[2]>> /\ Len(s) = 2 /\ DOMAIN s = {1, 2} /\ s[1] = v[1] /\ s[2] = v[2]
    <3>1. s = <<v[1], v[2]>>  BY <1>3, <1>9, <2>1
    <3> QED  BY <3>1, ShortSeqs
  <2>3. s # <<>> /\ Len(s) > 1  BY <2>2, ShortSeqs
  <2>4. p["values"] = s /\ n = s  BY <1>2, <1>5, <2>3
  <2>5. FirstTwo(n) = FirstTwo(v)
    <3>1. {1, 2} \cap DOMAIN n = {1, 2} /\ {1, 2} \cap DOMAIN v = {1, 2}  BY <1>9, <2>2, <2>4
    <3>2. \A i \in {1, 2} : n[i] = v[i]  BY <2>2, <2>4
    <3> QED  BY <3>1, <3>2 DEF FirstTwo
  <2>6. own # <<>> /\ v = own
    <3>1. \A d : v # <<d>>
      <4>1. \A d : 2 \notin DOMAIN <<d>>  BY ShortSeqs
      <4> QED  BY <1>9, <4>1
    <3> QED  BY <1>6, <2>1, <3>1
  <2> QED  BY <1>9, <2>3, <2>4, <2>5, <2>6 DEF v, single, own, n, s
<1> QED  BY <1>3, <1>7, <1>8, <1>9, HowMany

\* A choice comes back from its select, or says nothing where it was the default.
LEMMA StyleComes ==
    ASSUME NEW c, NEW f, IsShown(c, f), NEW k \in StyleKeys, k \in OptionKeys(c.type)
    PROVE Style(k, f.style[k]) = Style(k, c.options[k])
<1>1. k \in DOMAIN c.options  BY ShownFields
<1>2. f.style[k] = SelectOption(k, c.options[k])  BY <1>1 DEF IsShown, Shown
<1>3. c.options[k] \in Choices(k) \/ Style(k, c.options[k]) = Default(k)
  BY <1>1 DEF IsShown, FormHolds
<1>4. Style(k, "") = Default(k)  BY StyleDefault
<1> QED  BY <1>2, <1>3, <1>4 DEF SelectOption

\* A range comes back: a length in its shortest spelling, or two dates that the server takes.
LEMMA RangePosted ==
    ASSUME NEW c, NEW f, IsShown(c, f), c.type = "heatmap", HeatmapRange(Payload(f)),
           NEW k \in {"start", "end", "lookback"}
    PROVE DrawnOption(Payload(f), k) = DrawnOption(c.options, k)
<1> DEFINE o == c.options
           p == Payload(f)
<1>1. {"start", "end", "lookback"} \subseteq DOMAIN o  BY ShownFields DEF OptionKeys
<1>2. /\ f.rolling = (o.lookback # "") /\ f.lookback = parseLookback(o.lookback)
      /\ f.start = DateShown(o.start) /\ f.end = DateShown(o.end)
  BY <1>1 DEF IsShown, Shown, Option
<1>3. f.type = "heatmap"  BY ShownFields
<1>4. /\ p.lookback = (IF f.rolling THEN f.lookback ELSE "")
      /\ p.start = (IF f.rolling THEN "" ELSE f.start)
      /\ p.end = (IF f.rolling THEN "" ELSE f.end)
  BY <1>3 DEF Payload
<1>5. HeatmapRange(p)  OBVIOUS
<1>6. o.lookback # "" => /\ o.start = "" /\ Lookback(o.lookback) # ""
                         /\ parseLookback(o.lookback) = Lookback(o.lookback)
  BY DEF IsShown, FieldsAreValid, FormHolds, HeatmapRange
<1> HIDE DEF o, p
<1>7. CASE o.lookback # ""
  <2>1. p.lookback = Lookback(o.lookback) /\ p.lookback # "" /\ p.start = o.start
    BY <1>2, <1>4, <1>6, <1>7
  <2>2. Lookback(p.lookback) = Lookback(o.lookback)  BY <2>1, LookbackAgain
  <2> QED  BY <1>7, <2>1, <2>2 DEF DrawnOption, StyleKeys, o, p
<1>8. CASE o.lookback = ""
  <2>1. p.lookback = "" /\ p.start = DateShown(o.start) /\ p.end = DateShown(o.end)
    BY <1>2, <1>4, <1>8
  <2>2. p.start # "" /\ p.end # ""  BY <1>5, <2>1 DEF HeatmapRange
  <2>3. p.start = o.start /\ p.end = o.end  BY <2>1, <2>2 DEF DateShown
  <2> QED  BY <1>8, <2>1, <2>3 DEF DrawnOption, StyleKeys, o, p
<1> QED  BY <1>7, <1>8

\* The options come back from the form, when the server takes them.
LEMMA OptionsPosted ==
    ASSUME NEW c, NEW f, IsShown(c, f), c.type = "heatmap" => HeatmapRange(Payload(f)),
           NEW k \in DrawnKeys(c.type) \ {"sql"}
    PROVE DrawnOption(Payload(f), k) = DrawnOption(c.options, k)
<1> DEFINE o == c.options
           p == Payload(f)
<1>1. c.type \in ChartTypes /\ DOMAIN o = OptionKeys(c.type) /\ f.type = c.type  BY ShownFields
<1>2. "title" \in OptionKeys(c.type) => Trim(f.title) = o.title  BY ShownFields
<1>3. \A j \in StyleKeys \cap OptionKeys(c.type) : Style(j, f.style[j]) = Style(j, o[j])
  BY StyleComes
<1>4. CASE c.type = "heatmap"
  <2>1. k \in {"date", "start", "end", "lookback", "label", "orientation", "title"}
    BY <1>4 DEF DrawnKeys, OptionKeys
  <2>2. f.date = o.date /\ f.label = o.label  BY <1>4, SelectShows DEF DateKey, LabelKey, OptionKeys
  <2>3. /\ p.date = f.date /\ p.label = f.label /\ p.title = Trim(f.title)
        /\ p.orientation = f.style.orientation
    BY <1>1, <1>4 DEF Payload
  <2>4. "title" \in OptionKeys(c.type) /\ "orientation" \in StyleKeys \cap OptionKeys(c.type)
    BY <1>4 DEF OptionKeys, StyleKeys
  <2>5. p.title = o.title /\ Style("orientation", p.orientation) = Style("orientation", o.orientation)
    BY <1>2, <1>3, <2>3, <2>4
  <2> HIDE DEF o, p
  <2>6. CASE k \in {"start", "end", "lookback"}  BY <1>4, <2>6, RangePosted DEF o, p
  <2>7. CASE k \in {"date", "label", "orientation", "title"}
    BY <2>2, <2>3, <2>5, <2>7 DEF DrawnOption, StyleKeys, o, p
  <2> QED  BY <2>1, <2>6, <2>7
<1>5. CASE c.type = "bar"
  <2>1. k \in {"label", "colorScheme", "presentation", "title"}  BY <1>5 DEF DrawnKeys, OptionKeys
  <2>2. f.date = o.label  BY <1>5, SelectShows DEF DateKey, OptionKeys
  <2>3. /\ p.label = f.date /\ p.title = Trim(f.title)
        /\ p.colorScheme = f.style.colorScheme /\ p.presentation = f.style.presentation
    BY <1>1, <1>5 DEF Payload
  <2>4. "title" \in OptionKeys(c.type) /\ {"colorScheme", "presentation"} \subseteq StyleKeys \cap OptionKeys(c.type)
    BY <1>5 DEF OptionKeys, StyleKeys
  <2>5. /\ p.title = o.title /\ Style("colorScheme", p.colorScheme) = Style("colorScheme", o.colorScheme)
        /\ Style("presentation", p.presentation) = Style("presentation", o.presentation)
    BY <1>2, <1>3, <2>3, <2>4
  <2> HIDE DEF o, p
  <2> QED  BY <2>1, <2>2, <2>3, <2>5 DEF DrawnOption, StyleKeys, o, p
<1>6. CASE c.type = "line"
  <2>1. k \in {"x", "colorScheme", "series", "title"}  BY <1>6 DEF DrawnKeys, OptionKeys
  <2>2. f.date = o.x /\ f.label = o.series  BY <1>6, SelectShows DEF DateKey, LabelKey, OptionKeys
  <2>3. /\ p.x = f.date /\ p.title = Trim(f.title) /\ p.colorScheme = f.style.colorScheme
        /\ p.series = (IF Len(Selected(f)) > 1 THEN "" ELSE f.label)
    BY <1>1, <1>6 DEF Payload
  <2>4. "title" \in OptionKeys(c.type) /\ "colorScheme" \in StyleKeys \cap OptionKeys(c.type)
    BY <1>6 DEF OptionKeys, StyleKeys
  <2>5. p.title = o.title /\ Style("colorScheme", p.colorScheme) = Style("colorScheme", o.colorScheme)
    BY <1>2, <1>3, <2>3, <2>4
  <2>6. Len(Selected(f)) > 1 => o.series = ""
    <3>1. Len(Selected(f)) > 1 => Len(o["values"]) > 1  BY <1>6, ValuesPosted
    <3>2. ~(Len(o.values) > 1 /\ o.series # "")  BY <1>6 DEF IsShown, FieldsAreValid
    <3> HIDE DEF o
    <3> QED  BY <3>1, <3>2, Zenon
  <2>7. p.series = o.series  BY <2>2, <2>3, <2>6, Zenon
  <2> HIDE DEF o, p
  <2> QED  BY <2>1, <2>2, <2>3, <2>5, <2>7 DEF DrawnOption, StyleKeys, o, p
<1>7. CASE c.type = "markdown-table"
  <2>1. k = "columns" /\ {"sql", "columns"} = OptionKeys(c.type)  BY <1>7 DEF DrawnKeys, OptionKeys
  <2>2. /\ f.checked = Checked(o.columns)
        /\ f.table = (IF o.sql # "" THEN "sql" ELSE IF o.columns # <<>> THEN "columns" ELSE "all")
    <3>1. Option(c, "sql") = o.sql /\ Option(c, "columns") = o.columns  BY <1>1, <2>1 DEF Option
    <3>2. /\ f.checked = Checked(Option(c, "columns"))
          /\ f.table = (IF Option(c, "sql") # "" THEN "sql"
                        ELSE IF Option(c, "columns") # <<>> THEN "columns" ELSE "all")
      BY DEF IsShown, Shown
    <3> HIDE DEF o
    <3> QED  BY <3>1, <3>2, Zenon
  <2>3. o.sql # "" => o.columns = <<>>  BY <1>7 DEF IsShown, FieldsAreValid
  <2>4. p.columns = (IF f.table = "columns" THEN Kept(Header, f.checked) ELSE <<>>)
    BY <1>1, <1>7 DEF Payload
  <2>5. o.columns = Kept(Header, Checked(o.columns))  BY <1>7 DEF IsShown, FormHolds
  <2> HIDE DEF o, p
  <2>6. p.columns = o.columns  BY <2>2, <2>3, <2>4, <2>5
  <2> QED  BY <2>1, <2>6 DEF DrawnOption, StyleKeys, o, p
<1> QED  BY <1>1, <1>4, <1>5, <1>6, <1>7 DEF ChartTypes

\* The spec of what the form posts, key by key.
LEMMA SpecPosted ==
    ASSUME NEW f, f.type \in ChartTypes, NEW k \in DOMAIN Payload(f), k \in OptionKeys(f.type) \ {"sql"}
    PROVE SpecOfForm(f).options[k] = Payload(f)[k]
<1>1. /\ IsOfBody(SpecOfForm(f), Body(Posted(f)), charts)
      /\ Body(Posted(f)).type = f.type /\ Body(Posted(f)).options = Payload(f)
  BY SpecFits
<1> QED  BY <1>1 DEF IsOfBody, Filled

\* The query comes back from the form, or from the chart that is replaced.
LEMMA SqlPosted ==
    ASSUME AreLoaded(charts), NEW i \in DOMAIN charts, NEW c, c = charts[i], NEW f, IsShown(c, f)
    PROVE SpecOfForm(f).options.sql = c.options.sql
<1> DEFINE b == Body(Posted(f))
<1>1. /\ c.type \in ChartTypes /\ DOMAIN c.options = OptionKeys(c.type) /\ f.type = c.type
      /\ SanitizeChartId(Trim(f.id)) = c.id
  BY ShownFields
<1>2. /\ IsOfBody(SpecOfForm(f), b, charts) /\ b.type = c.type /\ b.id = c.id /\ b.options = Payload(f)
  BY <1>1, SpecFits
<1> HIDE DEF b
<1>3. CASE c.type # "markdown-table"
  <2>1. "sql" \notin DOMAIN Payload(f)  BY <1>1, <1>3, PayloadFits
  <2>2. SpecOfForm(f).options.sql = SqlOf(charts, b)  BY <1>2, <1>3, <2>1 DEF IsOfBody
  <2>3. SameCharts(charts, b) = {i}  BY <1>2 DEF SameCharts, AreLoaded, IdsDiffer
  <2>4. FirstOf({i}) = i
    <3>1. i \in Nat  BY SeqIsFunction DEF AreLoaded
    <3> QED  BY <3>1, FirstFits
  <2> QED  BY <2>2, <2>3, <2>4 DEF SqlOf
<1>4. CASE c.type = "markdown-table"
  <2>1. {"sql", "columns"} = OptionKeys(c.type)  BY <1>4 DEF OptionKeys
  <2>2. f.sql = c.options.sql /\ (f.table = "sql" <=> c.options.sql # "")
    BY <1>1, <2>1 DEF IsShown, Shown, Option
  <2>3. Trim(c.options.sql) = c.options.sql  BY <1>4 DEF IsShown, FormHolds
  <2>4. "sql" \in DOMAIN Payload(f) /\ Payload(f).sql = (IF f.table = "sql" THEN Trim(f.sql) ELSE "")
    BY <1>1, <1>4 DEF Payload
  <2>5. SpecOfForm(f).options = Filled(c.type, Payload(f))  BY <1>2, <1>4 DEF IsOfBody
  <2>6. SpecOfForm(f).options.sql = Payload(f).sql  BY <2>1, <2>4, <2>5 DEF Filled
  <2> QED  BY <2>2, <2>3, <2>4, <2>6
<1> QED  BY <1>3, <1>4

\* A chart that was not edited, and that the server takes, is drawn as it was.
LEMMA DrawnAlike ==
    ASSUME AreLoaded(charts), NEW i \in DOMAIN charts, NEW c, c = charts[i], NEW f, IsShown(c, f),
           NEW spec, spec = SpecOfForm(f), FieldsAreValid(spec)
    PROVE IsSpec(spec) /\ spec.id = c.id /\ Drawn(spec) = Drawn(c)
<1> DEFINE p == Payload(f)
           b == Body(Posted(f))
<1>1. /\ IsSpec(c) /\ c.type \in ChartTypes /\ f.type = c.type /\ f.runOnSave = c.runOnSave
      /\ SanitizeChartId(Trim(f.id)) = c.id /\ Trim(f.output) = c.output
  BY ShownFields
<1>2. /\ IsOfBody(spec, b, charts) /\ IsChart(b) /\ b.type = c.type /\ b.id = c.id
      /\ b.output = c.output /\ b.runOnSave = c.runOnSave
  BY <1>1, SpecFits
<1>3. /\ IsSpec(spec) /\ spec.id = c.id /\ spec.type = c.type /\ spec.output = c.output
      /\ spec.runOnSave = c.runOnSave
  BY <1>2, SameFields DEF IsOfBody
<1> HIDE DEF p, b
<1>4. \A k \in DrawnKeys(c.type) \ {"sql"} : spec.options[k] = p[k]
  BY <1>1, KeysPosted, SpecPosted DEF DrawnKeys, p
<1>5. c.type = "heatmap" => HeatmapRange(p)
  <2> SUFFICES ASSUME c.type = "heatmap" PROVE HeatmapRange(p)  OBVIOUS
  <2>1. {"start", "end", "lookback"} \subseteq DrawnKeys(c.type) \ {"sql"}  BY DEF DrawnKeys, OptionKeys
  <2>2. spec.options.start = p.start /\ spec.options.end = p.end /\ spec.options.lookback = p.lookback
    BY <1>4, <2>1
  <2>3. HeatmapRange(spec.options)  BY <1>3 DEF FieldsAreValid
  <2> QED  BY <2>2, <2>3 DEF HeatmapRange
<1>6. ASSUME NEW k \in DrawnKeys(c.type) PROVE DrawnOption(spec.options, k) = DrawnOption(c.options, k)
  <2>1. CASE k = "sql"
    <3>1. spec.options.sql = c.options.sql  BY SqlPosted
    <3> QED  BY <2>1, <3>1 DEF DrawnOption, StyleKeys
  <2>2. CASE k # "sql"
    <3>1. DrawnOption(p, k) = DrawnOption(c.options, k)  BY <1>5, <2>2, OptionsPosted DEF p
    <3>2. spec.options[k] = p[k]  BY <1>4, <2>2
    <3>3. k = "end" => spec.options["lookback"] = p["lookback"]  BY <1>1, <1>4, DrawnKeysFit
    <3>4. DrawnOption(spec.options, k) = DrawnOption(p, k)  BY <3>2, <3>3 DEF DrawnOption
    <3> QED  BY <3>1, <3>4
  <2> QED  BY <2>1, <2>2
<1>7. FirstTwo(ValueSpecs(spec)) = FirstTwo(ValueSpecs(c)) /\ ListsValues(spec) = ListsValues(c)
  <2>1. CASE c.type = "markdown-table"  BY <1>1, <1>3, <2>1, ValuesFit DEF ListsValues
  <2>2. CASE c.type # "markdown-table"
    <3> DEFINE single == SingleValue(c.type)
    <3>1. spec.options["values"] = p["values"] /\ spec.options[single] = p[single]
      BY <1>1, <2>2, DrawnKeysFit, KeysPosted, SpecPosted DEF p
    <3>2. ValueSpecs(spec) = ValuesOf(p["values"], p[single]) /\ Option(spec, "values") = p["values"]
      BY <1>3, <2>2, <3>1, ValuesFit
    <3>3. Option(c, "values") = c.options["values"]  BY <1>1, <2>2, ValuesFit
    <3>4. FirstTwo(ValuesOf(p["values"], p[single])) = FirstTwo(ValueSpecs(c))
          /\ (c.type = "heatmap" => (p["values"] # <<>> <=> c.options["values"] # <<>>))
      BY <2>2, ValuesPosted DEF p
    <3> QED  BY <1>3, <3>2, <3>3, <3>4 DEF ListsValues
  <2> QED  BY <2>1, <2>2
<1> QED  BY <1>3, <1>6, <1>7, DrawnEqual

\* Storing a spec that is drawn as the chart it replaces changes nothing that is drawn.
LEMMA StoredAlike ==
    ASSUME AreLoaded(charts), NEW i \in DOMAIN charts,
           NEW spec, IsSpec(spec), spec.id = charts[i].id, Drawn(spec) = Drawn(charts[i])
    PROVE DrawnOf(Stored(spec)) = DrawnOf(charts)
<1> DEFINE new == Updated(charts, spec)
           kept == Beside(charts, spec.id)
           in == Beside(new, spec.id)
<1>1. IsSeq(charts) /\ IdsDiffer(charts) /\ \A j \in DOMAIN charts : IsSpec(charts[j])
  BY DEF AreLoaded, IsLoaded
<1>2. IsUpdated(new, charts, spec)  BY <1>1, UpdatedFits
<1>3. Stored(spec) = [k \in DOMAIN new |-> SpecOf(Entry(new[k]))]  BY DEF Stored
<1> HIDE DEF new
<1>4. \A k \in DOMAIN new : new[k] = spec \/ \E j \in DOMAIN charts : new[k] = charts[j]
  BY <1>2 DEF IsUpdated
<1>5. DrawnOf(Stored(spec)) = {Drawn(new[k]) : k \in DOMAIN new}
  <2>1. \A k \in DOMAIN new : IsSpec(new[k])  BY <1>1, <1>4
  <2>2. \A k \in DOMAIN new : Drawn(SpecOf(Entry(new[k]))) = Drawn(new[k])  BY <2>1, DrawnStored
  <2>3. DrawnOf(Stored(spec)) = {Drawn(SpecOf(Entry(new[k]))) : k \in DOMAIN new}  BY <1>3 DEF DrawnOf
  <2> QED  BY <2>2, <2>3
<1>6. \A k \in DOMAIN new : \E j \in DOMAIN charts : Drawn(new[k]) = Drawn(charts[j])  BY <1>4
<1>7. ASSUME NEW j \in DOMAIN charts PROVE \E k \in DOMAIN new : Drawn(new[k]) = Drawn(charts[j])
  <2>1. CASE charts[j].id = spec.id
    <3>1. j = i  BY <1>1, <2>1 DEF IdsDiffer
    <3>2. PICK k \in DOMAIN new : new[k] = spec  BY <1>2 DEF IsUpdated
    <3> QED  BY <3>1, <3>2
  <2>2. CASE charts[j].id # spec.id
    <3>1. j \in kept  BY <2>2 DEF Beside
    <3>2. Len(charts) \in Nat /\ kept \subseteq 1..Len(charts)  BY <1>1, SeqIsFunction DEF Beside
    <3> HIDE DEF kept
    <3>3. Rank(kept, j) \in 1..Cardinality(kept) /\ Place(kept, Rank(kept, j)) = j
      BY <3>1, <3>2, PlaceOfRank
    <3>4. \A m \in 1..Cardinality(kept) : Place(in, m) \in in /\ new[Place(in, m)] = charts[Place(kept, m)]
      BY <1>2 DEF IsUpdated, kept
    <3>5. Place(in, Rank(kept, j)) \in in /\ new[Place(in, Rank(kept, j))] = charts[j]  BY <3>3, <3>4
    <3> QED  BY <3>5 DEF Beside
  <2> QED  BY <2>1, <2>2
<1> QED  BY <1>5, <1>6, <1>7 DEF DrawnOf

\* A save of a chart that was not edited, as it is served.
LEMMA SaveKeeps ==
    ASSUME FormInv, [FormNext]_formVars, NEW i \in DOMAIN charts,
           IsAt(call, "save", "posted"), IsAt(call, "save", "done")',
           call.fields = Shown(charts[i]), FormHolds(charts[i]), FieldsAreValid(charts[i])
    PROVE DrawnOf(charts') = DrawnOf(charts)
<1>1. call.kind = "save" /\ call.stage = "posted" /\ call'.kind = "save" /\ call'.stage = "done"
  BY DEF IsAt
<1>2. Serve
  BY <1>1 DEF FormNext, formVars, Open, ListServed, ListTaken, Cancel, Edit,
              Choose, Start, AskPreview, AskSave, AskGenerate, Free, Answer,
              PreviewTaken, GenerateTaken, SaveTaken, RelistTaken, Refused, IsAt
<1> DEFINE spec == SpecOfForm(call.fields)
<1>3. charts' = Stored(spec) /\ FieldsAreValid(spec)
  <2>1. PICK ok \in Accepted(spec) : Answered(ok) /\ charts' = IF ok THEN Stored(spec) ELSE charts
    BY <1>1, <1>2 DEF Serve
  <2>2. IsCall(call)  BY DEF FormInv, CallFits
  <2>3. call'.stage = IF ok THEN "done" ELSE "refused"  BY <2>1, <2>2 DEF Answered, IsCall
  <2>4. ok # FALSE  BY <1>1, <2>3
  <2>5. ok = TRUE /\ FieldsAreValid(spec)  BY <2>1, <2>4 DEF Accepted
  <2> QED  BY <2>1, <2>5
<1>4. AreLoaded(charts)  BY DEF FormInv, FormFits
<1>5. IsShown(charts[i], call.fields)  BY <1>4 DEF IsShown, AreLoaded
<1>6. IsSpec(spec) /\ spec.id = charts[i].id /\ Drawn(spec) = Drawn(charts[i])
  BY <1>3, <1>4, <1>5, DrawnAlike
<1> HIDE DEF spec
<1>7. DrawnOf(Stored(spec)) = DrawnOf(charts)  BY <1>4, <1>6, StoredAlike
<1> QED  BY <1>3, <1>7

\* Saving a chart that was not edited, and that the form can hold, changes nothing of
\* what the form has controls for, of this chart or of another: the query, which the
\* form may not show, the values, the columns of a table, the range and the output.
THEOREM SaveKeepsTheChartCorrect == FormSpec => SaveKeepsTheChart
<1> DEFINE Keeps == \A i \in DOMAIN charts :
             LET old == charts[i] IN
             (/\ IsAt(call, "save", "posted") /\ IsAt(call', "save", "done")
              /\ call.fields = Shown(old) /\ FormHolds(old) /\ FieldsAreValid(old))
               => DrawnOf(charts') = DrawnOf(charts)
<1>1. FormInv /\ [FormNext]_formVars => [Keeps]_formVars  BY SaveKeeps DEF IsAt
<1>2. [][Keeps]_formVars <=> SaveKeepsTheChart  BY DEF SaveKeepsTheChart
<1> HIDE DEF Keeps
<1> QED  BY <1>1, <1>2, FormInvariant, PTL DEF FormSpec

=============================================================================
