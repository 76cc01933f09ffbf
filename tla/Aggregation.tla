---------------------------- MODULE Aggregation ----------------------------
(***************************************************************************)
(* The commands and charts that fold a CSV file into a smaller answer in   *)
(* one pass: max and min, summarize, timeseries, bar, line and heatmap,    *)
(* head, and the column types that a load into a database begins with.     *)
(* Each row read updates what the command keeps (its order of keys and its *)
(* table); the end of the file turns it into the answer, or a row or the   *)
(* end makes the command fail.  The commands that go through SQLite are    *)
(* steps of SqlCommands.                                                   *)
(*                                                                         *)
(* A cell is blank, a text or a number; n is the number, or the rank of    *)
(* the text.  A row has the text of its key column, one cell for x, the    *)
(* cells of its value columns, and a date.                                 *)
(***************************************************************************)
EXTENDS SqlCommands

CONSTANT Today

vars == <<rowVars, sqlVars>>

\* FindColumnIndex of every column the job names, before the first row.  A line
\* chart of several columns has their lines, a heatmap the dates of its range.
Open ==
    LET columns == IF job.cmd = "line" /\ job.values > 1 THEN job.values ELSE 0 IN
    /\ phase = "opening" /\ job.cmd \notin Commands
    /\ phase' = IF OpenCsvReader(job.input) /\ job.found THEN "reading" ELSE "failed"
    /\ order' = IF job.cmd = "heatmap"
                THEN SelectSeq(<<job.start, job.end>>, LAMBDA d : d.form # "empty")
                ELSE [i \in 1..columns |-> i]
    /\ table' = [i \in 1..columns |-> <<>>]
    /\ UNCHANGED <<job, seen, answer>>
-----------------------------------------------------------------------------
\* max and min: <<>> or the best cell so far.

Better(a, b) == IF job.cmd = "max" THEN a > b ELSE a < b

\* Seeded fault: a number does not displace a text it is not better than.
ReplacesWhenBetter(cell) ==
    cell.kind # "blank" /\ (table = <<>> \/ Better(cell.n, table[1].n))

\* Blanks are skipped; a number displaces any text, and a text never a number.
Replaces(cell) ==
    LET numericMode == table # <<>> /\ IsNumber(table[1])
    IN  \/ IsNumber(cell) /\ (~numericMode \/ Better(cell.n, table[1].n))
        \/ cell.kind = "text" /\ ~numericMode /\ (table = <<>> \/ Better(cell.n, table[1].n))

ReadExtremum == \E r \in RowsOf[job] :
    LET cell == r.ys[1] IN
    /\ job.cmd \in {"max", "min"}
    /\ Row(r)
    /\ table' = IF Replaces(cell) THEN <<[kind |-> cell.kind, n |-> cell.n, at |-> Len(seen')]>> ELSE table
    /\ UNCHANGED <<phase, order>>

FinishExtremum ==
    /\ job.cmd \in {"max", "min"}
    /\ Finish(table # <<>>, IF table = <<>> THEN <<>> ELSE <<table[1].at>>)
-----------------------------------------------------------------------------
\* summarize: per key, its greatest value and the row that has it.

ReadSummarize == \E r \in RowsOf[job] :
    LET wins == /\ IsNumber(r.ys[1])
                /\ r.key \in DOMAIN table => r.ys[1].n > table[r.key].max
    IN  /\ job.cmd = "summarize"
        /\ Row(r)
        /\ table' = IF wins THEN Put(r.key, [max |-> r.ys[1].n, at |-> Len(seen')]) ELSE table
        /\ order' = IF wins THEN Entered(r.key) ELSE order
        /\ UNCHANGED phase

FinishSummarize ==
    /\ job.cmd = "summarize"
    /\ Finish(TRUE, [i \in DOMAIN order |-> [key |-> order[i], at |-> table[order[i]].at]])
-----------------------------------------------------------------------------
\* timeseries: per key and x, the values reduced to one.

ReduceOp == IF job.how \in {"max", "min", "sum", "avg"} THEN job.how ELSE "last"

ApplyReduce(rec, incoming) ==
    CASE rec = <<>> -> <<incoming, 1>>
      [] rec # <<>> /\ ReduceOp = "max" -> <<Max({rec[1], incoming}), rec[2]>>
      [] rec # <<>> /\ ReduceOp = "min" -> <<Min({rec[1], incoming}), rec[2]>>
      [] rec # <<>> /\ ReduceOp = "sum" -> <<rec[1] + incoming, rec[2]>>
      [] rec # <<>> /\ ReduceOp = "avg" -> <<rec[1] + incoming, rec[2] + 1>>
      [] rec # <<>> /\ ReduceOp = "last" -> <<incoming, rec[2]>>

\* An average is the pair of its sum and its count.
FinalValue(rec) == IF ReduceOp = "avg" THEN rec ELSE <<rec[1], 1>>

ReadTimeseries == \E r \in RowsOf[job] :
    LET xs == IF r.key \in DOMAIN table THEN table[r.key] ELSE <<>>
        rec == IF r.x.n \in DOMAIN xs THEN xs[r.x.n] ELSE <<>>
    IN  /\ job.cmd = "timeseries"
        /\ Row(r)
        /\ IF IsNumber(r.ys[1])
           THEN /\ table' = Put(r.key, (r.x.n :> ApplyReduce(rec, r.ys[1].n)) @@ xs)
                /\ order' = Entered(r.key)
           ELSE UNCHANGED <<order, table>>
        /\ UNCHANGED phase

\* std::map keeps the x of a key sorted.
FinishTimeseries ==
    LET Points(key) ==
            LET xs == SetToSortSeq(DOMAIN table[key], <)
            IN  [i \in DOMAIN xs |-> [key |-> key, x |-> xs[i], y |-> FinalValue(table[key][xs[i]])]]
    IN  /\ job.cmd = "timeseries"
        /\ Finish(TRUE, FlattenSeq([i \in DOMAIN order |-> Points(order[i])]))
-----------------------------------------------------------------------------
\* bar: per key, the total of each value column; one column or several.

\* ParseNumericField: a blank is 0, and a text throws.
ParseNumericField(cell) == IF IsNumber(cell) THEN cell.n ELSE 0

Throws(r) == \E i \in 1..job.values : r.ys[i].kind = "text"

Values(r) == [i \in 1..job.values |-> ParseNumericField(r.ys[i])]

ReadBar == \E r \in RowsOf[job] :
    LET before == IF r.key \in DOMAIN table THEN table[r.key] ELSE [i \in 1..job.values |-> 0] IN
    /\ job.cmd = "bar"
    /\ Row(r)
    /\ IF Throws(r)
       THEN phase' = "failed" /\ UNCHANGED <<order, table>>
       ELSE /\ table' = Put(r.key, [i \in 1..job.values |-> before[i] + Values(r)[i]])
            /\ order' = Entered(r.key)
            /\ UNCHANGED phase

\* The presentation is looked at only when there are several columns.
FinishBar ==
    /\ job.cmd = "bar"
    /\ Finish(job.values > 1 => job.how \in {"stacked", "grouped"},
              [i \in DOMAIN order |-> [key |-> order[i], totals |-> table[order[i]]]])
-----------------------------------------------------------------------------
\* line: the points of each key, or of each value column.  std::sort may put
\* the points with the same x in any order.

Sortings(points) ==
    {s \in {[i \in DOMAIN points |-> points[p[i]]] : p \in Permutations(DOMAIN points)} :
        \A i, j \in DOMAIN s : i < j => s[i].x <= s[j].x}

\* The lines a row has a point on: one for each value column, or its series'.
LinesOf(r) == IF job.values > 1 THEN DOMAIN table ELSE {IF job.how = "series" THEN r.key ELSE "Series"}

Point(r, line) ==
    [x |-> ParseNumericField(r.x),
     y |-> ParseNumericField(r.ys[IF job.values > 1 THEN line ELSE 1])]

ReadLine == \E r \in RowsOf[job] :
    LET Before(l) == IF l \in DOMAIN table THEN table[l] ELSE <<>> IN
    /\ job.cmd = "line"
    /\ Row(r)
    /\ IF r.x.kind = "text" \/ Throws(r)
       THEN phase' = "failed" /\ UNCHANGED <<order, table>>
       ELSE /\ table' = [l \in LinesOf(r) |-> Append(Before(l), Point(r, l))] @@ table
            /\ order' = order \o SetToSeq(LinesOf(r) \ DOMAIN table)
            /\ UNCHANGED phase

FinishLine ==
    /\ job.cmd = "line"
    /\ \E lines \in [DOMAIN table -> UNION {Sortings(table[l]) : l \in DOMAIN table}] :
        /\ \A l \in DOMAIN table : lines[l] \in Sortings(table[l])
        /\ Finish(TRUE, [i \in DOMAIN order |-> [line |-> order[i], points |-> lines[order[i]]]])
-----------------------------------------------------------------------------
\* The type of a column of a new table, in PostgreSQL or in SQLite.  A number's
\* n is its width here: 32 bits, 64 bits, more, and with a fraction.

\* SchemaInference::observe_type: the count that a cell adds to.
ObserveType(cell) ==
    CASE cell.kind = "blank" -> "null"
      [] cell.kind = "text" -> "text"
      [] IsNumber(cell) -> <<"integer", "bigint", "numeric", "numeric">>[cell.n]

ReadType == \E r \in RowsOf[job] :
    LET type == IF job.how = "sqlite" THEN ObserveAffinity(r.ys[1]) ELSE ObserveType(r.ys[1]) IN
    /\ job.cmd = "infer"
    /\ Row(r)
    /\ table' = Observe(type)
    /\ UNCHANGED <<phase, order>>

InferType ==
    LET saw == DOMAIN table \ {"null"} IN
    CASE saw = {} \/ "text" \in saw -> "TEXT"
      [] "text" \notin saw /\ "numeric" \in saw -> "NUMERIC"
      [] "bigint" \in saw /\ saw \subseteq {"integer", "bigint"} -> "BIGINT"
      [] saw = {"integer"} -> "INTEGER"

\* Only the PostgreSQL column can be NOT NULL, and only there are rows counted.
FinishType ==
    /\ job.cmd = "infer"
    /\ Finish(TRUE, IF job.how = "sqlite" THEN [type |-> InferAffinity]
                    ELSE [type |-> InferType, nullable |-> "null" \in DOMAIN table,
                          rows |-> MapThenSumSet(LAMBDA t : table[t], DOMAIN table)])
-----------------------------------------------------------------------------
\* heatmap.  A date is [form, y, a, b]: year-first "2026-a-b", year-last
\* "a/b/2026", another text, or empty.

IsLeap(y) == y % 4 = 0 /\ (y % 100 # 0 \/ y % 400 = 0)

LastDay(y, m) == IF m = 2 THEN IF IsLeap(y) THEN 29 ELSE 28
                 ELSE IF m \in {4, 6, 9, 11} THEN 30 ELSE 31

NoDay == <<>>

MakeDay(y, m, d) == IF m \in 1..12 /\ d >= 1 /\ d <= LastDay(y, m) THEN <<y, m, d>> ELSE NoDay

\* FullDate: a part above 12 is the day, whatever the order.
ParseFlexibleDate(d, dateOrder) ==
    CASE d.form = "yearFirst" -> MakeDay(d.y, d.a, d.b)
      [] d.form = "yearLast" -> IF \/ d.a > 12 /\ d.b <= 12
                                   \/ ~(d.b > 12 /\ d.a <= 12) /\ dateOrder = "DayMonth"
                                THEN MakeDay(d.y, d.b, d.a) ELSE MakeDay(d.y, d.a, d.b)
      [] OTHER -> NoDay

\* FindDateOrderClue
Clue(d) ==
    CASE d.form = "yearFirst" -> "None"
      [] d.form = "yearLast" /\ d.a > 12 /\ d.b <= 12 -> "DayMonth"
      [] d.form = "yearLast" /\ d.b > 12 /\ d.a <= 12 -> "MonthDay"
      [] d.form = "yearLast" /\ (d.a > 12 <=> d.b > 12) -> "None"
      [] OTHER -> "Invalid"

Clues == {Clue(order[i]) : i \in DOMAIN order}

\* InferDateOrder throws on an invalid date and on clues that disagree.
Infers == "Invalid" \notin Clues /\ ~({"DayMonth", "MonthDay"} \subseteq Clues)

\* Seeded fault: only the first two dates are asked for their order.
OrderOfFirstDates(dates) ==
    IF \E i \in DOMAIN dates : i <= 2 /\ Clue(dates[i]) = "DayMonth" THEN "DayMonth" ELSE "MonthDay"

InferDateOrder(dates) ==
    IF \E i \in DOMAIN dates : Clue(dates[i]) = "DayMonth" THEN "DayMonth" ELSE "MonthDay"

\* StartForLookback of so many years: the last day of a shorter month.
YearsBefore(day, years) ==
    <<day[1] - years, day[2], Min({day[3], LastDay(day[1] - years, day[2])})>>

\* ResolveHeatmapDateRange: a range with NoDay in it throws.
DateRange(dateOrder) ==
    LET Parsed(d) == ParseFlexibleDate(d, dateOrder)
        last == IF job.end.form = "empty" THEN Today ELSE Parsed(job.end)
    IN  IF job.lookback = 0 THEN <<Parsed(job.start), Parsed(job.end)>>
        ELSE IF job.start.form # "empty" \/ last = NoDay THEN <<NoDay, NoDay>>
        ELSE <<YearsBefore(last, job.lookback), last>>

\* The cells of a row: itself, weighed by its value column when there is one,
\* or one for each value column above 0, the first of them with the label.
CellsOf(r) ==
    LET Used == {i \in 1..job.values : Values(r)[i] > 0} IN
    IF job.how = "weights"
    THEN LET used == SetToSortSeq(Used, <) IN
         [k \in DOMAIN used |-> [date |-> r.date, at |-> Len(seen) + 1, class |-> used[k],
                                 value |-> Values(r)[used[k]], labelled |-> k = 1]]
    ELSE <<[date |-> r.date, at |-> Len(seen) + 1, class |-> 0,
            value |-> IF job.values = 0 THEN 1 ELSE Values(r)[1], labelled |-> TRUE]>>

ReadHeatmap == \E r \in RowsOf[job] :
    /\ job.cmd = "heatmap"
    /\ Row(r)
    /\ IF r.date.form = "empty" \/ Throws(r)
       THEN phase' = "failed" /\ UNCHANGED <<order, table>>
       ELSE /\ order' = Append(order, r.date)
            /\ table' = table \o CellsOf(r)
            /\ UNCHANGED phase

FinishHeatmap ==
    LET dateOrder == InferDateOrder(order)
        Day(i) == ParseFlexibleDate(table[i].date, dateOrder)
        range == DateRange(dateOrder)
    IN  /\ job.cmd = "heatmap"
        /\ Finish(/\ Infers
                  /\ \A i \in DOMAIN table : Day(i) # NoDay
                  /\ range[1] # NoDay /\ range[2] # NoDay,
                  [cells |-> [i \in DOMAIN table |-> [table[i] EXCEPT !.date = Day(i)]],
                   range |-> range])
-----------------------------------------------------------------------------
\* head: the first rows, in columns as wide as their widest cell but not above a
\* limit.  A cell's n is its length here, and job.values the row limit.

MaxColumnWidth == 40
HeaderWidth == 5

ReadHead == \E r \in RowsOf[job] :
    /\ job.cmd = "head" /\ Len(seen) < job.values
    /\ Row(r)
    /\ table' = Append(table, r.ys[1].n)
    /\ UNCHANGED <<phase, order>>

\* What is cut ends in dots.
TruncateCell(size, width) == [size |-> Min({size, width}), cut |-> size > width]

FinishHead ==
    LET width == Max({HeaderWidth} \union {Min({table[i], MaxColumnWidth}) : i \in DOMAIN table})
    IN  /\ job.cmd = "head"
        /\ Finish(TRUE, [width |-> width, rows |-> [i \in DOMAIN table |-> TruncateCell(table[i], width)]])
-----------------------------------------------------------------------------
Init == /\ job \in Jobs
        /\ phase = "opening"
        /\ seen = <<>>
        /\ order = <<>>
        /\ table = <<>>
        /\ answer = <<>>
        /\ first = <<>> /\ loaded = <<>> /\ temp = FALSE

Pass == \/ Open
        \/ ReadExtremum \/ ReadSummarize \/ ReadTimeseries \/ ReadBar \/ ReadLine \/ ReadHeatmap
        \/ ReadType \/ FinishType
        \/ FinishExtremum \/ FinishSummarize \/ FinishTimeseries
        \/ FinishBar \/ FinishLine \/ FinishHeatmap
        \/ ReadHead \/ FinishHead

Next == (Pass /\ UNCHANGED sqlVars) \/ SqlStep

Spec == Init /\ [][Next]_vars
-----------------------------------------------------------------------------
\* What each answer is, said of the rows and not of the pass over them.

With(P(_)) == {i \in DOMAIN seen : P(seen[i])}

Y(i) == seen[i].ys[1]

Numeric == With(LAMBDA r : IsNumber(r.ys[1]))

\* The keys of the rows S, in the order of their first rows.
KeysOf(S) ==
    LET First(k) == Min({i \in S : seen[i].key = k})
    IN  SetToSortSeq({seen[i].key : i \in S}, LAMBDA k, l : First(k) < First(l))

Total(S, column) == MapThenSumSet(LAMBDA i : ParseNumericField(seen[i].ys[column]), S)

\* The first row of S whose value no other row of S beats.
FirstBest(S) == Min({i \in S : \A j \in S : ~Better(Y(j).n, Y(i).n)})

ExtremumIs ==
    LET texts == With(LAMBDA r : r.ys[1].kind = "text")
        candidates == IF Numeric # {} THEN Numeric ELSE texts
    IN  IF candidates = {} THEN phase = "failed" ELSE answer = <<FirstBest(candidates)>>

SummaryIs ==
    LET keys == KeysOf(Numeric)
        Best(k) == {i \in Numeric : seen[i].key = k /\ \A j \in Numeric : seen[j].key = k => Y(j).n <= Y(i).n}
    IN  answer = [i \in DOMAIN keys |-> [key |-> keys[i], at |-> Min(Best(keys[i]))]]

Reduced(S) ==
    CASE ReduceOp = "max" -> <<Max({Y(i).n : i \in S}), 1>>
      [] ReduceOp = "min" -> <<Min({Y(i).n : i \in S}), 1>>
      [] ReduceOp = "sum" -> <<Total(S, 1), 1>>
      [] ReduceOp = "avg" -> <<Total(S, 1), Cardinality(S)>>
      [] ReduceOp = "last" -> <<Y(Max(S)).n, 1>>

SeriesAre ==
    LET keys == KeysOf(Numeric)
        Place(k) == CHOOSE p \in DOMAIN keys : keys[p] = k
        Rows(k, x) == {i \in Numeric : seen[i].key = k /\ seen[i].x.n = x}
    IN  /\ ToSet(answer) = {[key |-> seen[i].key, x |-> seen[i].x.n,
                             y |-> Reduced(Rows(seen[i].key, seen[i].x.n))] : i \in Numeric}
        /\ \A p, q \in DOMAIN answer : p < q =>
            \/ Place(answer[p].key) < Place(answer[q].key)
            \/ answer[p].key = answer[q].key /\ answer[p].x < answer[q].x

BarsAre ==
    LET keys == KeysOf(DOMAIN seen)
        Rows(k) == {i \in DOMAIN seen : seen[i].key = k}
    IN  IF With(Throws) # {} \/ (job.values > 1 /\ job.how \notin {"stacked", "grouped"})
        THEN phase = "failed"
        ELSE answer = [i \in DOMAIN keys |->
                [key |-> keys[i], totals |-> [c \in 1..job.values |-> Total(Rows(keys[i]), c)]]]

\* Every line has one point for each of its rows, from left to right.
LinesAre ==
    LET several == job.values > 1
        Rows(line) == IF several \/ job.how # "series" THEN DOMAIN seen
                      ELSE {i \in DOMAIN seen : seen[i].key = line}
        At(line, i) == <<ParseNumericField(seen[i].x), ParseNumericField(seen[i].ys[IF several THEN line ELSE 1])>>
    IN  IF \E i \in DOMAIN seen : seen[i].x.kind = "text" \/ Throws(seen[i])
        THEN phase = "failed"
        ELSE /\ several => [i \in DOMAIN answer |-> answer[i].line] = [i \in 1..job.values |-> i]
             /\ ~several /\ job.how = "series" =>
                  [i \in DOMAIN answer |-> answer[i].line] = KeysOf(DOMAIN seen)
             /\ \A i \in DOMAIN answer :
                  LET points == answer[i].points IN
                  /\ \A v \in {At(answer[i].line, r) : r \in DOMAIN seen} \union {<<p.x, p.y>> : p \in ToSet(points)} :
                        Cardinality({p \in DOMAIN points : <<points[p].x, points[p].y>> = v})
                          = Cardinality({r \in Rows(answer[i].line) : At(answer[i].line, r) = v})
                  /\ \A p, q \in DOMAIN points : p < q => points[p].x <= points[q].x

\* What a column of a type holds so that it reads back as the same value.
Holds(type, cell) ==
    CASE type = "TEXT" -> TRUE
      [] type = "NUMERIC" -> IsNumber(cell) /\ (job.how = "sqlite" => cell.n # 3)
      [] type = "BIGINT" -> IsNumber(cell) /\ cell.n <= 2
      [] type = "INTEGER" -> IsNumber(cell) /\ cell.n = 1

\* The narrowest type that holds all that is not blank, TEXT when there is nothing
\* else, and NOT NULL only when no row would then be refused.
TypeIs ==
    LET values == {i \in DOMAIN seen : seen[i].ys[1].kind # "blank"}
        narrower == IF job.how = "postgres" THEN <<"INTEGER", "BIGINT", "NUMERIC", "TEXT">> ELSE <<"NUMERIC", "TEXT">>
        Fits(k) == \A i \in values : Holds(narrower[k], seen[i].ys[1])
        fitting == {k \in DOMAIN narrower : Fits(k)}
    IN  /\ answer.type = IF values = {} THEN "TEXT" ELSE narrower[Min(fitting)]
        /\ job.how = "postgres" => /\ answer.nullable <=> values # DOMAIN seen
                                   /\ answer.rows = Len(seen)

\* One cell per row, or one per row and positive column; one label per row.
CellsAre ==
    LET cells == answer.cells
        Weights(i) == {c \in 1..job.values : ParseNumericField(seen[i].ys[c]) > 0}
        Cell(i, c, v) == [at |-> i, class |-> c, value |-> v]
    IN  /\ {Cell(cells[k].at, cells[k].class, cells[k].value) : k \in DOMAIN cells} =
             CASE job.how = "weights" ->
                    {Cell(i, c, seen[i].ys[c].n) : <<i, c>> \in
                        {w \in (DOMAIN seen) \X (1..job.values) : w[2] \in Weights(w[1])}}
               [] job.how # "weights" /\ job.values = 1 ->
                    {Cell(i, 0, ParseNumericField(seen[i].ys[1])) : i \in DOMAIN seen}
               [] OTHER -> {Cell(i, 0, 1) : i \in DOMAIN seen}
        /\ \A i \in DOMAIN seen :
             LET mine == {k \in DOMAIN cells : cells[k].at = i}
             IN  mine # {} => {k \in mine : cells[k].labelled} = {Min(mine)}
        /\ \A k, l \in DOMAIN cells : k < l =>
             cells[k].at < cells[l].at \/ (cells[k].at = cells[l].at /\ cells[k].class < cells[l].class)

\* The first rows, each cell whole in its column unless it is over the limit.
HeadIs ==
    /\ phase = "done" /\ Len(answer.rows) = Len(seen) /\ Len(seen) <= job.values
    /\ \A i \in DOMAIN seen :
         LET cell == answer.rows[i] IN
         /\ cell.size <= answer.width
         /\ cell.cut <=> seen[i].ys[1].n > MaxColumnWidth
         /\ cell.size = Min({seen[i].ys[1].n, MaxColumnWidth})

\* What a command answers is what its rows say, whatever their order: the
\* first of the greatest cells, a number before any text (max.cpp:49-63), the
\* groups, totals and points of all rows, a column type that holds every value
\* ("full-file schema inference", README.md:420), and an error exactly when a
\* cell cannot be a number or there is nothing to answer.
AnswersAreRight ==
    /\ phase \in {"done", "failed"} /\ job.cmd \in Commands => StatementIsOverWholeTables
    /\ phase = "done" => Readable(job.input)
    /\ phase \in {"done", "failed"} /\ job.found /\ Readable(job.input) =>
        CASE job.cmd \in Commands -> TRUE
          [] job.cmd \in {"max", "min"} -> ExtremumIs
          [] job.cmd = "head" -> HeadIs
          [] job.cmd = "summarize" -> SummaryIs
          [] job.cmd = "timeseries" -> SeriesAre
          [] job.cmd = "bar" -> BarsAre
          [] job.cmd = "line" -> LinesAre
          [] job.cmd = "infer" -> TypeIs
          [] job.cmd = "heatmap" -> phase = "done" => CellsAre

Orders == {"MonthDay", "DayMonth"}

\* A date read strictly in one order.
Strictly(d, o) ==
    CASE d.form = "yearFirst" -> MakeDay(d.y, d.a, d.b)
      [] d.form = "yearLast" /\ o = "MonthDay" -> MakeDay(d.y, d.a, d.b)
      [] d.form = "yearLast" /\ o = "DayMonth" -> MakeDay(d.y, d.b, d.a)
      [] OTHER -> NoDay

\* "Ambiguous numeric dates use a column-wide inference when an unambiguous
\* clue exists; otherwise they are read month-first" (README.md:308-310): all
\* the dates of a finished heatmap, those of its range too, are read in one
\* order, which is day-first only if some date cannot be month-first and is
\* not month-first if some date must be day-first; and a heatmap that fails
\* although its values and its range are in order has dates no order reads.
DatesReadInOneOrder ==
    LET given == SelectSeq(<<job.start, job.end>>, LAMBDA d : d.form # "empty")
        dates == ToSet(given) \union {seen[i].date : i \in DOMAIN seen}
        Reads(o) == \A d \in dates : Strictly(d, o) # NoDay
        Applies(o) ==
            /\ \A k \in DOMAIN answer.cells :
                 answer.cells[k].date = Strictly(seen[answer.cells[k].at].date, o) /\ answer.cells[k].date # NoDay
            /\ job.start.form # "empty" => answer.range[1] = Strictly(job.start, o)
            /\ job.end.form # "empty" => answer.range[2] = Strictly(job.end, o)
            /\ o = "DayMonth" => \E d \in dates : Strictly(d, "MonthDay") = NoDay
            /\ o = "MonthDay" => ~\E d \in dates :
                 Strictly(d, "MonthDay") = NoDay /\ Strictly(d, "DayMonth") # NoDay
        rangeGiven == IF job.lookback = 0 THEN Len(given) = 2 ELSE job.start.form = "empty"
    IN  job.cmd = "heatmap" /\ job.found /\ Readable(job.input) =>
            /\ phase = "done" => \E o \in Orders : Applies(o)
            /\ phase = "failed" => \/ ~rangeGiven \/ With(Throws) # {}
                                   \/ \A o \in Orders : ~Reads(o)
=============================================================================
