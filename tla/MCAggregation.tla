--------------------------- MODULE MCAggregation ---------------------------
(* Each command over the rows that tell its cases apart.                   *)
EXTENDS Aggregation

NoDate == [form |-> "empty", y |-> 0, a |-> 0, b |-> 0]
Slashed(a, b) == [form |-> "yearLast", y |-> 2024, a |-> a, b |-> b]
Iso(a, b) == [form |-> "yearFirst", y |-> 2024, a |-> a, b |-> b]
Odd == [form |-> "other", y |-> 0, a |-> 0, b |-> 0]

File == [kind |-> "file", sound |-> TRUE, name |-> "", entries |-> <<>>, header |-> TRUE]
Stdin == [File EXCEPT !.kind = "stdin"]

\* found: every column is there.  db: the database SQL commands use.
Job(cmd, how, values) ==
    [cmd |-> cmd, how |-> how, values |-> values, found |-> TRUE, start |-> NoDate, end |-> NoDate,
     lookback |-> 0, input |-> File, tables |-> <<>>, format |-> "csv", db |-> "memory"]

Entry(name) ==
    [name |-> name, folder |-> FALSE, encrypted |-> FALSE, method |-> "deflated", intact |-> TRUE, header |-> TRUE]
Folder == [Entry("d") EXCEPT !.folder = TRUE]
Bad == {[Entry("b") EXCEPT !.encrypted = TRUE], [Entry("b") EXCEPT !.method = "other"],
        [Entry("b") EXCEPT !.intact = FALSE], [Entry("b") EXCEPT !.header = FALSE]}

Archive(name, entries) == [File EXCEPT !.kind = "zip", !.name = name, !.entries = entries]

Inputs ==
    {Stdin, [File EXCEPT !.header = FALSE], [File EXCEPT !.kind = "gzip"], [File EXCEPT !.kind = "gzip", !.sound = FALSE],
     Archive("", <<>>), Archive("", <<Folder>>), [Archive("", <<Entry("a")>>) EXCEPT !.sound = FALSE]}
    \union {Archive(name, <<Entry("a"), Folder, e>>) : name \in {"", "a", "b", "c"}, e \in Bad \union {Entry("a")}}
    \union {Archive(name, <<Folder, e>>) : name \in {"", "b", "d"}, e \in Bad \union {[Entry("b") EXCEPT !.method = "stored"]}}

Table(name, folded, input) == [name |-> name, folded |-> folded, input |-> input]

Sql(cmd, how, tables) == [Job(cmd, how, 1) EXCEPT !.tables = tables]
T == Table("t", "t", File)

SqlJobs ==
    {Sql("filter", how, <<T>>) : how \in {"empty", "bad", "ok"}}
    \union {Sql("derive", how, <<T>>) : how \in {"empty", "malformed", "taken", "ok"}}
    \union {[Sql("filter", "ok", <<T>>) EXCEPT !.db = db] : db \in {"temp", "used"}}
    \union {Sql("query", "ok", tables) : tables \in
        {<<>>, <<Table("", "", File)>>, <<T, Table("T", "t", Stdin)>>, <<T, Table("u", "u", Stdin)>>,
         <<Table("u", "u", Stdin), Table("v", "v", Stdin)>>, <<T, Table("u", "u", [File EXCEPT !.header = FALSE])>>}}
    \union {[Sql("query", how, <<Table("t", "t", Stdin)>>) EXCEPT !.format = f] :
        how \in {"none", "ok"}, f \in {"csv", "markdown", "other"}}

Heatmap(how, values, start, end, lookback) ==
    [Job("heatmap", how, values) EXCEPT !.start = start, !.end = end, !.lookback = lookback]

SomeJobs ==
    {[Job("max", "", 1) EXCEPT !.found = FALSE], Job("max", "", 1), Job("min", "", 1), Job("summarize", "", 1),
     Job("bar", "", 1), Job("bar", "stacked", 2), Job("bar", "pie", 2),
     Job("line", "", 1), Job("line", "series", 1), Job("line", "", 2),
     Heatmap("count", 0, Slashed(1, 2), Slashed(3, 4), 0), Heatmap("count", 1, Slashed(1, 2), Iso(3, 4), 0),
     Heatmap("weights", 2, NoDate, Slashed(29, 2), 1), Heatmap("weights", 1, NoDate, NoDate, 1),
     Heatmap("count", 0, Iso(1, 2), NoDate, 1), Heatmap("count", 0, Iso(1, 2), NoDate, 0)}
    \union {Job("timeseries", how, 1) : how \in {"max", "min", "sum", "avg", "median"}}
    \union {Job("infer", how, 1) : how \in {"postgres", "sqlite"}}
    \union {Job("head", "", limit) : limit \in {0, 2, 10}}
    \union {[Job("head", "", 2) EXCEPT !.input = i] : i \in Inputs}
    \union SqlJobs

Blank == [kind |-> "blank", n |-> 0]
Text(n) == [kind |-> "text", n |-> n]
Num(n) == [kind |-> "number", n |-> n]

Rows(keys, xs, ys, dates) ==
    {[key |-> k, x |-> x, ys |-> y, date |-> d] : k \in keys, x \in xs, y \in ys, d \in dates}

One(cells) == {<<c>> : c \in cells}
Two(cells) == {<<c, d>> : c, d \in cells}

SomeRows == [j \in SomeJobs |->
    CASE j.cmd \in {"max", "min"} ->
            Rows({"a"}, {Blank}, One({Blank, Text(1), Text(3), Num(-1), Num(2), Num(4)}), {NoDate})
      [] j.cmd = "summarize" -> Rows({"a", "b"}, {Blank}, One({Text(1), Num(-1), Num(2), Num(3)}), {NoDate})
      [] j.cmd = "timeseries" -> Rows({"a", "b"}, {Text(1), Text(2)}, One({Text(1), Num(-1), Num(2)}), {NoDate})
      [] j.cmd = "bar" /\ j.values = 1 ->
            Rows({"a", "b"}, {Blank}, One({Blank, Text(1), Num(-1), Num(2)}), {NoDate})
      [] j.cmd = "bar" /\ j.values = 2 -> Rows({"a", "b"}, {Blank}, Two({Blank, Text(1), Num(2)}), {NoDate})
      [] j.cmd = "line" /\ j.values = 1 ->
            Rows({"a", "b"}, {Text(1), Num(0), Num(1)}, One({Blank, Num(2), Text(1)}), {NoDate})
      [] j.cmd = "line" /\ j.values = 2 -> Rows({"a"}, {Num(0), Num(1)}, Two({Blank, Num(2), Text(1)}), {NoDate})
      [] j.cmd = "infer" ->
            Rows({"a"}, {Blank}, One({Blank, Text(1)} \union {Num(w) : w \in 1..4}), {NoDate})
      [] j.cmd = "head" -> Rows({"a"}, {Blank}, One({Num(n) : n \in {0, 9, 40, 41}}), {NoDate})
      [] j.cmd = "filter" -> Rows({"a", "b"}, {Blank}, One({Num(1), Num(3)}), {NoDate})
      [] j.cmd \in {"derive", "query"} -> Rows({"a"}, {Blank}, One({Num(1), Num(3)}), {NoDate})
      [] j.cmd = "heatmap" ->
            Rows({"a"}, {Blank},
                 CASE j.values = 0 -> {<<>>} [] j.values = 1 -> One({Blank, Num(2), Text(1)})
                   [] j.values = 2 -> Two({Blank, Num(2)}) \union {<<Num(2), Text(1)>>},
                 {NoDate, Odd, Iso(2, 30), Iso(12, 31), Slashed(2, 3), Slashed(13, 5), Slashed(5, 31),
                  Slashed(31, 4), Slashed(13, 13), Slashed(0, 5)})]

LeapDay == <<2024, 2, 29>>

=============================================================================
