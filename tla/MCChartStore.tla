---------------------------- MODULE MCChartStore ----------------------------
(* Every combination of the options that decide how an entry is read and   *)
(* written, one chart of another CSV, and the irregular configurations.    *)
EXTENDS ChartStore

SanitizeId(id) == IF id = "X" THEN "x" ELSE id

Two == <<Plain("c"), [column |-> "d", style |-> "red"]>>

Posted == <<Plain("c"), Plain("d")>>

Some(key) == CASE key = "values" -> Two [] key = "columns" -> <<"c">> [] OTHER -> "t"

OptionsOver(required, keys) ==
    {[k \in required \union some |-> Some(k)] : some \in SUBSET keys}

Chart(id, type, input, output, onSave, options) ==
    [id |-> id, type |-> type, input |-> input, output |-> output, runOnSave |-> onSave,
     options |-> options]

Mine(type, options) == Chart("x", type, CsvFile, "a.svg", TRUE, options)

Written ==
    {Mine("heatmap", o) : o \in OptionsOver({}, {"start", "end", "lookback", "value", "values", "sql"})}
    \union {Mine("bar", o) : o \in OptionsOver({"label"}, {"value", "values", "sql"})}
    \union {Mine("line", o) : o \in OptionsOver({}, {"x", "y", "values", "series"})}
    \union {Mine("markdown-table", o) : o \in OptionsOver({}, {"sql", "columns"})}

Other == Chart("y", "line", "other.csv", "b.svg", TRUE, [x |-> "t", y |-> "t", series |-> "t"])

Bar(output, onSave) == Chart("x", "bar", CsvFile, output, onSave, [label |-> "t", value |-> "t"])

Heatmap(id) == Chart(id, "heatmap", CsvFile, "b.svg", TRUE, [lookback |-> "t", end |-> "t", sql |-> "t"])

SomeConfigs ==
    {<<e>> : e \in Written} \union
    {<<Other, Heatmap("x"), Bar("a.svg", FALSE)>>,
     <<Bar(CsvFile, TRUE), Heatmap("z")>>,
     <<Bar("", TRUE), Other>>,
     <<Mine("bar", [label |-> "t", colour |-> "t"]), Heatmap("z")>>,
     <<Mine("markdown-table", [columns |-> <<"c", "">>]), Heatmap("z")>>}

SomeForms ==
    {Chart("x", "heatmap", CsvFile, "a.svg", TRUE, [date |-> "t", lookback |-> "t"]),
     Chart("x", "heatmap", CsvFile, "a.svg", TRUE, [start |-> "t", title |-> "t"]),
     Chart("X", "bar", CsvFile, "a.svg", FALSE, [label |-> "t", values |-> Posted]),
     Chart("z", "line", CsvFile, "b.svg", TRUE, [x |-> "t", values |-> Posted, series |-> "t"]),
     Chart("z", "markdown-table", CsvFile, "b.svg", TRUE, [columns |-> <<"c", "">>])}

=============================================================================
