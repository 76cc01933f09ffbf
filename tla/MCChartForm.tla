---------------------------- MODULE MCChartForm ----------------------------
(* Charts of each type in every way they may have been written, those that *)
(* the form cannot hold among them.                                        *)
EXTENDS ChartForm

TrimText(text) == IF text = " t " THEN "t" ELSE text

SanitizeId(id) == IF id = "X" THEN "x" ELSE id

TheHeader == <<"c1", "c2", "c3">>

Chart(id, type, options) ==
    [id |-> id, type |-> type, output |-> IF id = "w" THEN " t " ELSE "a.svg", runOnSave |-> id # "y",
     options |-> Filled(type, options)]

One == <<Plain("c2")>>

Two == <<Plain("c2"), Plain("c3")>>

Three == <<Plain("c3"), Plain("c1"), [column |-> "c2", style |-> "red"]>>

Red == <<[column |-> "c2", style |-> "red"], Plain("c1")>>

Heatmaps ==
    {<<Chart("x", "heatmap", [date |-> "c1", value |-> "c1", values |-> Three, lookback |-> "2 days",
                              end |-> "2024-01-01", orientation |-> "months-vertical", sql |-> "q"]),
       Chart("y", "heatmap", [date |-> "c1", values |-> One, lookback |-> "2d"]),
       Chart("z", "heatmap", [date |-> "c1", lookback |-> "1y", orientation |-> "vertical"])>>,
     <<Chart("x", "heatmap", [date |-> "c1", value |-> "c2", label |-> "c3", start |-> "2023-01-01",
                              end |-> "2024-01-01", orientation |-> "horizontal", title |-> "t"]),
       Chart("y", "heatmap", [date |-> "c1", start |-> "2023-01-01", end |-> "1/1/2024"]),
       Chart("z", "heatmap", [date |-> "c1", value |-> "c2", lookback |-> "1 0d"])>>,
     <<Chart("x", "heatmap", [date |-> "c1", value |-> "gone", lookback |-> "1y", orientation |-> ""]),
       Chart("y", "heatmap", [date |-> "c1", label |-> "gone", lookback |-> "1y"]),
       Chart("z", "heatmap", [date |-> "gone", lookback |-> "soon"])>>}

Bars ==
    {<<Chart("x", "bar", [label |-> "c3", value |-> "c1", yLabel |-> "t", presentation |-> "grouped"]),
       Chart("y", "bar", [label |-> "c3", value |-> "c1", values |-> Two, presentation |-> "Grouped"])>>,
     <<Chart("x", "bar", [label |-> "c3", values |-> Red, sql |-> "q", colorScheme |-> ""]),
       Chart("y", "bar", [label |-> "c3", value |-> "c1", title |-> " t "])>>}

Lines ==
    {<<Chart("x", "line", [x |-> "c1", y |-> "c1", series |-> "c3", sql |-> "q"]),
       Chart("y", "line", [x |-> "c1", values |-> One, series |-> "c3", colorScheme |-> "diverging"]),
       Chart("z", "line", [x |-> "c1", values |-> Two, series |-> "c3"])>>}

Table(id, columns) == Chart(id, "markdown-table", [columns |-> columns])

Tables ==
    {<<Table("x", <<>>), Table("y", <<"c1", "c3">>), Table("z", <<"c3", "c1">>)>>,
     <<Table("x", <<"c1", "gone">>), Table("y", <<"gone">>), Table("z", <<"c1", "c1">>)>>,
     <<Chart("x", "markdown-table", [sql |-> "q"]), Table("X", <<"c1">>)>>,
     <<Chart("x", "markdown-table", [sql |-> " t "]), Table("w", <<"c1">>),
       Chart("z", "markdown-table", [sql |-> "q", columns |-> <<"c1">>])>>}

SomeCharts == {<<>>} \union Heatmaps \union Bars \union Lines \union Tables

=============================================================================
