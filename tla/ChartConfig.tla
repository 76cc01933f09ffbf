----------------------------- MODULE ChartConfig -----------------------------
(***************************************************************************)
(* The entries of .csvzall/charts.json: how one is read (chart_spec.cpp,   *)
(* chart_schema.cpp), what a chart needs to be drawn (validation.cpp), and *)
(* how the viewer writes one back (view/charts.cpp).  The options of a     *)
(* chart are a function from keys to texts, `values` and `columns` to      *)
(* lists: of columns with the style they are drawn in, and of columns.     *)
(***************************************************************************)
EXTENDS Naturals, Sequences, FiniteSets

CONSTANT SanitizeChartId(_)  \* the id that the server makes of one that is posted

ChartTypes == {"heatmap", "bar", "line", "markdown-table"}

OptionKeys(type) ==
    CASE type = "heatmap" -> {"sql", "date", "start", "end", "lookback", "value", "values", "label",
                              "orientation", "title"}
      [] type = "bar" -> {"sql", "label", "value", "values", "colorScheme", "presentation", "title",
                          "xLabel", "yLabel"}
      [] type = "line" -> {"sql", "x", "y", "values", "colorScheme", "series", "title", "xLabel",
                           "yLabel"}
      [] OTHER -> {"sql", "columns"}

RequiredKeys(type) == CASE type = "bar" -> {"label"} [] type = "line" -> {"x"} [] OTHER -> {}

ListKeys == {"values", "columns"}

\* What says nothing.
Empty(key) == IF key \in ListKeys THEN <<>> ELSE ""

Default(key) ==
    CASE key = "date" -> "date"
      [] key = "orientation" -> "months-horizontal"
      [] key = "colorScheme" -> "sequential"
      [] key = "presentation" -> "stacked"
      [] OTHER -> Empty(key)

StyleKeys == {"orientation", "colorScheme", "presentation"}

Choices(key) ==
    CASE key = "orientation" -> {"months-horizontal", "months-vertical"}
      [] key = "colorScheme" -> {"sequential", "diverging"}
      [] OTHER -> {"stacked", "grouped"}

Spelt == [horizontal |-> "months-horizontal", vertical |-> "months-vertical",
          Diverging |-> "diverging", Grouped |-> "grouped"]

\* The choice that a text stands for; capitals, dashes and blanks do not count.
Style(key, text) ==
    IF text = "" THEN Default(key) ELSE IF text \in DOMAIN Spelt THEN Spelt[text] ELSE text

\* StartForLookback: blanks do not count, a length without a number is none.
Lookback(text) ==
    CASE text = "2 days" -> "2d" [] text = "1 0d" -> "10d" [] text = "soon" -> "" [] OTHER -> text

\* A column of `values` that is given by its name alone: the label is the name.
Plain(column) == [column |-> column, style |-> ""]

\* The options of a spec that was read: every key has a text or a list.
Filled(type, options) ==
    [k \in OptionKeys(type) |-> IF k \in DOMAIN options THEN options[k] ELSE Default(k)]

\* What a loop over a sequence collects that skips the positions outside `at`;
\* SelectSeq, but for the tests, which the prover cannot take apart there.
Kept(seq, at) ==
    [k \in 1..Cardinality(at) |-> seq[CHOOSE i \in at : Cardinality({j \in at : j <= i}) = k]]

\* ParseHeatmapOptions asks for start and end, or for lookback without start.
HeatmapRange(o) ==
    IF o.lookback = "" THEN o.start # "" /\ o.end # "" ELSE o.start = ""

\* An entry, a spec, or what the form posts.
IsChart(c) ==
    /\ {"id", "type", "output", "runOnSave", "options"} \subseteq DOMAIN c
    /\ c = [field \in DOMAIN c |-> c[field]]
    /\ c.options = [k \in DOMAIN c.options |-> c.options[k]]

\* Every column that is listed has a name (OptionalValues, OptionalStringArray).
ValuesAreNamed(o) == "values" \in DOMAIN o => \A i \in DOMAIN o.values : o.values[i].column # ""

ColumnsAreNamed(o) == "columns" \in DOMAIN o => \A i \in DOMAIN o.columns : o.columns[i] # ""

\* ParseChartEntry: an entry that does not parse makes LoadChartConfig throw.
Parses(e) ==
    /\ e.type \in ChartTypes
    /\ DOMAIN e.options \subseteq OptionKeys(e.type)
    /\ RequiredKeys(e.type) \subseteq DOMAIN e.options
    /\ ValuesAreNamed(e.options) /\ ColumnsAreNamed(e.options)
    /\ e.type = "heatmap" => HeatmapRange(Filled(e.type, e.options))

SpecOf(e) == [e EXCEPT !.options = Filled(e.type, @)]

\* ValidateChartSpecFields, but for what depends on the rows.
FieldsAreValid(spec) ==
    LET o == spec.options IN
    /\ spec.id # "" /\ spec.output # ""
    /\ \A k \in StyleKeys \cap DOMAIN o : Style(k, o[k]) \in Choices(k)
    /\ CASE spec.type = "heatmap" -> /\ o.date # "" /\ HeatmapRange(o)
                                     /\ o.lookback # "" => Lookback(o.lookback) # ""
         [] spec.type = "bar" -> o.label # "" /\ (o.value # "" \/ o.values # <<>>)
         [] spec.type = "line" -> /\ o.x # "" /\ (o.y # "" \/ o.values # <<>>)
                                  /\ ~(Len(o.values) > 1 /\ o.series # "")
         [] OTHER -> ~(o.sql # "" /\ o.columns # <<>>)

\* The option that names a single column, and which `values` takes the place of.
SingleValue(type) == CASE type = "line" -> "y" [] type = "markdown-table" -> "" [] OTHER -> "value"

AlwaysWritten(type, o) ==
    CASE type = "heatmap" -> {"date"} \union (IF o.lookback = "" THEN {"start", "end"} ELSE {})
      [] type = "bar" -> {"label"} \union (IF o.values = <<>> THEN {"value"} ELSE {})
      [] type = "line" -> {"x"} \union (IF o.values = <<>> THEN {"y"} ELSE {})
      [] OTHER -> {}

\* ChartOptionsForConfig: what says nothing is left out, and so is a single
\* column next to `values`.
OptionsForConfig(spec) ==
    LET o == spec.options IN
    [k \in AlwaysWritten(spec.type, o) \union
           {j \in OptionKeys(spec.type) : /\ o[j] \notin {Empty(j), Default(j)}
                                          /\ ~(j = SingleValue(spec.type) /\ o.values # <<>>)} |-> o[k]]

\* ChartSpecForConfig.
Entry(spec) == [spec EXCEPT !.options = OptionsForConfig(spec)]

\* Seeded fault: the form's text wins, which has no field for the query.
FormOverSql(spec, charts) == spec

\* The form has no sql field for charts that are drawn, and the first chart of
\* the same id and type lends its own.
PreserveConfigOnlySql(spec, charts) ==
    LET same == {i \in DOMAIN charts : charts[i].id = spec.id /\ charts[i].type = spec.type}
        first == CHOOSE i \in same : \A j \in same : i <= j
    IN IF spec.type # "markdown-table" /\ same # {} /\ spec.options.sql = ""
         THEN [spec EXCEPT !.options.sql = charts[first].options.sql] ELSE spec

\* The spec of what is posted, but for the query.
SpecOfBody(form) == [form EXCEPT !.id = SanitizeChartId(@), !.options = Filled(form.type, @)]

\* ChartSpecForBody
SpecForBody(form, charts) == PreserveConfigOnlySql(SpecOfBody(form), charts)

\* Seeded fault: the chart is added beside the one it replaces.
UpdatedBeside(charts, spec) == Append(charts, spec)

\* The first chart of that id is replaced, others of that id are dropped.
Updated(charts, spec) ==
    LET at == {i \in DOMAIN charts : charts[i].id = spec.id}
        first == {i \in at : \A j \in at : i <= j}
        replaced == [i \in DOMAIN charts |-> IF i \in at THEN spec ELSE charts[i]]
    IN IF at = {} THEN Append(charts, spec)
       ELSE Kept(replaced, (DOMAIN charts \ at) \union first)

\* What drawing a spec depends on: the charts read `values` before the single
\* column (EffectiveValues).
Meaning(spec) ==
    [spec EXCEPT !.options =
       [k \in DOMAIN @ |->
          IF k = SingleValue(spec.type) /\ @.values # <<>> THEN ""
          ELSE IF @[k] = Empty(k) /\ k # "date" THEN Default(k) ELSE @[k]]]

=============================================================================
