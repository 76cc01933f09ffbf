----------------------------- MODULE ChartForm -----------------------------
(***************************************************************************)
(* The form of the charts dialog (chart-form.mjs, over table-form.mjs and  *)
(* the requests of view/charts.cpp): it is filled from a chart of the      *)
(* list, edited, previewed, saved and drawn, and every answer may come     *)
(* after the user has edited, chosen another chart, cancelled the dialog   *)
(* or opened it again.  A request is one step of the server here;          *)
(* ChartStore takes requests apart.                                        *)
(***************************************************************************)
EXTENDS ChartConfig

CONSTANTS Header,       \* the columns of the CSV, as they were when the dialog opened
          StoredCharts, \* what charts.json may hold for this CSV
          Trim(_),      \* a text without the blanks around it
          OtherDates,   \* dates that are not spelt YYYY-MM-DD
          MaxSteps      \* bound: what the user does

Columns == {Header[i] : i \in DOMAIN Header}

\* What LoadChartConfig gives: every option has a text or a list, whatever is
\* listed has a name, and no two charts that the viewer shows have one id.
ChartsAreLoaded ==
    \A cs \in StoredCharts :
        /\ cs \in Seq({cs[i] : i \in DOMAIN cs})
        /\ \A i, j \in DOMAIN cs : cs[i].id = cs[j].id => i = j
        /\ \A i \in DOMAIN cs :
             LET o == cs[i].options IN
             /\ IsChart(cs[i]) /\ cs[i].type \in ChartTypes /\ DOMAIN o = OptionKeys(cs[i].type)
             /\ \A k \in ListKeys \cap DOMAIN o : o[k] \in Seq({o[k][n] : n \in DOMAIN o[k]})
             /\ ValuesAreNamed(o) /\ ColumnsAreNamed(o)

\* A column without a name, which no chart can list and be loaded again, is
\* ChartStore's case.
ASSUME FormAssumption ==
    MaxSteps \in Nat /\ Header \in Seq(Columns) /\ "" \notin Columns /\ ChartsAreLoaded

VARIABLES
    charts,            \* charts.json
    shown, opening,    \* the dialog, and open() under way
    listed, selected,  \* currentCharts, selectedChartId
    fields,            \* what the controls hold
    preview, current,  \* what the preview was drawn from; previewRevision is the pending one's
    generable,         \* the "Create chart" button
    call,              \* the request that keeps the form busy
    list,              \* the list that open() waits for
    steps

formVars == <<charts, shown, opening, listed, selected, fields, preview, current, generable, call,
              list, steps>>

----------------------------------------------------------------------------
(* From a chart to the controls, and back.                                 *)

\* A select shows nothing for a column that is not there, nor for a spelling of a
\* choice that the server takes and the page does not have; nor does a date input
\* for another spelling of a date.
Select(column) == IF column \in Columns THEN column ELSE ""

SelectOption(key, text) == IF text \in Choices(key) THEN text ELSE ""

DateShown(text) == IF text \in OtherDates THEN "" ELSE text

\* A number and a unit; what is neither shows as one year.
parseLookback(text) == IF text \in {"", "1 0d", "soon"} THEN "1y" ELSE Lookback(text)

\* renderColumns: a box for each column of the CSV, in the order of the CSV.
Checked(columns) == {i \in DOMAIN Header : \E n \in DOMAIN columns : columns[n] = Header[i]}

Option(chart, key) == IF key \in DOMAIN chart.options THEN chart.options[key] ELSE Empty(key)

\* EffectiveValues, and optionValues of the form.
ValueSpecs(chart) ==
    LET single == Option(chart, SingleValue(chart.type)) IN
    IF Option(chart, "values") # <<>> THEN chart.options.values
    ELSE IF single # "" THEN <<Plain(single)>> ELSE <<>>

ValueColumn(chart, i) == IF i \in DOMAIN ValueSpecs(chart) THEN ValueSpecs(chart)[i].column ELSE ""

DateKey(type) == CASE type = "heatmap" -> "date" [] type = "line" -> "x" [] OTHER -> "label"

LabelKey(type) == IF type = "line" THEN "series" ELSE "label"

\* valuesFromChart and applyChartValues: of a column of `values`, the name alone.
\* A range that rolls has a length even while the form shows fixed dates.
Shown(chart) ==
    [type |-> chart.type, id |-> chart.id, output |-> chart.output, runOnSave |-> chart.runOnSave,
     title |-> Option(chart, "title"),
     date |-> Select(Option(chart, DateKey(chart.type))),
     value |-> Select(ValueColumn(chart, 1)), value2 |-> Select(ValueColumn(chart, 2)),
     label |-> Select(Option(chart, LabelKey(chart.type))),
     rolling |-> Option(chart, "lookback") # "",
     lookback |-> parseLookback(Option(chart, "lookback")),
     start |-> DateShown(Option(chart, "start")), end |-> DateShown(Option(chart, "end")),
     table |-> IF Option(chart, "sql") # "" THEN "sql"
               ELSE IF Option(chart, "columns") # <<>> THEN "columns" ELSE "all",
     sql |-> Option(chart, "sql"), checked |-> Checked(Option(chart, "columns")),
     style |-> [k \in StyleKeys |->
                  IF k \in DOMAIN chart.options THEN SelectOption(k, chart.options[k]) ELSE Default(k)]]

\* defaultChartValues; the id is made from the type.
Defaults == [type \in ChartTypes |->
    Shown([type |-> type, id |-> type, output |-> "a.svg", runOnSave |-> TRUE,
           options |-> CASE type = "heatmap" -> [title |-> "t", date |-> "c1", value |-> "c2", lookback |-> "1y"]
                         [] type = "bar" -> [title |-> "t", label |-> "c1", value |-> "c2"]
                         [] type = "line" -> [title |-> "t", x |-> "c1", y |-> "c2"]
                         [] OTHER -> [columns |-> Header]])]

Named(column) == IF column = "" THEN <<>> ELSE <<Plain(column)>>

\* Seeded fault: the second column is forgotten.
SelectedFirst(f) == Named(f.value)

\* selectedValueColumns, and ChartValuesFromColumns of what is posted.
Selected(f) == Named(f.value) \o Named(f.value2)

\* getPayload: the options of each type, or nothing when the table is incomplete.
Complete(f) ==
    f.type = "markdown-table" => /\ f.table = "sql" => Trim(f.sql) # ""
                                 /\ f.table = "columns" => f.checked # {}

Payload(f) ==
    LET several == Len(Selected(f)) > 1
        values == IF several THEN Selected(f) ELSE <<>>
        single == IF Len(Selected(f)) = 1 THEN Selected(f)[1].column ELSE ""
    IN CASE f.type = "heatmap" ->
              [date |-> f.date, value |-> single, values |-> values, label |-> f.label,
               title |-> Trim(f.title), lookback |-> IF f.rolling THEN f.lookback ELSE "",
               start |-> IF f.rolling THEN "" ELSE f.start, end |-> IF f.rolling THEN "" ELSE f.end,
               orientation |-> f.style.orientation]
         [] f.type = "bar" ->
              [label |-> f.date, value |-> single, values |-> values, title |-> Trim(f.title),
               colorScheme |-> f.style.colorScheme, presentation |-> f.style.presentation]
         [] f.type = "line" ->
              [x |-> f.date, y |-> single, values |-> values, title |-> Trim(f.title),
               colorScheme |-> f.style.colorScheme, series |-> IF several THEN "" ELSE f.label]
         [] OTHER -> [sql |-> IF f.table = "sql" THEN Trim(f.sql) ELSE "",
                      columns |-> IF f.table = "columns" THEN Kept(Header, f.checked) ELSE <<>>]

Posted(f) ==
    [id |-> Trim(f.id), type |-> f.type, output |-> Trim(f.output), runOnSave |-> f.runOnSave,
     options |-> Payload(f)]

\* ChartSpecForBody of what the form posts.
SpecOfForm(f) == SpecForBody(Posted(f), charts)

\* What charts.json has once a chart is saved, as it is read from then on.
Stored(spec) ==
    LET new == Updated(charts, spec) IN [i \in DOMAIN new |-> SpecOf(Entry(new[i]))]

----------------------------------------------------------------------------
(* The form.                                                               *)

NoCall == [kind |-> "no", stage |-> "no", fields |-> <<>>, reply |-> <<>>]

IsAt(c, kind, stage) == c.kind = kind /\ c.stage = stage

FormInit ==
    /\ charts \in StoredCharts
    /\ shown = FALSE /\ opening = FALSE /\ listed = <<>> /\ selected = ""
    /\ fields = Defaults["heatmap"] /\ preview = <<>> /\ current = FALSE
    /\ generable = FALSE /\ call = NoCall /\ list = NoCall /\ steps = 0

ClearPreview == preview' = <<>> /\ current' = FALSE

\* applyChartValues
Fill(f, in) ==
    /\ fields' = f /\ selected' = f.id
    /\ generable' = (\E i \in DOMAIN in : in[i].id = f.id)
    /\ ClearPreview

WithId(in, id) == Kept(in, {i \in DOMAIN in : in[i].id = id})

\* loadChartList, once it has the charts: whatever the controls hold is replaced.
Load(in) ==
    /\ listed' = in
    /\ LET same == WithId(in, selected) IN
       Fill(IF same # <<>> THEN Shown(same[1])
            ELSE IF in # <<>> THEN Shown(in[1]) ELSE Defaults["heatmap"], in)

Acts == steps < MaxSteps /\ steps' = steps + 1

Open ==
    /\ Acts /\ ~shown /\ ~opening
    /\ shown' = TRUE /\ opening' = TRUE /\ ClearPreview
    /\ list' = [NoCall EXCEPT !.kind = "list", !.stage = "posted"]
    /\ UNCHANGED <<charts, listed, selected, fields, generable, call>>

\* The answer of the list may have been outrun by a save.
ListServed ==
    /\ list.stage = "posted"
    /\ list' \in {[list EXCEPT !.stage = "done", !.reply = charts], [list EXCEPT !.stage = "refused"]}
    /\ UNCHANGED <<charts, shown, opening, listed, selected, fields, preview, current, generable,
                   call, steps>>

ListTaken ==
    /\ list.stage \in {"done", "refused"}
    /\ opening' = FALSE /\ list' = NoCall
    /\ IF list.stage = "done" THEN Load(list.reply)
       ELSE UNCHANGED <<listed, selected, fields, preview, current, generable>>
    /\ UNCHANGED <<charts, shown, call, steps>>

\* Cancel hides the dialog, and whatever it waits for goes on.
Cancel ==
    /\ Acts /\ shown /\ shown' = FALSE
    /\ UNCHANGED <<charts, opening, listed, selected, fields, preview, current, generable, call, list>>

\* Some of what can be typed where the type has a control for it; the
\* listeners of the form clear the preview.
Edits ==
    {[fields EXCEPT !.runOnSave = ~@]}
      \union (IF fields.type = "markdown-table" THEN {[fields EXCEPT !.table = m] : m \in {"all", "columns", "sql"}}
              ELSE {[fields EXCEPT !.value2 = c] : c \in {"", Select("c2")}})
      \union (IF fields.type = "heatmap" THEN {[fields EXCEPT !.rolling = ~@]} ELSE {})

Edit ==
    /\ Acts /\ shown
    /\ fields' \in Edits \ {fields} /\ ClearPreview
    /\ UNCHANGED <<charts, shown, opening, listed, selected, generable, call, list>>

\* A click in the list.
Choose ==
    /\ Acts /\ shown
    /\ \E i \in DOMAIN listed : Fill(Shown(listed[i]), listed)
    /\ UNCHANGED <<charts, shown, opening, listed, call, list>>

\* New, or another type: defaults, and no chart is selected.
Start ==
    /\ Acts /\ shown
    /\ \E type \in ChartTypes : fields' = Defaults[type]
    /\ selected' = "" /\ generable' = FALSE /\ ClearPreview
    /\ UNCHANGED <<charts, shown, opening, listed, call, list>>

----------------------------------------------------------------------------
(* Requests that keep the form busy.                                       *)

Post(kind) == call' = [kind |-> kind, stage |-> "posted", fields |-> fields, reply |-> <<>>]

Free == call.kind = "no"

AskPreview ==
    /\ Acts /\ shown /\ Free
    /\ preview' = <<>>
    /\ IF Complete(fields) THEN Post("preview") /\ current' = TRUE
                           ELSE UNCHANGED call /\ current' = FALSE
    /\ UNCHANGED <<charts, shown, opening, listed, selected, fields, generable, list>>

AskSave ==
    /\ Acts /\ shown /\ Free /\ Complete(fields)
    /\ Post("save")
    /\ UNCHANGED <<charts, shown, opening, listed, selected, fields, preview, current, generable, list>>

AskGenerate ==
    /\ Acts /\ shown /\ Free /\ generable
    /\ generable' = FALSE /\ Post("generate")
    /\ UNCHANGED <<charts, shown, opening, listed, selected, fields, preview, current, list>>

\* Validation also looks at the rows, which may not suit.
Accepted(spec) == {FALSE} \union (IF FieldsAreValid(spec) THEN {TRUE} ELSE {})

Answered(ok) ==
    call' = [call EXCEPT !.stage = IF ok THEN "done" ELSE "refused",
                         !.reply = IF ok /\ call.kind = "relist" THEN charts ELSE <<>>]

\* A preview changes nothing, a save stores the chart, and a chart that is
\* stored may be drawn.
Serve ==
    /\ call.stage = "posted"
    /\ \/ /\ call.kind = "preview" /\ UNCHANGED charts
          /\ \E ok \in Accepted([SpecOfForm(call.fields) EXCEPT !.output = "p"]) : Answered(ok)
       \/ /\ call.kind = "save"
          /\ LET spec == SpecOfForm(call.fields) IN
             \E ok \in Accepted(spec) :
               Answered(ok) /\ charts' = IF ok THEN Stored(spec) ELSE charts
       \/ /\ call.kind = "generate" /\ UNCHANGED charts
          /\ \E ok \in BOOLEAN : (ok => WithId(charts, Trim(call.fields.id)) # <<>>) /\ Answered(ok)
       \/ call.kind = "relist" /\ UNCHANGED charts /\ \E ok \in BOOLEAN : Answered(ok)
    /\ UNCHANGED <<shown, opening, listed, selected, fields, preview, current, generable, list, steps>>

\* Seeded fault: the answer is shown whatever was edited meanwhile.
PreviewTakenLate ==
    /\ IsAt(call, "preview", "done") /\ call' = NoCall
    /\ preview' = <<call.fields>>
    /\ UNCHANGED <<charts, shown, opening, listed, selected, fields, current, generable, list, steps>>

PreviewTaken ==
    /\ IsAt(call, "preview", "done") /\ call' = NoCall
    /\ preview' = IF current THEN <<call.fields>> ELSE preview
    /\ UNCHANGED <<charts, shown, opening, listed, selected, fields, current, generable, list, steps>>

GenerateTaken ==
    /\ call.kind = "generate" /\ call.stage # "posted"
    /\ call' = NoCall /\ generable' = TRUE
    /\ UNCHANGED <<charts, shown, opening, listed, selected, fields, preview, current, list, steps>>

\* The chart was saved: the list is asked for once more ...
SaveTaken ==
    /\ IsAt(call, "save", "done")
    /\ selected' = SanitizeChartId(Trim(call.fields.id))
    /\ call' = [call EXCEPT !.kind = "relist", !.stage = "posted"]
    /\ UNCHANGED <<charts, shown, opening, listed, fields, preview, current, generable, list, steps>>

\* ... and the dialog that is open by then closes.
RelistTaken ==
    /\ IsAt(call, "relist", "done") /\ Load(call.reply)
    /\ call' = NoCall /\ shown' = FALSE
    /\ UNCHANGED <<charts, opening, list, steps>>

\* Seeded fault: only the error is shown.
RefusedInert ==
    /\ call.stage = "refused" /\ call.kind # "generate"
    /\ UNCHANGED formVars

Refused ==
    /\ call.stage = "refused" /\ call.kind # "generate" /\ call' = NoCall
    /\ UNCHANGED <<charts, shown, opening, listed, selected, fields, preview, current, generable,
                   list, steps>>

Answer == PreviewTaken \/ GenerateTaken \/ SaveTaken \/ RelistTaken \/ Refused

FormNext ==
    \/ Open \/ ListServed \/ ListTaken \/ Cancel \/ Edit \/ Choose \/ Start
    \/ AskPreview \/ AskSave \/ AskGenerate \/ Serve \/ Answer

FormSpec == FormInit /\ [][FormNext]_formVars /\ WF_formVars(Serve) /\ WF_formVars(Answer)

----------------------------------------------------------------------------
(* Properties.                                                             *)

\* Types; the list names each chart once, and one request at a time is under way.
FormTypeOK ==
    /\ shown \in BOOLEAN /\ opening \in BOOLEAN /\ generable \in BOOLEAN /\ steps \in 0..MaxSteps
    /\ opening <=> list.kind # "no"
    /\ fields.type \in ChartTypes /\ {fields.value, fields.value2, fields.date} \subseteq Columns \union {""}
    /\ \A i, j \in DOMAIN charts : charts[i].id = charts[j].id => i = j
    /\ call.stage = "no" <=> Free

\* "Edits invalidate visible and pending previews" (docs/shared-viewer-shell.md,
\* "Chart previews"): a preview that is visible was drawn from what the controls
\* hold now, whichever way they were changed since, by the user or by an answer.
PreviewIsOfTheForm == preview # <<>> => preview = <<fields>>

\* What an option says to the drawing.
DrawnOption(o, k) ==
    CASE k = "end" /\ o.lookback # "" -> ""
      [] k = "lookback" -> Lookback(o[k])
      [] k \in StyleKeys -> Style(k, o[k])
      [] OTHER -> o[k]

\* What is drawn from a chart, of all that the form has controls for: there is none
\* for the labels of axes, for a third column, nor for an end beside a lookback.
\* A heatmap names the columns it draws once they are listed.
Drawn(chart) ==
    [id |-> chart.id, type |-> chart.type, output |-> chart.output, runOnSave |-> chart.runOnSave,
     values |-> [i \in {1, 2} \cap DOMAIN ValueSpecs(chart) |-> ValueSpecs(chart)[i]],
     names |-> chart.type = "heatmap" /\ Option(chart, "values") # <<>>,
     options |-> [k \in OptionKeys(chart.type) \ {"xLabel", "yLabel", "values", "value", "y"} |->
                    DrawnOption(chart.options, k)]]

\* What the form can hold: an id that is not spelt anew, texts without blanks around
\* them, columns that the CSV has (those of a table in the order of the CSV), values
\* without a label or a colour of their own, of which a heatmap does not list one
\* alone, and choices and lengths in a spelling that its controls have.
FormHolds(chart) ==
    LET o == chart.options
        values == ValueSpecs(chart)
    IN /\ SanitizeChartId(Trim(chart.id)) = chart.id /\ Trim(chart.output) = chart.output
       /\ Trim(Option(chart, "title")) = Option(chart, "title")
       /\ chart.type = "markdown-table" => Trim(o.sql) = o.sql
       /\ \A k \in {"date", "label", "x", "series"} \cap DOMAIN o : o[k] \in Columns \union {""}
       /\ \A i \in {1, 2} \cap DOMAIN values : values[i] \in {Plain(column) : column \in Columns}
       /\ chart.type = "heatmap" => /\ Len(o.values) # 1
                                    /\ o.lookback # "" => parseLookback(o.lookback) = Lookback(o.lookback)
       /\ \A k \in StyleKeys \cap DOMAIN o : o[k] \in Choices(k) \/ Style(k, o[k]) = Default(k)
       /\ chart.type = "markdown-table" => o.columns = Kept(Header, Checked(o.columns))

DrawnOf(cs) == {Drawn(cs[i]) : i \in DOMAIN cs}

\* Saving a chart that was not edited, and that the form can hold, changes nothing
\* of what is drawn from it (its query, the columns of values however they were
\* written, those of a table, its range, whether it runs on save), nor from others.
SaveKeepsTheChart ==
    [][\A i \in DOMAIN charts :
         LET old == charts[i] IN
         (/\ IsAt(call, "save", "posted") /\ IsAt(call', "save", "done")
          /\ call.fields = Shown(old) /\ FormHolds(old) /\ FieldsAreValid(old))
           => DrawnOf(charts') = DrawnOf(charts)]_formVars

\* Whatever is answered, the form can be used again.
FormGetsFree == [](~Free => <>Free)

=============================================================================
