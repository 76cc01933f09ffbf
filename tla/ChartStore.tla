----------------------------- MODULE ChartStore -----------------------------
(***************************************************************************)
(* Charts of the viewer and of `csvzall charts run` (view/charts.cpp,      *)
(* commands/chart.cpp, commands/charts.cpp): charts.json is read, changed  *)
(* and written back, and charts are drawn into their output files, by the  *)
(* server's threads and by other processes, with no lock between them.     *)
(* A build with SVG charts; a request is a sequence of steps, one per file *)
(* it reads, truncates or writes.                                          *)
(***************************************************************************)
EXTENDS ChartConfig

CONSTANTS Proc,        \* requests under way
          CsvFile,     \* the CSV the viewer shows
          Forms,       \* what the chart form may send
          Configs,     \* what charts.json may hold to begin with
          MaxRequests, \* bound: requests made
          MaxKills     \* bound: times the viewer is killed

\* A form has no field for the query of a chart that is drawn, and lists values by
\* their names (selectedValueColumns, ChartValuesFromColumns).
FormsArePosted ==
    \A form \in Forms : IsChart(form) /\ "input" \in DOMAIN form /\ form.type \in ChartTypes
                       /\ (form.type # "markdown-table" => "sql" \notin DOMAIN form.options)
                       /\ ValuesAreNamed(form.options)

EntriesAreRead ==
    \A es \in Configs : /\ es \in Seq({es[i] : i \in DOMAIN es})
                        /\ \A i \in DOMAIN es : IsChart(es[i]) /\ "input" \in DOMAIN es[i]

ASSUME StoreAssumption == MaxRequests \in Nat /\ MaxKills \in Nat /\ FormsArePosted /\ EntriesAreRead

VARIABLES
    config,            \* <<"missing">>, <<"torn">> or <<"charts", entries>>
    files,             \* path -> "csv", "none", "empty", or the id of the chart in it
    req,               \* what each request is doing
    temps,             \* requests that have a temporary preview directory
    made, kills,
    lastWhole, before, \* history: the last whole charts.json, and the one before
    overlapped         \* history: two saves were under way at once

vars == <<config, files, req, temps, made, kills, lastWhole, before, overlapped>>

Idle == [op |-> "none", pc |-> "idle", form |-> <<>>, base |-> <<>>, todo |-> <<>>, tried |-> {}]

Paths == {CsvFile, "a.svg", "b.svg"}

Init ==
    /\ config \in {<<"charts", c>> : c \in Configs} \union {<<"missing">>}
    /\ files = [p \in Paths |-> IF p = CsvFile THEN "csv" ELSE "none"]
    /\ req = [p \in Proc |-> Idle] /\ temps = {} /\ made = 0 /\ kills = 0
    /\ lastWhole = config /\ before = config /\ overlapped = FALSE

Step(p, r) == req' = [req EXCEPT ![p] = r]

Ends(p) == Step(p, Idle)

----------------------------------------------------------------------------
(* charts.json.                                                            *)

Entries == IF config[1] = "charts" THEN config[2] ELSE <<>>

\* LoadChartConfigIfExists: one entry that does not parse, or a file caught
\* while it is being written, and nothing loads.
Loads == config[1] # "torn" /\ \A i \in DOMAIN Entries : Parses(Entries[i])

Loaded == [i \in DOMAIN Entries |-> SpecOf(Entries[i])]

OfThisCsv(spec) == spec.input = CsvFile

----------------------------------------------------------------------------
(* Requests.                                                               *)

Starts(p, r) ==
    /\ req[p] = Idle /\ made < MaxRequests
    /\ made' = made + 1
    /\ Step(p, r)

\* AppendHeatmapChartConfig loads the charts it will write back ...
StartSave(p) ==
    \E form \in Forms :
      /\ Starts(p, IF Loads THEN [Idle EXCEPT !.op = "save", !.pc = "spec", !.form = form,
                                              !.base = Loaded]
                            ELSE Idle)
      /\ overlapped' = (overlapped \/ \E q \in Proc : req[q].op = "save")
      /\ UNCHANGED <<config, files, temps, kills, lastWhole, before>>

\* ... and ChartSpecForBody loads them once more.
BuildSpec(p) ==
    /\ req[p].op \in {"save", "preview"} /\ req[p].pc = "spec"
    /\ IF Loads THEN Step(p, [req[p] EXCEPT !.form = SpecForBody(req[p].form, Loaded),
                                            !.pc = "validate"])
                ELSE Ends(p)
    /\ UNCHANGED <<config, files, temps, made, kills, lastWhole, before, overlapped>>

\* A chart of the CSV in the viewer has rows to read unless they were destroyed.
Readable(spec) == OfThisCsv(spec) => files[CsvFile] = "csv"

\* Seeded fault: only the rows are looked at.
ValidatesRows(spec) == {ok \in BOOLEAN : ok => Readable(spec)}

\* ValidateChartBeforeSave draws the chart into memory: the fields must be
\* right, and the CSV must have rows and columns that suit.
Validates(spec) == {ok \in BOOLEAN : ok => FieldsAreValid(spec) /\ Readable(spec)}

Validate(p) ==
    /\ req[p].op = "save" /\ req[p].pc = "validate"
    /\ \E ok \in Validates(req[p].form) :
         IF ok THEN Step(p, [req[p] EXCEPT !.pc = "open"]) ELSE Ends(p)
    /\ UNCHANGED <<config, files, temps, made, kills, lastWhole, before, overlapped>>

\* The text is made first: a chart without output stops the save before the
\* file is truncated.
OpenConfig(p) ==
    /\ req[p].op = "save" /\ req[p].pc = "open"
    /\ IF \A i \in DOMAIN Updated(req[p].base, req[p].form) :
            Updated(req[p].base, req[p].form)[i].output # ""
         THEN config' = <<"torn">> /\ Step(p, [req[p] EXCEPT !.pc = "write"])
         ELSE Ends(p) /\ UNCHANGED config
    /\ UNCHANGED <<files, temps, made, kills, lastWhole, before, overlapped>>

\* WriteTextFile; or the disk is full, and what was there is gone.
WriteConfig(p) ==
    /\ req[p].op = "save" /\ req[p].pc = "write"
    /\ \/ LET charts == Updated(req[p].base, req[p].form)
              whole == <<"charts", [i \in DOMAIN charts |-> Entry(charts[i])]>> IN
          /\ config' = whole /\ lastWhole' = whole /\ before' = lastWhole
          /\ Step(p, [req[p] EXCEPT !.pc = "draw", !.todo = <<req[p].form>>])
       \/ Ends(p) /\ config' = <<"torn">> /\ UNCHANGED <<lastWhole, before>>
    /\ UNCHANGED <<files, temps, made, kills, overlapped>>

\* GenerateCurrentCsvChart, for a chart the viewer lists.
StartGenerate(p) ==
    /\ \E i \in DOMAIN Loaded :
         /\ Loads /\ OfThisCsv(Loaded[i])
         /\ \A j \in 1..(i - 1) : ~(OfThisCsv(Loaded[j]) /\ Loaded[j].id = Loaded[i].id)
         /\ Starts(p, IF Loaded[i].output = "" THEN Idle
                      ELSE [Idle EXCEPT !.op = "generate", !.pc = "draw", !.todo = <<Loaded[i]>>])
    /\ UNCHANGED <<config, files, temps, kills, lastWhole, before, overlapped>>

\* Seeded fault: the CSV is not spared.
DrawnOnSaveAll == Kept(Loaded, {i \in DOMAIN Loaded : Loaded[i].runOnSave /\ OfThisCsv(Loaded[i])})

\* A chart whose output is the CSV itself would destroy what was just saved.
DrawnOnSave ==
    Kept(Loaded, {i \in DOMAIN Loaded : /\ Loaded[i].runOnSave /\ OfThisCsv(Loaded[i])
                                        /\ Loaded[i].output # CsvFile})

\* RenderRunOnSaveChartsForCurrentCsv, after the CSV was saved.
StartRunOnSave(p) ==
    /\ Starts(p, IF Loads THEN [Idle EXCEPT !.op = "onSave", !.pc = "draw", !.todo = DrawnOnSave]
                          ELSE Idle)
    /\ files' = [files EXCEPT ![CsvFile] = "csv"]
    /\ UNCHANGED <<config, temps, kills, lastWhole, before, overlapped>>

\* LoadChartConfigAllowingInvalidCharts, whose charts may be asked for by id.
ValidCharts(id) ==
    LET valid == Kept(Entries, {i \in DOMAIN Entries : Parses(Entries[i]) /\ id \in {"", Entries[i].id}}) IN
    [i \in DOMAIN valid |-> SpecOf(valid[i])]

\* `charts run [id]`: entries that do not parse are reported, the others drawn.
StartRun(p) ==
    /\ config[1] = "charts"
    /\ \E id \in {""} \union {Entries[i].id : i \in DOMAIN Entries} :
         Starts(p, [Idle EXCEPT !.op = "run", !.pc = "draw", !.todo = ValidCharts(id),
                                !.base = ValidCharts(id)])
    /\ UNCHANGED <<config, files, temps, kills, lastWhole, before, overlapped>>

StartPreview(p) ==
    \E form \in Forms :
      /\ Starts(p, [Idle EXCEPT !.op = "preview", !.pc = "spec", !.form = form])
      /\ UNCHANGED <<config, files, temps, kills, lastWhole, before, overlapped>>

\* PreviewCurrentCsvChart draws into a directory of its own ...
Preview(p) ==
    /\ req[p].op = "preview" /\ req[p].pc = "validate"
    /\ temps' = temps \union {p}
    /\ Step(p, [req[p] EXCEPT !.pc = "cleanup"])
    /\ UNCHANGED <<config, files, made, kills, lastWhole, before, overlapped>>

\* ... which goes away whether the drawing succeeded or threw.
EndPreview(p) ==
    /\ req[p].pc = "cleanup"
    /\ temps' = temps \ {p} /\ Ends(p)
    /\ UNCHANGED <<config, files, made, kills, lastWhole, before, overlapped>>

\* Seeded fault: a run stops at the first chart that fails.
AfterDrawingAny(r, ok) ==
    IF Len(r.todo) = 1 \/ ~ok THEN Idle
    ELSE [r EXCEPT !.pc = "draw", !.todo = Tail(@), !.tried = @ \union {Head(r.todo)}]

\* `charts run` goes on after a chart that fails; the viewer stops.
AfterDrawing(r, ok) ==
    IF Len(r.todo) = 1 \/ (~ok /\ r.op # "run") THEN Idle
    ELSE [r EXCEPT !.pc = "draw", !.todo = Tail(@), !.tried = @ \union {Head(r.todo)}]

\* RunChart: fields and input are looked at before the output is truncated.
OpenOutput(p) ==
    /\ req[p].pc = "draw" /\ req[p].todo # <<>>
    /\ LET chart == Head(req[p].todo) IN
       IF FieldsAreValid(chart)
         THEN /\ files' = [files EXCEPT ![chart.output] = "empty"]
              /\ Step(p, [req[p] EXCEPT !.pc = "drawing"])
         ELSE Step(p, AfterDrawing(req[p], FALSE)) /\ UNCHANGED files
    /\ UNCHANGED <<config, temps, made, kills, lastWhole, before, overlapped>>

NothingToDraw(p) ==
    /\ req[p].pc = "draw" /\ req[p].todo = <<>> /\ Ends(p)
    /\ UNCHANGED <<config, files, temps, made, kills, lastWhole, before, overlapped>>

\* The chart is written, or drawing it fails and its output stays empty.  A
\* CSV that was truncated under the reader has no header to draw from.
Draw(p) ==
    /\ req[p].pc = "drawing"
    /\ LET chart == Head(req[p].todo) IN
       \/ /\ Readable(chart)
          /\ files' = [files EXCEPT ![chart.output] = chart.id]
          /\ Step(p, AfterDrawing(req[p], TRUE))
       \/ Step(p, AfterDrawing(req[p], FALSE)) /\ UNCHANGED files
    /\ UNCHANGED <<config, temps, made, kills, lastWhole, before, overlapped>>

\* The viewer is killed with everything it was doing.
Kill ==
    /\ kills < MaxKills /\ kills' = kills + 1
    /\ \E p \in Proc : req[p] # Idle
    /\ req' = [p \in Proc |-> Idle]
    /\ UNCHANGED <<config, files, temps, made, lastWhole, before, overlapped>>

Request(p) ==
    \/ StartSave(p) \/ BuildSpec(p) \/ Validate(p) \/ OpenConfig(p) \/ WriteConfig(p)
    \/ StartGenerate(p) \/ StartRunOnSave(p) \/ StartRun(p)
    \/ StartPreview(p) \/ Preview(p) \/ EndPreview(p)
    \/ OpenOutput(p) \/ NothingToDraw(p) \/ Draw(p)

Next == Kill \/ \E p \in Proc : Request(p)

Spec == Init /\ [][Next]_vars

----------------------------------------------------------------------------
(* Properties.                                                             *)

\* Types of the files and of the requests under way; only a request that is drawing
\* has charts left, and only a killed preview leaves its directory behind.
ChartTypeOK ==
    /\ config[1] \in {"missing", "torn", "charts"}
    /\ files \in [Paths -> {"csv", "none", "empty"} \union {SanitizeChartId(f.id) : f \in Forms} \union
                         UNION {{c[i].id : i \in DOMAIN c} : c \in Configs}]
    /\ \A p \in Proc :
         /\ req[p].op \in {"none", "save", "generate", "onSave", "run", "preview"}
         /\ req[p].pc \in {"idle", "spec", "validate", "open", "write", "draw", "drawing", "cleanup"}
         /\ req[p].pc = "drawing" => req[p].todo # <<>>
         /\ req[p] = Idle /\ kills = 0 => p \notin temps
    /\ made \in 0..MaxRequests /\ kills \in 0..MaxKills /\ overlapped \in BOOLEAN

ChartsIn(whole) ==
    IF whole[1] = "charts" THEN [i \in DOMAIN whole[2] |-> SpecOf(whole[2][i])] ELSE <<>>

OthersIn(whole, id) ==
    LET charts == ChartsIn(whole)
        others == Kept(charts, {i \in DOMAIN charts : charts[i].id # id})
    IN [i \in DOMAIN others |-> Meaning(others[i])]

SqlIn(whole, spec) ==
    LET charts == ChartsIn(whole)
        same == {i \in DOMAIN charts : charts[i].id = spec.id /\ charts[i].type = spec.type}
        first == CHOOSE i \in same : \A j \in same : i <= j
    IN IF same = {} THEN "" ELSE charts[first].options.sql

\* A save of one chart leaves every other chart of charts.json what it was,
\* those of other CSV files and those a user wrote by hand included, and the
\* saved one keeps the query it had, unless two saves were under way at once:
\* then the later write takes the earlier chart away again.
SavesOneChart ==
    [][lastWhole' # lastWhole /\ ~overlapped =>
         \E p \in Proc :
           LET spec == req[p].form IN
           /\ req[p].op = "save"
           /\ OthersIn(lastWhole', spec.id) = OthersIn(lastWhole, spec.id)
           /\ \E i \in DOMAIN ChartsIn(lastWhole') : ChartsIn(lastWhole')[i].id = spec.id
           /\ spec.type # "markdown-table" =>
                SqlIn(lastWhole', spec) = SqlIn(lastWhole, spec)]_vars

\* What a save writes can be loaded again: no entry of it makes the viewer's list,
\* saves and drawings fail from then on, but for a table that lists a column without
\* a name: a save takes it, and OptionalStringArray throws (chart_spec.cpp:202).
SavedConfigLoads ==
    config[1] = "charts" /\ config = lastWhole /\ lastWhole # before =>
        Loads \/ \E i \in DOMAIN Entries : ~ColumnsAreNamed(Entries[i].options)

\* The state of every request is well formed, and so is what it leaves in charts.json.
ConfigInv == ChartTypeOK /\ SavedConfigLoads

\* Only drawing a chart changes its output.  A preview changes no file
\* (docs/shared-viewer-shell.md, "Chart previews"), and the charts drawn after
\* a save never write over the CSV that was just saved.
OutputsAreAskedFor ==
    [][\A f \in Paths : files'[f] # files[f] =>
         \/ f = CsvFile /\ files'[f] = "csv"
         \/ \E p \in Proc :
              /\ req[p].op \in {"save", "generate", "run"} \/ (req[p].op = "onSave" /\ f # CsvFile)
              /\ req[p].todo # <<>> /\ Head(req[p].todo).output = f]_vars

\* chart_schema.cpp:197-199: "a full run still renders every valid chart before
\* exiting non-zero", whichever of them fail.
RunTriesEveryChart ==
    [][\A p \in Proc :
         (req[p].op = "run" /\ req'[p] = Idle /\ kills' = kills) =>
           {req[p].base[i] : i \in DOMAIN req[p].base} \subseteq
             req[p].tried \union {req[p].todo[i] : i \in {1} \cap DOMAIN req[p].todo}]_vars

=============================================================================
