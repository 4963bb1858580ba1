---------------------------- MODULE MCOperations ----------------------------
(***************************************************************************)
(* One instance of each machine around an operation; a behaviour runs the  *)
(* one its subject names, the others rest.                                 *)
(***************************************************************************)
EXTENDS OperationRuntime, OperationRecords, SemanticPorts, PlanAuthorization, Datasets,
        SecureReads, TLC

CONSTANTS wk, cli, r1, r2, d1, d2

VARIABLE subject

-----------------------------------------------------------------------------
(* Runtime: a worker and a command-line runner on one host. *)

\* What the requests name, an edit of its code without a new version, and a release.
Base == [version |-> 1, contract |-> 1, models |-> 1, files |-> 1]
Edited == [Base EXCEPT !.files = 2]
Released == [version |-> 2, contract |-> 2, models |-> 1, files |-> 3]
MCInstalls == {Base, Edited, Released}
MCRequested == wk :> Base @@ cli :> Base
MCErrorLists == {<<"dates">>, <<"dates", "dates", "other">>}

\* Two operations race for the output on an installation that stays as it is; what one
\* runner reads of the installation while it changes no other runner sees.
Race == \A r \in Runners : task[r] = "operation"
Alone == \E r \in Runners : \A q \in Runners : task[q] = "none" <=> q # r

(* Records *)

MCMemberOrder == <<"input", "result">>
MCSize == [b \in Contents |-> CASE b = "big" -> 2 [] b = "huge" -> 3 [] OTHER -> 1]

-----------------------------------------------------------------------------
(* Guidance: every set of at most two rules and two questions about two    *)
(* fields, and every measure of a list.                                    *)

Of(f, measure) == [kind |-> "field", field |-> f, measure |-> measure]
Lit(v) == [kind |-> "value", value |-> v]
Cmp(op, l, r) == [kind |-> "comparison", op |-> op, left |-> l, right |-> r]
Tree(kind, children) == [kind |-> kind, children |-> children]
AtLeast(f) == Cmp("ge", Of(f, "identity"), Lit(Num(1)))
Conditions ==
    {NoCondition, AtLeast("a"), AtLeast("b"),
     Tree("any", <<AtLeast("a"), AtLeast("b")>>),
     Tree("all", <<AtLeast("b"), Tree("any", <<AtLeast("a")>>)>>)}
UpTo2(S) == {<<>>} \cup {<<x>> : x \in S} \cup {<<x, y>> : x, y \in S}
DefaultRules == [field : {"a", "b"}, value : {Num(0), Num(1)}, only_if : Conditions]
Questions == [field : {"a", "b"}, default : {NoDefault, Num(1)}]

Constraint(e, severity) == [id |-> "c", severity |-> severity, when |-> e]
Measures == {"identity", "all_finite", "count", "stdev", "min", "max", "has_duplicates",
             "all_valid_calendar_month_labels", "is_consecutive_calendar_months",
             "is_strictly_increasing", "unknown"}
ListTests ==
    {Cmp("lt", Of("xs", m), Lit(Num(2))) : m \in {"count", "stdev", "min", "max", "identity"}}
    \cup {Cmp("eq", Of("xs", m), Lit(Bool(TRUE))) : m \in Measures}
    \cup {Cmp(op, Of("a", "identity"), Lit(List(<<Num(0), Num(1)>>))) :
              op \in {"in_set", "not_in_set", "gt"}}
MCGuidanceCases ==
    [defaults : UpTo2(DefaultRules), questions : UpTo2(Questions), constraints : {<<>>}]
    \cup [defaults : {<<>>}, questions : {<<>>},
          constraints : {<<Constraint(e, s)>> : e \in ListTests, s \in {"blocking", "warning"}}]
Months == <<Str(1, TRUE), Str(2, TRUE)>>
MCAnswerValues == {Num(0), Num(1)}
MCSupplies ==
    {[f \in {} |-> Null], "a" :> Num(0), "b" :> Num(1), "a" :> Num(1) @@ "b" :> Num(0),
     "a" :> Num(1) @@ "xs" :> List(Months),
     "xs" :> List(<<Num(1), NaN>>), "xs" :> List(<<Num(1), Num(2)>>), "xs" :> List(<<>>),
     "xs" :> List(<<Bool(TRUE), Num(1), Str(3, FALSE)>>)}

-----------------------------------------------------------------------------
(* Ports *)

SchemaOf(ref, of, types, values, minimum) ==
    [ref |-> ref, of |-> of, types |-> types, values |-> values, minimum |-> minimum,
     unique |-> FALSE]
LeafOf(types, values, minimum) == SchemaOf(NoKeyword, NoKeyword, types, values, minimum)
NumberLeaf == LeafOf({"number"}, NoKeyword, NoKeyword)
NullLeaf == LeafOf({"null"}, NoKeyword, NoKeyword)
SeriesLeaf(m) == LeafOf({"array"}, NoKeyword, m)
RefTo(d) == SchemaOf(d, NoKeyword, {}, NoKeyword, NoKeyword)
ChoiceOf(S) == SchemaOf(NoKeyword, S, {}, NoKeyword, NoKeyword)
Plainly(m) == {NumberLeaf, NullLeaf, SeriesLeaf(m)}
MCDefinitions ==
    "series" :> SeriesLeaf(1) @@ "maybe" :> ChoiceOf({NumberLeaf, NullLeaf})
    @@ "lists" :> ChoiceOf({RefTo("series"), SeriesLeaf(0)})
    @@ "deep" :> ChoiceOf({RefTo("maybe"), NumberLeaf})
\* Leaves; what leads to leaves; and so on, to a choice around a definition four deep.
Schemas0 ==
    {NumberLeaf, NullLeaf, SeriesLeaf(NoKeyword), SeriesLeaf(0), SeriesLeaf(1),
     [SeriesLeaf(1) EXCEPT !.unique = TRUE],
     LeafOf({"number", "null"}, NoKeyword, NoKeyword), LeafOf({}, {"scalar"}, NoKeyword),
     LeafOf({}, {"scalar", "null"}, NoKeyword), LeafOf({"object"}, NoKeyword, NoKeyword),
     LeafOf({}, NoKeyword, NoKeyword), RefTo("nowhere"),
     [RefTo("nowhere") EXCEPT !.types = {"number"}]}
Schemas1 ==
    {ChoiceOf({s, t}) : s, t \in Schemas0}
    \cup {RefTo("series"), [RefTo("series") EXCEPT !.values = {"null", "filled"}], ChoiceOf({})}
Schemas2 ==
    {RefTo("maybe")} \cup {ChoiceOf({RefTo("series"), s}) : s \in Schemas0}
    \cup {ChoiceOf({ChoiceOf({s, t}), t}) : s, t \in Plainly(1)}
Schemas3 == {ChoiceOf({RefTo("maybe"), s}) : s \in Schemas0} \cup {RefTo("lists")}
Schemas4 == {RefTo("deep")} \cup {ChoiceOf({RefTo("lists"), s}) : s \in Plainly(1)}
Schemas5 == {ChoiceOf({RefTo("deep"), s}) : s \in Plainly(0)}
MCSchemas == Schemas0 \cup Schemas1 \cup Schemas2 \cup Schemas3 \cup Schemas4 \cup Schemas5
MCNesting ==
    [s \in MCSchemas |->
        CASE s \in Schemas0 -> 0 [] s \in Schemas1 -> 1 [] s \in Schemas2 -> 2
          [] s \in Schemas3 -> 3 [] s \in Schemas4 -> 4 [] OTHER -> 5]
PortOf(direction, shape, unit, prov) ==
    [direction |-> direction, concept |-> "c", unit |-> unit, shape |-> shape,
     cardinality |-> IF shape = "scalar" THEN "exactly_one" ELSE "one_or_more",
     convention |-> "n", ordering |-> "o", frequency |-> "f", provenance_requirement |-> prov]
Shapes == {"scalar", "ordered_series"}
MCProducerFields ==
    [metadata : {"port"}, schema : MCSchemas,
     port : {PortOf("output", s, "u", p) : s \in Shapes, p \in Provenances}]
MCConsumerFields ==
    {[metadata |-> m, schema |-> IF s = "scalar" THEN NumberLeaf ELSE SeriesLeaf(1),
      port |-> PortOf("input", s, u, p)] :
        m \in {"port", "more"}, s \in Shapes, u \in {"u", "other"}, p \in Provenances}

-----------------------------------------------------------------------------
(* Plans *)

Asks == <<[id |-> "q1", field |-> "a", default |-> NoDefault, valid |-> TRUE],
          [id |-> "q2", field |-> "b", default |-> NoDefault, valid |-> TRUE]>>
PlanGuidance ==
    [defaults |-> <<>>, questions |-> Asks,
     constraints |-> <<Constraint(AtLeast("a"), "blocking")>>]
Component1 == [id |-> "dq.a.b", hash |-> 1]
Component2 == [id |-> "dq.a.b", hash |-> 2]
PlanModel == "a" :> {"num"} @@ "b" :> {"num", "null"} @@ "xs" :> {"list"}
Installed ==
    [component |-> Component1, lifecycle |-> "draft", imports |-> TRUE, model |-> PlanModel,
     guidance |-> PlanGuidance]
MCInstalledComponents ==
    {Nothing, Installed, [Installed EXCEPT !.component = Component2],
     [Installed EXCEPT !.lifecycle = "published"], [Installed EXCEPT !.lifecycle = "invalid"],
     [Installed EXCEPT !.imports = FALSE],
     [Installed EXCEPT !.guidance.questions[1].valid = FALSE],
     [Installed EXCEPT !.guidance.questions[2].field = "a"],
     [Installed EXCEPT !.guidance.constraints[1].when = AtLeast("missing")],
     [Installed EXCEPT !.model = PlanModel @@ "more" :> {"num"}]}
Requirement(f, non_empty) ==
    [field |-> f, non_empty |-> non_empty, code |-> "managed_required_input_missing"]
Policy(version, opt_in) ==
    [version |-> version,
     rules |-> "p1" :> [component |-> Component1, lifecycle |-> "draft", opt_in |-> opt_in,
                        requirements |-> <<Requirement("xs", TRUE)>>]]
MCPolicies == {Policy(1, TRUE), Policy(2, FALSE)}
Answered(v, sure, time) == [field |-> "a", answer |-> v, confirmed |-> sure, at |-> time]
BasePlan ==
    [policy_hash |-> Policy(1, TRUE), profile |-> "p1", component |-> Component1,
     lifecycle |-> "draft", opt_in |-> TRUE,
     input |-> "a" :> Num(0) @@ "b" :> Num(0) @@ "xs" :> List(<<Num(1)>>),
     resolved |-> "q1" :> Answered(Num(0), TRUE, 1)
                  @@ "q2" :> [Answered(Num(0), TRUE, 1) EXCEPT !.field = "b"]]
MCPlans ==
    {BasePlan,
     [BasePlan EXCEPT !.resolved["q1"].at = 2],
     [BasePlan EXCEPT !.resolved["q1"].confirmed = FALSE],
     [BasePlan EXCEPT !.resolved["q1"].answer = NaN],
     [BasePlan EXCEPT !.resolved = <<>>],
     [BasePlan EXCEPT !.resolved = "q3" :> Answered(Num(0), TRUE, 1)],
     [BasePlan EXCEPT !.input = "a" :> Num(0) @@ "b" :> Num(0) @@ "xs" :> List(<<>>)],
     [BasePlan EXCEPT !.input["a"] = Num(1)],
     [BasePlan EXCEPT !.input["a"] = NaN],
     [BasePlan EXCEPT !.input["a"] = Num(1), !.resolved["q1"].answer = Num(1)],
     [BasePlan EXCEPT !.opt_in = FALSE],
     [BasePlan EXCEPT !.profile = "p2"],
     [BasePlan EXCEPT !.component = Component2],
     [BasePlan EXCEPT !.policy_hash = Policy(2, FALSE)]}

-----------------------------------------------------------------------------
(* Datasets: one column of every type over every cell, and two columns.    *)

Cell(tag, reads, value, size) == [tag |-> tag, reads |-> reads, value |-> value, size |-> size]
\* Numbers count quarters: the doubles are the whole numbers, the safe range is one.
MCDoubles == {-8, -4, 0, 4, 8}
Numbers ==
    {Cell("string", "fraction", n, 1) : n \in {-7, -3, 3, 5, 7}}
    \cup {Cell("string", "integer", n, 1) : n \in {-8, -4}}
Texts ==
    {Cell("string", reads, 0, 1) : reads \in {"nothing", "word"}}
    \cup {Cell("string", "boolean", 1, 1), Cell("string", "word", 0, 3),
          Cell("string", "integer", 4, 1), Cell("string", "fraction", 1, 1),
          Cell("string", "integer", 8, 1), Cell("string", "utc", 7, 1),
          Cell("string", "offset", 8, 1), Cell("string", "early", 9, 1)}
JsonCells ==
    {NullCell, Cell("boolean", "boolean", 1, 1), Cell("integer", "integer", 4, 1),
     Cell("integer", "integer", -8, 1), Cell("float", "fraction", 4, 1),
     Cell("float", "fraction", 8, 1),
     Cell("string", "word", 0, 2), Cell("string", "word", 0, 3), Cell("string", "utc", 7, 1),
     Cell("string", "offset", 8, 1), Cell("string", "early", 9, 1), Cell("list", "list", 0, 1)}
Column(name, id, type, role) ==
    [name |-> name, id |-> id, type |-> type, role |-> role, port |-> "none"]
Types == {"boolean", "integer", "number", "string", "timestamp"}
OneColumn == {<<Column("n", "f", type, "value")>> : type \in Types}
TwoColumns == <<Column("t", "when", "timestamp", "timestamp"), Column("n", "f", "number", "value")>>
TwoLabels == <<Column("t", "when", "string", "label"), Column("n", "f", "string", "label")>>
BadColumns ==
    {<<TwoColumns[1], TwoColumns[1]>>, <<TwoColumns[2], Column("n", "g", "number", "value")>>,
     <<Column("t", "when", "timestamp", "timestamp"), Column("u", "f", "timestamp", "timestamp")>>,
     <<Column("n", "f", "number", "timestamp")>>, <<>>,
     <<[TwoColumns[2] EXCEPT !.port = "input"]>>,
     TwoColumns \o <<Column("x", "x", "string", "label")>>}
JsonRow(fields) == [object |-> TRUE, fields |-> fields]
Json(rows) == [form |-> "rows", rows |-> rows, size |-> 1]
JsonRows1 == {JsonRow("n" :> cell) : cell \in JsonCells} \cup {JsonRow([f \in {} |-> NullCell])}
JsonRows2 == {JsonRow("t" :> x @@ "n" :> y) : x, y \in {NullCell, Cell("integer", "integer", 4, 1),
                                                       Cell("string", "utc", 7, 1),
                                                       Cell("string", "offset", 8, 1)}}
Csv(header, rows) == [form |-> "table", header |-> header, rows |-> rows, size |-> 1]
Timed == {Cell("string", "nothing", 0, 1), Cell("string", "utc", 7, 1), Cell("string", "offset", 8, 1)}
Numbered == {Cell("string", "nothing", 0, 1), Cell("string", "integer", 4, 1),
             Cell("string", "fraction", 1, 1)}
MCLocalFiles ==
    "local_csv" :>
        ({Csv(<<"n">>, <<<<t>>>>) : t \in Texts \cup Numbers}
         \cup {Csv(<<"n">>, <<<<t>>, <<u>>>>) : t, u \in Texts}
         \cup {Csv(<<"n", "t">>, <<<<x, t>>>>) : x \in Numbered, t \in Timed}
         \cup {Csv(<<"n", "t">>, <<<<x, t>>, <<y, u>>>>) : x, y \in Numbered, t, u \in Timed}
         \cup {[Csv(<<"n">>, <<>>) EXCEPT !.form = form] :
                  form \in {"table", "bom", "nothing", "malformed"}}
         \cup {Csv(<<>>, <<>>), Csv(<<"n", "n">>, <<>>), Csv(<<"m">>, <<>>),
               Csv(<<"n">>, <<<<>>>>), Csv(<<"n">>, [i \in 1..3 |-> <<Cell("string", "word", 0, 1)>>])})
    @@ "local_json" :>
        ({Json(<<x, y>>) : x, y \in JsonRows2}
         \cup {[Json(<<>>) EXCEPT !.form = form] : form \in {"rows", "bom", "malformed", "scalar"}})
DatasetRequest(columns, kind, content) ==
    [version |-> "one", declared |-> TRUE, digest |-> "omitted", columns |-> columns,
     source |-> [kind |-> kind, content |-> content]]
PlainRow == JsonRow("n" :> Cell("integer", "integer", 4, 1))
PlainRequest == DatasetRequest(<<TwoColumns[2]>>, "inline_rows", Json(<<PlainRow>>))
MCDatasetRequests ==
    {DatasetRequest(columns, "inline_rows", Json(<<x, y>>)) :
        columns \in OneColumn, x, y \in JsonRows1}
    \cup {DatasetRequest(columns, "inline_json", Json(<<x>>)) : columns \in OneColumn, x \in JsonRows1}
    \cup {DatasetRequest(columns, kind, Json(<<>>)) :
            columns \in OneColumn \cup {TwoColumns, TwoLabels}, kind \in {"local_csv", "local_json"}}
    \cup {[PlainRequest EXCEPT !.columns = columns] : columns \in BadColumns}
    \cup {[PlainRequest EXCEPT !.version = v] : v \in {"absent", "ill_typed", "other"}}
    \cup {[PlainRequest EXCEPT !.digest = d] : d \in {"right", "other"}}
    \cup {[PlainRequest EXCEPT !.declared = FALSE], [PlainRequest EXCEPT !.source.content.rows = <<>>],
          [PlainRequest EXCEPT !.source.content.rows = <<PlainRow, PlainRow, PlainRow>>],
          [PlainRequest EXCEPT !.source.content.rows = <<[PlainRow EXCEPT !.object = FALSE]>>],
          [PlainRequest EXCEPT !.source.kind = "inline_json",
                        !.source.content.rows = <<[PlainRow EXCEPT !.object = FALSE]>>],
          [PlainRequest EXCEPT !.source.kind = "inline_json", !.source.content.size = 3]}
FieldMapping(from, to) == [source |-> from, target |-> to]
MCFieldBindings ==
    [mappings : {<<FieldMapping("f", "values")>>, <<FieldMapping("when", "dates"), FieldMapping("f", "values")>>,
                 <<FieldMapping("f", "values"), FieldMapping("f", "dates")>>,
                 <<FieldMapping("f", "values"), FieldMapping("when", "values")>>,
                 <<FieldMapping("f", "window")>>},
     literals : {"window" :> <<NullCell>>}]

-----------------------------------------------------------------------------
(* Local files: one reader of either kind. *)

MCRoots == <<r1, r2>>
MCFolderOf == r1 :> d1 @@ r2 :> d2
MCReaders == "dataset" :> "beneath" @@ "member" :> "path"
OneReader == Cardinality({r \in DOMAIN Readers : reading[r].pc # "done"}) = 1

-----------------------------------------------------------------------------
(* The rest states *)

RuntimeRests ==
    /\ task = [r \in Runners |-> "operation"] /\ pc = [r \in Runners |-> "killed"]
    /\ left = [r \in Runners |-> 1] /\ disk = Base
    /\ found = [r \in Runners |-> None] /\ code = [r \in Runners |-> None]
    /\ error = [r \in Runners |-> NoError] /\ answer = [r \in Runners |-> NoError]
    /\ stage = [r \in Runners |-> NoStage] /\ sound = [r \in Runners |-> TRUE]
    /\ output = Absent
RecordsRest ==
    /\ step = "rest" /\ phase = "build" /\ binding = [input |-> 0] /\ edits = 1
    /\ answered = <<>> /\ bundle = <<>> /\ declared = <<>> /\ inHand = <<>>
    /\ members = <<>> /\ record = NoRecord /\ copied = NoBundle /\ stored = NoBundle
DialogRests == guidance = Nothing /\ supplied = Nothing /\ verdict = Unasked
PortsRest == produces = Nothing /\ consumes = Nothing /\ comparison = NotCompared
PlanRests ==
    /\ plan = Nothing /\ policy = Nothing /\ packaged = Nothing /\ installed = Nothing
    /\ receipt = Nothing /\ approval = Nothing /\ authorization = Nothing /\ approved = Nothing
    /\ outcome = NoOutcome /\ rounds = 0 /\ drift = 0

DatasetsRest ==
    request = Unread /\ source = Unread /\ table = Unread /\ dataset = Unread /\ bound = Unread
ReadsRest ==
    /\ opened = [d \in Descriptors |-> Closed] /\ pinned = <<>> /\ roots = "denied"
    /\ rootAt = [root \in ToSet(Roots) |-> root] /\ entry = [folder \in Folders |-> "a"]
    /\ chunks = [f \in Files |-> 1] /\ other = Closed /\ changes = MaxChanges
    /\ reading = [r \in DOMAIN Readers |-> [Idle EXCEPT !.pc = "done"]]

MCInit ==
    /\ subject \in {"race", "runtime", "records", "dialog", "ports", "plan", "datasets", "reads"}
    /\ CASE subject = "race" -> Init /\ Race
         [] subject = "runtime" -> Init /\ Alone
         [] OTHER -> RuntimeRests
    /\ IF subject = "records" THEN RecordsInit ELSE RecordsRest
    /\ IF subject = "dialog" THEN DialogInit ELSE DialogRests
    /\ IF subject = "ports" THEN PortsInit ELSE PortsRest
    /\ IF subject = "plan" THEN PlanInit ELSE PlanRests
    /\ IF subject = "datasets" THEN DatasetInit ELSE DatasetsRest
    /\ IF subject = "reads" THEN ReadsInit /\ OneReader ELSE ReadsRest

MCNext ==
    /\ UNCHANGED subject
    /\ \/ /\ subject \in {"race", "runtime"} /\ Next /\ (subject = "race" => disk' = disk)
          /\ UNCHANGED <<recordVars, dialogVars, portVars, planVars, datasetVars, readVars>>
       \/ /\ subject = "records" /\ RecordsNext
          /\ UNCHANGED <<vars, dialogVars, portVars, planVars, datasetVars, readVars>>
       \/ /\ subject = "dialog" /\ DialogNext
          /\ UNCHANGED <<vars, recordVars, portVars, planVars, datasetVars, readVars>>
       \/ /\ subject = "ports" /\ PortsNext
          /\ UNCHANGED <<vars, recordVars, dialogVars, planVars, datasetVars, readVars>>
       \/ /\ subject = "plan" /\ PlanNext
          /\ UNCHANGED <<vars, recordVars, dialogVars, portVars, datasetVars, readVars>>
       \/ /\ subject = "datasets" /\ DatasetNext
          /\ UNCHANGED <<vars, recordVars, dialogVars, portVars, planVars, readVars>>
       \/ /\ subject = "reads" /\ ReadsNext
          /\ UNCHANGED <<vars, recordVars, dialogVars, portVars, planVars, datasetVars>>

MCSpec ==
    MCInit /\ [][MCNext]_<<subject, vars, recordVars, dialogVars, portVars, planVars, datasetVars,
                          readVars>>
=============================================================================
