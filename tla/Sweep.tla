-------------------------------- MODULE Sweep --------------------------------
(***************************************************************************)
(* A sweep's specification and the runs it expands to (sweep.py).  Paths   *)
(* are sequences of tokens; a run id is the tuple its text is made of.     *)
(***************************************************************************)
EXTENDS Scenario

CONSTANTS MaxReplayWindow, MaxRuns,
          FoldedText,  \* casefold of the texts that occur in ids
          DottedText   \* those that end with a dot

-----------------------------------------------------------------------------
(* RFC 6902.                                                               *)

WithChild(v, t, c) == IF Is("members", v) THEN Object((t :> c) @@ v.members)
                      ELSE Array(ReplaceAt(v.items, Index[t], c))
Position(v, t) == IF t = "-" THEN Len(v.items) + 1 ELSE Index[t]

\* The parent of the last token edited; Failed where a token names nothing.
Edited(v, t, op) ==
  CASE op.op = "replace" /\ HasChild(v, t) -> WithChild(v, t, op.value)
    [] op.op = "add" /\ Is("members", v) -> WithChild(v, t, op.value)
    [] op.op = "add" /\ Is("items", v) /\ (t = "-" \/ (t \in DOMAIN Index /\ Index[t] <= Len(v.items) + 1)) ->
         Array(InsertAt(v.items, Position(v, t), op.value))
    [] op.op = "remove" /\ Is("members", v) /\ HasChild(v, t) ->
         Object([k \in (DOMAIN v.members) \ {t} |-> v.members[k]])
    [] op.op = "remove" /\ Is("items", v) /\ HasChild(v, t) -> Array(RemoveAt(v.items, Index[t]))
    [] OTHER -> Failed

RECURSIVE Patched(_, _, _)
Patched(v, path, op) ==
  IF Len(path) = 1 THEN Edited(v, path[1], op)
  ELSE IF ~HasChild(v, path[1]) THEN Failed
  ELSE LET child == Patched(Child(v, path[1]), Tail(path), op)
       IN IF child = Failed THEN Failed ELSE WithChild(v, path[1], child)

ApplyPatch(doc, operations) ==
  FoldLeft(LAMBDA d, op : IF d = Failed THEN Failed ELSE Patched(d, op.path, op), doc, operations)
Replaced(doc, path, value) == ApplyPatch(doc, <<[op |-> "replace", path |-> path, value |-> value]>>)

-----------------------------------------------------------------------------
(* The specification.                                                      *)

\* Fault: only equal pointers overlap.
OverlapEqual(a, b) == a = b
\* One pointer is at, under or above the other.
Overlap(a, b) == IsPrefix(a, b) \/ IsPrefix(b, a)
TimeBounds == {<<"time", "start_utc">>, <<"time", "stop_utc">>}
MovesTimeBounds(path) == \E bound \in TimeBounds : Overlap(path, bound)

Unique(values) == \A i, j \in DOMAIN values : i < j => ~NumbersEqual(values[i], values[j])

Differing(p) == SelectSeq(p.values, LAMBDA v : ~NumbersEqual(v, p.nominal))

IsParameters(parameters, mode) ==
  /\ \A i, j \in DOMAIN parameters : i < j => ~Overlap(parameters[i].path, parameters[j].path)
  /\ \A i \in DOMAIN parameters : LET p == parameters[i] IN
       /\ Len(p.values) > 0 /\ Unique(p.values)
       /\ mode = "oat" => Len(Differing(p)) > 0

IsVariants(variants) ==
  /\ \A i, j \in DOMAIN variants : i < j => variants[i].id # variants[j].id
  /\ Cardinality({i \in DOMAIN variants : variants[i].baseline}) <= 1

IsReplay(replay) ==
  /\ replay.link # <<>> \/ replay.network # <<>>
  /\ IsInjective(replay.link) /\ IsInjective(replay.network) /\ IsInjective(replay.models)

\* Every path a specification patches.
Paths(spec) ==
  IF spec.mode = "variants" THEN UNION {{op.path : op \in Range(v.patch)} : v \in Range(spec.variants)}
  ELSE {p.path : p \in Range(spec.parameters)}
Touches(spec, pointer) == \E path \in Paths(spec) : Overlap(path, pointer)

NoWindow == <<>>
NoReplay == <<>>

IsSpec(spec) ==
  /\ IF spec.mode = "variants" THEN IsVariants(spec.variants) ELSE IsParameters(spec.parameters, spec.mode)
  /\ spec.replay # NoReplay => IsReplay(spec.replay)
  /\ spec.window # NoWindow =>
       /\ \A path \in Paths(spec) : ~MovesTimeBounds(path)
       /\ spec.replay # NoReplay => spec.window.duration <= MaxReplayWindow

-----------------------------------------------------------------------------
(* The specification as a JSON document, before and after parse_sweep.     *)
(* Its schema and its packet settings but the loads and the models are     *)
(* left out.                                                               *)

Member(v, key) == IF key \in DOMAIN v.members THEN v.members[key] ELSE Null
HasKeys(v, required, optional) ==
  Is("members", v) /\ required \subseteq DOMAIN v.members /\ DOMAIN v.members \subseteq required \union optional
IsList(v) == Is("items", v) /\ v.items # <<>>

IsParameter(p, mode) == HasKeys(p, {"path", "values"} \union (IF mode = "oat" THEN {"nominal"} ELSE {}), {})
IsOperation(op) == HasKeys(op, {"op", "path"} \union (IF Member(op, "op") = Text("remove") THEN {} ELSE {"value"}), {})
IsVariant(v) ==
  /\ HasKeys(v, {"id", "patch"}, {"label", "baseline"})
  /\ "label" \in DOMAIN v.members => Is("text", v.members.label)
  /\ "baseline" \in DOMAIN v.members => Is("flag", v.members.baseline)
  /\ \A i \in DOMAIN v.members.patch.items : IsOperation(v.members.patch.items[i])
IsReplayDocument(replay) ==
  /\ HasKeys(replay, {}, {"link", "network"})
  /\ Member(replay, "link") # Null => HasKeys(replay.members.link, {"station", "loads_bps"}, {})
  /\ Member(replay, "network") # Null => HasKeys(replay.members.network, {"loads_bps"}, {"routing_models"})

\* The mode says which of the two designs is there: a null one is refused where it does not belong.
DesignOf(mode) == IF mode = "variants" THEN "variants" ELSE "parameters"
IsSweepDocument(raw) ==
  /\ HasKeys(raw, {"name", "base_scenario", "mode"}, {"parameters", "variants", "window", "replay", "max_runs"})
  /\ LET mode   == raw.members.mode.text
         design == Member(raw, DesignOf(mode))
     IN /\ mode \in {"oat", "grid", "variants"}
        /\ {"parameters", "variants"} \intersect DOMAIN raw.members = {DesignOf(mode)}
        /\ IsList(design)
        /\ \A i \in DOMAIN design.items :
             IF mode = "variants" THEN IsVariant(design.items[i]) ELSE IsParameter(design.items[i], mode)
  /\ Member(raw, "window") # Null => HasKeys(raw.members.window, {"start_offset_s", "duration_s"}, {})
  /\ Member(raw, "replay") # Null => IsReplayDocument(raw.members.replay)
  /\ "max_runs" \in DOMAIN raw.members => Is("int", raw.members.max_runs) /\ raw.members.max_runs.int \in 1..MaxRuns

\* What the checks and the expansion read of it.
Loads(replay) == IF replay = Null THEN <<>> ELSE [i \in DOMAIN replay.members.loads_bps.items |->
                                                   NumberOf(replay.members.loads_bps.items[i])]
Texts(v) == IF v = Null THEN <<>> ELSE [i \in DOMAIN v.items |-> v.items[i].text]
ParameterOf(p) == [path |-> p.path.pointer, nominal |-> Member(Object(p), "nominal"), values |-> p.values.items]
OperationOf(op) == [op |-> op.op.text, path |-> op.path.pointer, value |-> Member(Object(op), "value")]
VariantOf(v) == [id |-> v.id.text, baseline |-> v.baseline.flag,
                 patch |-> [i \in DOMAIN v.patch.items |-> OperationOf(v.patch.items[i].members)]]
ReplayOf(replay) ==
  LET link == Member(replay, "link")
      network == Member(replay, "network")
  IN [link |-> Loads(link), network |-> Loads(network),
      models |-> IF network = Null THEN <<>> ELSE Texts(Member(network, "routing_models")),
      station |-> IF link = Null THEN "" ELSE link.members.station.text]
SweepOf(document) ==
  LET m == document.members
      Of(design, Read(_)) == IF design = Null THEN <<>>
                             ELSE [i \in DOMAIN design.items |-> Read(design.items[i].members)]
  IN [mode |-> m.mode.text, max_runs |-> m.max_runs.int,
      parameters |-> Of(m.parameters, ParameterOf), variants |-> Of(m.variants, VariantOf),
      window |-> IF m.window = Null THEN NoWindow
                 ELSE [offset |-> NumberOf(m.window.members.start_offset_s),
                       duration |-> NumberOf(m.window.members.duration_s)],
      replay |-> IF m.replay = Null THEN NoReplay ELSE ReplayOf(m.replay)]

\* Every key explicit, and every load a float: null where a block is absent, the defaults of a
\* variant, of the models and of max_runs.
FilledVariant(v) == Object(v.members @@ [label |-> v.members.id, baseline |-> Flag(FALSE)])
WithLoads(replay) ==
  Object([replay.members EXCEPT !["loads_bps"] = Array([i \in DOMAIN @.items |-> Real(NumberOf(@.items[i]))])])
FilledReplay(replay) ==
  LET link    == Member(replay, "link")
      network == Member(replay, "network")
  IN Object([link |-> IF link = Null THEN Null ELSE WithLoads(link),
             network |-> IF network = Null THEN Null
                         ELSE Object(WithLoads(network).members @@ [routing_models |-> Null])])
FilledSweep(raw) ==
  LET variants == Member(raw, "variants")
      replay   == Member(raw, "replay")
  IN Object([name |-> raw.members.name, base_scenario |-> raw.members.base_scenario, mode |-> raw.members.mode,
             parameters |-> Member(raw, "parameters"),
             variants |-> IF variants = Null THEN Null
                          ELSE Array([i \in DOMAIN variants.items |-> FilledVariant(variants.items[i])]),
             window |-> Member(raw, "window"),
             replay |-> IF replay = Null THEN Null ELSE FilledReplay(replay),
             max_runs |-> IF "max_runs" \in DOMAIN raw.members THEN raw.members.max_runs ELSE Whole(MaxRuns)])

ParsedSweep(raw) ==
  IF ~IsSweepDocument(raw) THEN Failed
  ELSE IF IsSpec(SweepOf(FilledSweep(raw))) THEN FilledSweep(raw) ELSE Failed

-----------------------------------------------------------------------------
(* The runs.                                                               *)

Clip(doc, spec) ==
  LET window == spec.window
      length == Stop(doc) - Start(doc)
      start  == Start(doc) + window.offset
  IN IF window = NoWindow
     THEN IF spec.replay # NoReplay /\ length > MaxReplayWindow THEN Failed ELSE doc
     ELSE IF window.offset + window.duration > length \/ window.duration < StepOf(doc) THEN Failed
     ELSE Replaced(Replaced(doc, <<"time", "start_utc">>, Time(start)),
                   <<"time", "stop_utc">>, Time(start + window.duration))

\* A patched document as a run keeps it: valid, normalised and within the window's rules.
KeepsWindow(doc, spec, base) ==
  /\ spec.window # NoWindow => Start(base) <= Start(doc) /\ Stop(doc) <= Stop(base)
  /\ spec.replay # NoReplay => Stop(doc) - Start(doc) <= MaxReplayWindow
Kept(doc, spec, base) == IF doc # Failed /\ KeepsWindow(doc, spec, base) THEN doc ELSE Failed
Generated(patched, spec, base) == Kept(IF patched = Failed THEN Failed ELSE Parsed(patched), spec, base)

Nominal == <<"oat", "nominal">>
OatRuns(spec, clipped) ==
  <<[id |-> Nominal, document |-> clipped]>> \o
  FlattenSeq([i \in DOMAIN spec.parameters |->
    LET p == spec.parameters[i]
    IN [j \in DOMAIN Differing(p) |->
          [id |-> <<"oat", p.path, Differing(p)[j]>>,
           document |-> Replaced(clipped, p.path, Differing(p)[j])]]])

\* The first parameter varies slowest.
Combinations(parameters) ==
  FoldLeft(LAMBDA rows, p : FlattenSeq([r \in DOMAIN rows |->
                              [v \in DOMAIN p.values |-> Append(rows[r], p.values[v])]]),
           << <<>> >>, parameters)
GridRuns(spec, clipped) ==
  [k \in DOMAIN Combinations(spec.parameters) |->
    LET Values == Combinations(spec.parameters)[k]
        Set(doc, i) == IF doc = Failed THEN Failed ELSE Replaced(doc, spec.parameters[i].path, Values[i])
    IN [id |-> <<"grid", k - 1>>,
        document |-> FoldLeft(Set, clipped, [i \in DOMAIN spec.parameters |-> i])]]

VariantRuns(spec, clipped) ==
  [i \in DOMAIN spec.variants |->
    [id |-> <<"variant", spec.variants[i].id>>,
     document |-> ApplyPatch(clipped, spec.variants[i].patch)]]

PatchedRuns(spec, clipped) ==
  CASE spec.mode = "oat" -> OatRuns(spec, clipped)
    [] spec.mode = "grid" -> GridRuns(spec, clipped)
    [] spec.mode = "variants" -> VariantRuns(spec, clipped)

ExpandedRuns(spec, base) ==
  LET patched == PatchedRuns(spec, Clip(base, spec))
  IN [i \in DOMAIN patched |-> [patched[i] EXCEPT !.document = Generated(@, spec, base)]]

\* The paths are in the base, and a nominal is the base's value.
Resolves(spec, base) ==
  spec.mode # "variants" => \A p \in Range(spec.parameters) :
    /\ At(base, p.path) # Failed
    /\ spec.mode = "oat" => NumbersEqual(At(base, p.path), p.nominal)

\* The directory of a run on a file system that ignores case.
Fold(s) == IF s \in DOMAIN FoldedText THEN FoldedText[s] ELSE s
Folded(id) ==
  CASE id[1] = "variant" -> <<"variant", Fold(id[2])>>
    [] Len(id) = 3 -> <<"oat", [j \in DOMAIN id[2] |-> Fold(id[2][j])],
                        IF Is("text", id[3]) THEN Text(Fold(id[3].text)) ELSE id[3]>>
    [] OTHER -> id
Ids(runs) == [i \in DOMAIN runs |-> runs[i].id]
ArePortable(runs) == /\ IsInjective([i \in DOMAIN runs |-> Folded(runs[i].id)])
                     /\ \A i \in DOMAIN runs : runs[i].id[1] = "variant" => runs[i].id[2] \notin DottedText

CanReplay(replay, doc) ==
  /\ replay.link # <<>> => replay.station \in Range(StationNames(doc))
  /\ replay.network # <<>> => /\ Network(doc) # Null
                              /\ Range(replay.models) \subseteq Range(RouteModelsOf(doc))

AreRunnable(runs, spec) ==
  /\ Len(runs) <= spec.max_runs
  /\ \A i \in DOMAIN runs : runs[i].document # Failed
  /\ ArePortable(runs)
  /\ spec.replay # NoReplay => \A i \in DOMAIN runs : CanReplay(spec.replay, runs[i].document)

IsExpandable(spec, base) ==
  /\ Clip(base, spec) # Failed
  /\ Resolves(spec, base)
  /\ AreRunnable(ExpandedRuns(spec, base), spec)

BaselineRun(spec, runs) ==
  LET flagged == {i \in DOMAIN runs : spec.mode = "variants" /\ spec.variants[i].baseline}
  IN runs[IF flagged = {} THEN 1 ELSE CHOOSE i \in flagged : TRUE].id

-----------------------------------------------------------------------------
(* A run's metrics are named after what it has; every one of every run is  *)
(* compared with the baseline's of that name, if there is one.             *)

MetricsOf(doc, satellites) ==
  ({"pair"} \X Range(StationNames(doc)) \X satellites)
    \union ({"station"} \X Range(StationNames(doc)))
    \union (IF Network(doc) = Null THEN {}
            ELSE {"route"} \X Range(At(Network(doc), <<"pairs">>).items) \X Range(RouteModelsOf(doc)))

ComparisonRows(entries, baseline) ==
  LET reference == UNION {e.metrics : e \in {f \in Range(entries) : f.id = baseline}}
  IN UNION {{[run |-> e.id, metric |-> m, compared |-> m \in reference] : m \in e.metrics} : e \in Range(entries)}
=============================================================================
