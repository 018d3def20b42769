------------------------------- MODULE Campaign -------------------------------
(***************************************************************************)
(* A sweep from its specification to the directory it publishes            *)
(* (run_sweep), or a release's (run_reproduce): expansion, then every run  *)
(* through the engine, saved with its inputs and replayed, then the        *)
(* comparisons, and one rename at the end.                                 *)
(***************************************************************************)
EXTENDS EngineRun

CONSTANT Campaigns   \* [base, spec, workers, faults, backends, release]

VARIABLES campaign, runs,
          status,    \* "prepare", "run", "replay", "publish", or how it ended
          entries,   \* the runs saved in the stage directory
          target     \* what is at the output directory

campaignVars == <<campaign, runs, status, entries, target>>
vars == <<engineVars, campaignVars>>

Nothing == [is |-> "nothing"]

Init == /\ EngineInit
        /\ campaign \in Campaigns
        /\ runs = <<>> /\ status = "prepare" /\ entries = <<>> /\ target = Nothing

spec == campaign.spec
base == Parsed(campaign.base)

\* What a release demands before anything is run.
ReleaseReady ==
  campaign.release => /\ "network" \in campaign.backends
                      /\ spec.replay # NoReplay
                      /\ spec.replay.network # <<>> /\ spec.replay.link = <<>>

Prepare ==
  /\ status = "prepare"
  /\ \/ /\ ReleaseReady /\ IsSpec(spec) /\ base # Failed /\ IsExpandable(spec, base)
        /\ runs' = ExpandedRuns(spec, base) /\ status' = "run"
     \/ /\ ~(ReleaseReady /\ IsSpec(spec) /\ base # Failed /\ IsExpandable(spec, base))
        /\ status' = "refused" /\ UNCHANGED runs
  /\ UNCHANGED <<campaign, entries, target, engineVars>>

Begin ==
  /\ status = "run" /\ Len(entries) < Len(runs)
  /\ RunEngine(runs[Len(entries) + 1].document, campaign.workers, campaign.faults)
  /\ UNCHANGED campaignVars

\* The kinds that have a backend, and those that are missing; a release gives no link backend.
Kinds == IF spec.replay = NoReplay THEN {} ELSE {k \in {"link", "network"} : spec.replay[k] # <<>>}
Backends == IF campaign.release THEN campaign.backends \ {"link"} ELSE campaign.backends
Missing == Kinds \ Backends

\* One link replay per load, one network replay per model of the run and load.
ReplayPlan(doc) ==
  LET models == IF spec.replay.models # <<>> THEN spec.replay.models ELSE RouteModelsOf(doc)
      links  == [i \in DOMAIN spec.replay.link |-> <<"link", "none", spec.replay.link[i]>>]
      flows  == FlattenSeq([m \in DOMAIN models |->
                  [i \in DOMAIN spec.replay.network |-> <<"network", models[m], spec.replay.network[i]>>]])
  IN (IF "link" \in Kinds \ Missing THEN links ELSE <<>>)
       \o (IF "network" \in Kinds \ Missing THEN flows ELSE <<>>)
Plan(doc) == IF Kinds \ Missing = {} THEN <<>> ELSE ReplayPlan(doc)

Abandon(how) == status' = how /\ entries' = <<>>

\* save_run reads the catalogs once more, for the archive.
Save ==
  /\ status = "run" /\ phase = "done"
  /\ \/ /\ Verified(file)
        /\ entries' = Append(entries, [id |-> runs[Len(entries) + 1].id, results |-> Results,
                                       inputs |-> [document |-> job.document, catalog |-> file],
                                       metrics |-> MetricsOf(job.document, Range(orbits.ids)),
                                       replays |-> <<>>])
        /\ status' = IF Plan(job.document) # <<>> THEN "replay" ELSE "run"
     \/ ~Verified(file) /\ Abandon("raised")
  /\ phase' = "idle"
  /\ UNCHANGED <<campaign, runs, target, job, orbits, parts, tasks, pool, ending, file>>

EngineRaises ==
  /\ status = "run" /\ phase \in {"failed", "cancelled"}
  /\ Abandon("raised")
  /\ UNCHANGED <<campaign, runs, target, engineVars>>

\* A native replay: its summary says whether packets were left unresolved or not sent.
Replay ==
  /\ status = "replay"
  /\ LET entry == entries[Len(entries)]
         plan  == Plan(entry.inputs.document)
         next  == Len(entry.replays) + 1
     IN \/ \E clean \in (IF "packets" \in campaign.faults THEN BOOLEAN ELSE {TRUE}) :
             /\ entries' = [entries EXCEPT ![Len(entries)].replays =
                              Append(@, [replay |-> plan[next], clean |-> clean])]
             /\ status' = IF next = Len(plan) THEN "run" ELSE "replay"
        \/ "replay" \in campaign.faults /\ Abandon("raised")
  /\ UNCHANGED <<campaign, runs, target, engineVars>>

\* Fault: a kind without a backend is forgotten.
EvidenceOfRuns ==
  LET native == {i \in DOMAIN entries : entries[i].replays # <<>>}
  IN CASE native = DOMAIN entries -> "actual" [] native = {} -> "missing" [] OTHER -> "partial"
\* A run has native evidence when it was replayed at all.
Evidence ==
  LET native == {i \in DOMAIN entries : entries[i].replays # <<>>}
  IN CASE native = DOMAIN entries /\ Missing = {} -> "actual"
       [] native # {} /\ ~(native = DOMAIN entries /\ Missing = {}) -> "partial"
       [] OTHER -> "missing"

Document ==
  [is |-> "sweep", entries |-> entries, baseline |-> BaselineRun(spec, runs),
   rows |-> ComparisonRows(entries, BaselineRun(spec, runs)),
   evidence |-> IF spec.replay = NoReplay THEN "none" ELSE Evidence, missing |-> Missing]

\* require_native_evidence: every run of a release was replayed, and every packet accounted for.
HasNativeEvidence == \A e \in Range(entries) : e.replays # <<>> /\ \A r \in Range(e.replays) : r.clean

Write ==
  /\ status = "run" /\ phase = "idle" /\ Len(entries) = Len(runs)
  /\ \/ (campaign.release => HasNativeEvidence) /\ status' = "publish" /\ UNCHANGED entries
     \/ campaign.release /\ ~HasNativeEvidence /\ Abandon("raised")
  /\ UNCHANGED <<campaign, runs, target, engineVars>>

\* One rename, refused if something else was put there meanwhile.
Publish ==
  /\ status = "publish"
  /\ \/ target = Nothing /\ target' = Document /\ status' = "published" /\ UNCHANGED entries
     \/ target # Nothing /\ Abandon("raised") /\ UNCHANGED target
  /\ UNCHANGED <<campaign, runs, engineVars>>

Rival ==
  /\ "rival" \in campaign.faults /\ status \in {"run", "replay", "publish"} /\ target = Nothing
  /\ target' = [is |-> "rival"]
  /\ UNCHANGED <<campaign, runs, status, entries, engineVars>>

Ended == status \in {"refused", "raised", "published"} /\ UNCHANGED vars

Running == status = "run" /\ (EngineStep \/ ChangeFile) /\ UNCHANGED campaignVars

Next == Prepare \/ Begin \/ Running \/ Save \/ EngineRaises \/ Replay \/ Write \/ Publish \/ Rival \/ Ended

Spec == Init /\ [][Next]_vars

-----------------------------------------------------------------------------
(* The design: what a reader expects of a sweep, without patches.          *)

\* A value of a specification as it is found in a normal form, where null takes a default.
RECURSIVE Holds(_, _)
Holds(node, value) ==
  CASE value = Null -> TRUE
    [] Is("members", value) -> \A k \in DOMAIN value.members : HasChild(node, k) /\ Holds(Child(node, k), value.members[k])
    [] Is("items", value) -> /\ Len(node.items) = Len(value.items)
                             /\ \A i \in DOMAIN value.items : Holds(node.items[i], value.items[i])
    [] OTHER -> NumbersEqual(node, value)

\* Two documents differ at or under the paths only.
RECURSIVE SameOutside(_, _, _, _)
SameOutside(a, b, here, paths) ==
  \/ here \in paths
  \/ ~(\E p \in paths : IsPrefix(here, p)) /\ a = b
  \/ /\ \E p \in paths : IsPrefix(here, p)
     /\ Is("members", a) /\ Is("members", b) /\ DOMAIN a.members = DOMAIN b.members
     /\ \A k \in DOMAIN a.members : SameOutside(a.members[k], b.members[k], Append(here, k), paths)
  \/ /\ \E p \in paths : IsPrefix(here, p)
     /\ Is("items", a) /\ Is("items", b) /\ Len(a.items) = Len(b.items)
     /\ \A t \in {u \in DOMAIN Index : Index[u] <= Len(a.items)} :
          SameOutside(Child(a, t), Child(b, t), Append(here, t), paths)

Later(i) == FoldLeft(LAMBDA n, p : n * Len(p.values), 1, SubSeq(spec.parameters, i + 1, Len(spec.parameters)))
WindowPaths == IF spec.window = NoWindow THEN {} ELSE TimeBounds

RunHolds(k) ==
  LET doc == runs[k].document
      Differs(i) == {v \in Range(spec.parameters[i].values) : ~NumbersEqual(v, spec.parameters[i].nominal)}
      before(i)  == 1 + FoldLeft(LAMBDA n, j : n + Cardinality(Differs(j)), 0, [j \in 1..(i - 1) |-> j])
  IN CASE spec.mode = "grid" ->
            /\ SameOutside(doc, base, <<>>, Paths(spec) \union WindowPaths)
            /\ \A i \in DOMAIN spec.parameters : LET p == spec.parameters[i] IN
                 Holds(At(doc, p.path), p.values[1 + (((k - 1) \div Later(i)) % Len(p.values))])
       [] spec.mode = "oat" /\ k = 1 -> SameOutside(doc, base, <<>>, WindowPaths)
       [] spec.mode = "oat" /\ k > 1 ->
            \E i \in DOMAIN spec.parameters :
              /\ k \in (before(i) + 1)..(before(i) + Cardinality(Differs(i)))
              /\ SameOutside(doc, base, <<>>, {spec.parameters[i].path} \union WindowPaths)
              /\ \E v \in Differs(i) : Holds(At(doc, spec.parameters[i].path), v) /\ v = runs[k].id[3]
       [] OTHER -> TRUE

\* Every combination of a grid, or every value of every parameter by itself, is a run, once, at its
\* place; a run's document is the base's but for what was asked, and covers the window; no two runs
\* share a directory where case is ignored, and there is exactly one run per id.  The design is
\* fixed once expanded: it is looked at between the engine's runs.
DesignIsComplete ==
  runs # <<>> /\ phase = "idle" =>
    /\ spec.mode = "grid" => Len(runs) = Later(0)
    /\ spec.mode = "oat" => Len(runs) = 1 + Cardinality({<<p, v>> \in UNION {{<<p, v>> : v \in Range(p.values)} :
                                              p \in Range(spec.parameters)} : ~NumbersEqual(v, p.nominal)})
    /\ \A k \in DOMAIN runs : RunHolds(k)
    /\ spec.window # NoWindow => \A k \in DOMAIN runs :
         LET d == runs[k].document
         IN Start(d) = Start(base) + spec.window.offset /\ Stop(d) = Start(d) + spec.window.duration
    /\ \A k \in DOMAIN runs : Parsed(runs[k].document) = runs[k].document
    /\ \A i, j \in DOMAIN runs : i # j => Folded(runs[i].id) # Folded(runs[j].id)

\* What one process computes from the document and the archived catalogs.
Sequential(inputs, ids) ==
  LET geometry == [s \in DOMAIN ids |-> <<ids[s], <<"geometry", inputs.catalog>>>>]
      events   == [s \in DOMAIN ids |-> Append(geometry[s], <<"events", inputs.catalog>>)]
      refined  == [s \in DOMAIN ids |-> <<ids[s], <<"refined", inputs.catalog>>>>]
      stages   == [geometry |-> geometry, events |-> events,
                   links |-> [s \in DOMAIN ids |-> Append(events[s], <<"links", inputs.catalog>>)]]
  IN IF At(inputs.document, <<"time", "convergence">>).text = "off" THEN stages
     ELSE stages @@ [refined |-> refined]

\* Whatever the workers' order and whenever the files changed, a saved run's results are what one
\* process computes again from the inputs saved beside them, and those are the run's own.
ResultsReproducible ==
  \A i \in DOMAIN entries : LET e == entries[i] IN
    /\ e.id = runs[i].id /\ e.inputs.document = runs[i].document
    /\ e.results.document = e.inputs.document
    /\ e.results.values = Sequential(e.inputs, e.results.ids)
    /\ Range(e.results.ids) = Selection(runs[i].document, Archived)

\* What is published holds every run, in the order of the design, every one with all the replays
\* asked of it that had a backend; it says "actual" only if nothing asked for is missing, every
\* metric of every run is compared with the baseline's, and a release left no packet unaccounted.
EvidenceIsTrue ==
  target.is = "sweep" =>
    /\ [i \in DOMAIN target.entries |-> target.entries[i].id] = Ids(runs)
    /\ target.baseline \in Range(Ids(runs))
    /\ \A e \in Range(target.entries) :
         /\ {<<r.replay[1], r.replay[3]>> : r \in Range(e.replays)} =
              UNION {{<<k, load>> : load \in Range(spec.replay[k])} : k \in Kinds \ target.missing}
         /\ \A m \in e.metrics : \E row \in target.rows : row.run = e.id /\ row.metric = m
    /\ target.evidence = "actual" =>
         \A e \in Range(target.entries) : \A k \in Kinds : \E r \in Range(e.replays) : r.replay[1] = k
    /\ campaign.release => \A e \in Range(target.entries) :
         e.replays # <<>> /\ \A r \in Range(e.replays) : r.clean
=============================================================================
