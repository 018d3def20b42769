------------------------------ MODULE EngineRun ------------------------------
(***************************************************************************)
(* One run of the engine (engine/run.py): the catalogs are read and their  *)
(* hash checked, every stage is computed per satellite, here or in a pool  *)
(* of processes that read the catalogs again, in chunks that finish in any *)
(* order, and the convergence gate ends it.  A catalog may change on disk  *)
(* at any time, and a stage may raise, a worker fail to start or die.      *)
(***************************************************************************)
EXTENDS Sweep

CONSTANTS ChunksPerWorker,  \* 4 in the code
          CatalogIds,       \* the NORAD ids in each version of the catalog file
          MemoryBudget,     \* in samples of a pair
          Metrics,          \* per metric, [class, absolute, count]
          Outcomes          \* per metric, <<primary, refined>>: what the two grids may give

VARIABLES phase,    \* where the run is, or how it ended
          job,      \* [document, workers, faults]
          orbits,   \* [ids, version]: what load_catalogs returned
          parts,    \* per stage, the merged results
          tasks,    \* the stage in the pool: [stage, chunks, futures]
          pool,     \* per worker process, its context
          ending,   \* how the run ends once the pool is shut down
          file      \* the version of the catalog on disk

engineVars == <<phase, job, orbits, parts, tasks, pool, ending, file>>

Archived == "archived"    \* the version whose SHA-256 the scenarios name
NaN == -1
NoTasks == [stage |-> "none", chunks |-> <<>>, futures |-> <<>>]
NoPool == <<>>
Absent == "absent"
Unusable == "unusable"
Dead == "dead"

EngineInit ==
  /\ phase = "idle" /\ job = [document |-> Null, workers |-> 1, faults |-> {}]
  /\ orbits = [ids |-> <<>>, version |-> Archived] /\ parts = <<>>
  /\ tasks = NoTasks /\ pool = NoPool /\ ending = "none" /\ file = Archived

May(fault) == fault \in job.faults

\* Someone edits the catalog file, and may put it back.
ChangeFile ==
  /\ phase # "idle" /\ May("catalog")
  /\ file' = (IF file = Archived THEN "edited" ELSE Archived)
  /\ UNCHANGED <<phase, job, orbits, parts, tasks, pool, ending>>

RunEngine(document, workers, faults) ==
  /\ phase = "idle"
  /\ job' = [document |-> document, workers |-> workers, faults |-> faults]
  /\ phase' = "catalog" /\ parts' = <<>> /\ ending' = "none"
  /\ UNCHANGED <<orbits, tasks, pool, file>>

Becomes(p) == phase' = p /\ UNCHANGED <<job, orbits, parts, tasks, pool, ending, file>>

-----------------------------------------------------------------------------
(* The catalogs.                                                           *)

Verified(version) == version = Archived

\* In row order, each id once, without those that are not selected; all of the selected must be there.
Selection(d, version) ==
  LET chosen == At(d, <<"space_segment", "select_norad_ids">>)
  IN IF chosen = Null THEN Range(CatalogIds[version]) ELSE {NumberOf(n) : n \in Range(chosen.items)}
IsCatalog(version) == /\ Verified(version) /\ IsInjective(CatalogIds[version])
                      /\ Selection(job.document, version) \subseteq Range(CatalogIds[version])
Loaded(version) == [ids |-> SelectSeq(CatalogIds[version], LAMBDA n : n \in Selection(job.document, version)), version |-> version]

LoadCatalogs ==
  /\ phase = "catalog"
  /\ \/ IsCatalog(file) /\ orbits' = Loaded(file) /\ phase' = "counts"
     \/ ~IsCatalog(file) /\ phase' = "failed" /\ UNCHANGED orbits
  /\ UNCHANGED <<job, parts, tasks, pool, ending, file>>

Fits(d) == /\ At(d, <<"time", "events">>).flag => StepOf(d) <= MaxStep
           /\ Len(orbits.ids) * Samples(d) * Len(Stations(d)) <= MemoryBudget

\* The records are counted from a second reading; then the step and the memory are checked.
CountRecords ==
  /\ phase = "counts"
  /\ LET workers == IF job.workers < Len(orbits.ids) THEN job.workers ELSE Len(orbits.ids)
     IN \/ /\ Verified(file) /\ Fits(job.document)
           /\ pool' = IF workers > 1 THEN [w \in 1..workers |-> Absent] ELSE NoPool
           /\ phase' = "geometry"
        \/ ~(Verified(file) /\ Fits(job.document)) /\ phase' = "failed" /\ UNCHANGED pool
  /\ UNCHANGED <<job, orbits, parts, tasks, ending, file>>

-----------------------------------------------------------------------------
(* The stages.  A result is its satellite and what it was computed with.   *)

Computed(stage, item, version) == Append(item, <<stage, version>>)
Items(stage) ==
  CASE stage \in {"geometry", "refined"} -> [s \in DOMAIN orbits.ids |-> <<orbits.ids[s]>>]
    [] stage = "events" -> parts["geometry"]
    [] stage = "links"  -> parts["events"]

Mode == At(job.document, <<"time", "convergence">>).text
StageDue == CASE phase \in {"geometry", "events", "links"} -> phase
              [] phase = "convergence" /\ Mode # "off" /\ "refined" \notin DOMAIN parts -> "refined"
              [] OTHER -> "none"
After(stage) == CASE stage = "geometry" -> "events" [] stage = "events" -> "links"
                  [] stage = "links" -> "routes" [] stage = "refined" -> "convergence"

Merge(stage, results) == parts' = (stage :> results) @@ parts /\ phase' = After(stage)
Raise(how) == ending' = how /\ phase' = "shutdown"

\* Every phase is reported first, and the report raises when the job is cancelled.
Cancel ==
  /\ May("cancel")
  /\ \/ phase \in {"catalog", "tables"} /\ phase' = "cancelled" /\ UNCHANGED ending
     \/ /\ phase \in {"geometry", "events", "links", "routes", "convergence"}
        /\ tasks = NoTasks /\ "refined" \notin DOMAIN parts
        /\ Raise("cancelled")
  /\ UNCHANGED <<job, orbits, parts, tasks, pool, file>>

\* Without a pool, in this process.
Compute ==
  /\ StageDue # "none" /\ pool = NoPool
  /\ \/ /\ Merge(StageDue, [s \in DOMAIN Items(StageDue) |->
                             Computed(StageDue, Items(StageDue)[s], orbits.version)])
        /\ UNCHANGED ending
     \/ May("stage") /\ Raise("failed") /\ UNCHANGED parts
  /\ UNCHANGED <<job, orbits, tasks, pool, file>>

ChunkSize(n) == LET size == -((-n) \div (ChunksPerWorker * Len(pool))) IN IF size < 1 THEN 1 ELSE size
Chunks(items) ==
  LET n == Len(items) size == ChunkSize(Len(items))
  IN [k \in 1..(-((-n) \div size)) |-> SubSeq(items, (k - 1) * size + 1, IF k * size < n THEN k * size ELSE n)]

Pending == [is |-> "pending"]
Errors == {[is |-> "error"], [is |-> "broken"]}
Submit ==
  /\ StageDue # "none" /\ pool # NoPool /\ tasks = NoTasks
  /\ \/ /\ Dead \notin Range(pool)
        /\ tasks' = [stage |-> StageDue, chunks |-> Chunks(Items(StageDue)),
                     futures |-> [k \in DOMAIN Chunks(Items(StageDue)) |-> Pending]]
        /\ UNCHANGED <<phase, ending>>
     \/ Dead \in Range(pool) /\ Raise("failed") /\ UNCHANGED tasks    \* BrokenProcessPool
  /\ UNCHANGED <<job, orbits, parts, pool, file>>

-----------------------------------------------------------------------------
(* The worker processes.                                                   *)

RunningIn(w) == {k \in DOMAIN tasks.futures : tasks.futures[k] = [is |-> "running", worker |-> w]}

\* Fault: a worker takes the catalogs without their hash.
ContextUnchecked(version) == version
\* _init_worker: a context of its own, from the files as they are now, or the failure, kept.
Context(version) == IF IsCatalog(version) THEN version ELSE Unusable
StartWorker(w) ==
  /\ tasks # NoTasks /\ pool[w] = Absent
  /\ pool' = [pool EXCEPT ![w] = Context(file)]
  /\ UNCHANGED <<phase, job, orbits, parts, tasks, ending, file>>

TakeChunk(w) ==
  /\ phase # "shutdown" /\ pool[w] \notin {Absent, Dead} /\ RunningIn(w) = {}
  /\ \E k \in DOMAIN tasks.futures :
       /\ tasks.futures[k] = Pending /\ \A j \in 1..(k - 1) : tasks.futures[j] # Pending
       /\ tasks' = [tasks EXCEPT !.futures[k] = [is |-> "running", worker |-> w]]
  /\ UNCHANGED <<phase, job, orbits, parts, pool, ending, file>>

CompleteChunk(w) ==
  /\ \E k \in RunningIn(w), fails \in BOOLEAN :
       /\ fails => pool[w] = Unusable \/ May("stage")
       /\ ~fails => pool[w] # Unusable
       /\ LET chunk == tasks.chunks[k]
              result == [i \in DOMAIN chunk |-> Computed(tasks.stage, chunk[i], pool[w])]
          IN tasks' = [tasks EXCEPT !.futures[k] =
                         IF fails THEN [is |-> "error"] ELSE [is |-> "result", value |-> result]]
  /\ UNCHANGED <<phase, job, orbits, parts, pool, ending, file>>

\* A process that dies takes the pool with it: what is not finished is broken, the others are killed.
Die(w) ==
  /\ May("death") /\ pool[w] \notin {Absent, Dead}
  /\ pool' = [v \in DOMAIN pool |-> Dead]
  /\ tasks' = [tasks EXCEPT !.futures = [k \in DOMAIN tasks.futures |->
                 IF tasks.futures[k].is \in {"pending", "running"} THEN [is |-> "broken"] ELSE tasks.futures[k]]]
  /\ UNCHANGED <<phase, job, orbits, parts, ending, file>>

WorkerStep == \E w \in DOMAIN pool : StartWorker(w) \/ TakeChunk(w) \/ CompleteChunk(w) \/ Die(w)

-----------------------------------------------------------------------------
(* The run again: chunks are taken in their order, whatever order they     *)
(* finish in, and the first that failed is raised.                         *)

Values(futures) == FlattenSeq([k \in DOMAIN futures |-> futures[k].value])

Collect ==
  /\ phase # "shutdown" /\ tasks # NoTasks
  /\ \/ /\ \A k \in DOMAIN tasks.futures : tasks.futures[k].is = "result"
        /\ Merge(tasks.stage, Values(tasks.futures)) /\ tasks' = NoTasks
        /\ UNCHANGED ending
     \/ /\ \E k \in DOMAIN tasks.futures :
             tasks.futures[k] \in Errors /\ \A j \in 1..(k - 1) : tasks.futures[j].is = "result"
        /\ Raise("failed") /\ UNCHANGED <<parts, tasks>>
  /\ UNCHANGED <<job, orbits, pool, file>>

Routes == phase = "routes" /\ Becomes("convergence")

\* |r - p| within a tenth of r or the metric's own tolerance; counts exactly; undefined twice is equal.
Passes(m, p, r) ==
  IF NaN \in {p, r} THEN p = r
  ELSE LET difference == IF p < r THEN r - p ELSE p - r
       IN difference <= Metrics[m].absolute \/ (~Metrics[m].count /\ 10 * difference <= r)
Failures(outcome) == {m \in DOMAIN outcome : ~Passes(m, outcome[m][1], outcome[m][2])}
Fatal(outcome) == {m \in Failures(outcome) : Metrics[m].class \in {"link", "station"}}

Gate ==
  /\ phase = "convergence" /\ StageDue = "none" /\ tasks = NoTasks
  /\ \/ Mode = "off" /\ Raise("tables")
     \/ /\ Mode # "off"
        /\ \E o \in Outcomes : Raise(IF Fatal(o) # {} /\ Mode = "error" THEN "failed" ELSE "tables")
  /\ UNCHANGED <<job, orbits, parts, tasks, pool, file>>

\* __exit__: what is running is waited for, what is not yet running is cancelled.
Shutdown ==
  /\ phase = "shutdown" /\ \A w \in DOMAIN pool : RunningIn(w) = {}
  /\ pool' = NoPool /\ tasks' = NoTasks
  /\ phase' = ending
  /\ UNCHANGED <<job, orbits, parts, ending, file>>

Tables == phase = "tables" /\ Becomes("done")

Results == [document |-> job.document, ids |-> orbits.ids, values |-> parts]

EngineStep == LoadCatalogs \/ CountRecords \/ Cancel \/ Compute \/ Submit \/ WorkerStep
              \/ Collect \/ Routes \/ Gate \/ Shutdown \/ Tables

EngineEnds == phase \in {"done", "failed", "cancelled"}
=============================================================================
