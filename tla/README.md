# A TLA+ model of OpenLEO

OpenLEO simulates links and routes of low-earth-orbit constellations: it propagates orbits,
finds passes, chooses modulation and coding, routes between stations, saves results, sweeps
parameters, replays packets in ns-3, and serves all this to a browser through a local HTTP
server. Most of its lines are floating-point physics, which a model checker has nothing to say
about. This project models what is discrete: the server's threads, jobs and files, the
publication of results, the engine's searches and combinatorial algorithms on the time axis, the
process pool, scenario documents and the sweeps over them, and the packet replays with their
independent accounting.

Paths below are relative to `src/openleo/` of the repository.

## Inventory

| Part | State it keeps | Operations | What is hard | What makes it correct |
| --- | --- | --- | --- | --- |
| Job queue (`app/jobs.py`) | jobs by id, FIFO, closed, current job | submit, evict, report, close, the worker loop | handler threads, a worker and closers interleave between critical sections; a poison pill | no job lost or run twice; results survive until evicted; close returns and is final |
| Result store (`app/api.py`) | result directories, accounted sizes in LRU order, export lock | run, check size, record and evict, export, serve, close | three locks, none held across the files' removal; files outlive and are outlived by the accounting | a done job has its files; limits hold; nothing leaks; close removes everything |
| HTTP server (`app/server.py`, `app/api.py`) | stamps of the last requests; per thread, the request it serves | admit, route, read a body, submit, serve, close | a clock read before the lock; files evicted between being found and opened; catalogs pinned through patches | refusals are deserved; only vetted jobs are queued |
| Atomic publication (`results/io.py`, `results/manifest.py`) | the file system | build aside, check, rename, clean up | rival processes, crashes, foreign files at the target | a result at the target is whole and never replaced |
| ACM (`engine/acm.py`, `physics/adaptation.py`) | the mode, levels reached, decisions | decide at crossings or samples, schedule with delay | hysteresis, coinciding levels, decisions overlapping in the delay, loss while the news travels | the schedule equals what a transmitter would have done |
| Routing (`engine/routing.py`) | heaps and labels; held routes | shortest and widest path, breakpoints, metrics | ties, equal widths over different prefixes, half-open intervals | the first of the eligible routes, held only while it exists |
| Passes and grid (`engine/events.py`, `engine/timegrid.py`) | none | refine grids, extrema, bisect, solve, collect passes | window ends, single samples, hidden crossings, integer steps | the passes an observer of every instant sees |
| Statistics (`engine/statistics.py`, `engine/integrate.py`) | none | interval sweeps, envelope, station, pass and route rows | touching and overlapping intervals, ties | equals the pointwise definition |
| Engine run (`engine/run.py`, `engine/catalogs.py`) | stages' results, process pool, the catalogs on disk | load, count, stages, cancel, save | workers that die or fail to start; catalogs edited between readings | results are those of the archived inputs, in order, or one error |
| Convergence (`engine/convergence.py`) | none | compare, gate | missing, undefined and counted metrics | an error mode lets nothing unconverged pass |
| Sweeps, reproduction (`sweep.py`, `reproduce.py`) | a stage directory | patch, expand, run, replay, compare, publish | overlapping and aliasing paths, partial failure, missing backends | the design is complete; all or nothing is published; its claims hold |
| Replays (`replay/`, `adapters/ns3/`) | results directory, trace, queues, outages, evidence | read, verify, prepare, simulate, parse, account, publish | rounding of times, boundaries of outages, drops, forwarding, acquisition; files replaced while being read; another backend | the trace is the link; the parser accepts what the simulator does; evidence is of nothing else |
| Scenarios (`scenario/`) | none | parse, normalise | defaults and cross checks between sections | a normal form parses to itself |
| Formats, physics, geometry, calculators, CLI | none | encode, compute | floating point and text | not for a model checker |

They interact as follows. Handler threads of the server call the `Api`, which submits to the job
queue and asks it for results; the queue's worker calls back `Api._execute`, which runs the
engine (reporting phases to the queue, which cancels through the same call), publishes a
directory through `publish_atomically`, and accounts it. The engine calls the passes, then ACM
on the passes, then routing on the rate segments, per satellite and station in a pool of
processes. Sweeps expand one scenario document into many, run the engine on each into one staged
directory and replay the saved runs; a replay reads such a directory back, drives an ns-3
executable with a trace, and judges what the executable wrote. The server runs sweeps too, with
the catalogs pinned to those it was started with.

`PROJECT.json` lists every component with its status and every hazard with the line where it
bites.

## Modules

| Module | Models |
| --- | --- |
| `JobBoard` | what the job queue promises: a board of jobs, a line, one running, a close |
| `JobQueue` | `JobQueue` of `app/jobs.py`; implements `JobBoard` |
| `JobQueueProofs` | TLAPS proofs about `JobQueue` |
| `ResultStore`, `MCResultStore` | `Api`'s directories, limits, exports and close, on top of `JobQueue` |
| `ResultStoreProofs` | TLAPS proofs about `ResultStore`, on those of `JobQueueProofs` |
| `WriteOnce` | what publishing promises: a place written at most once |
| `Publish` | `publish_atomically` with `write_results`; implements `WriteOnce` |
| `PublishProofs` | TLAPS proofs about `Publish` |
| `Acm`, `MCAcm` | the MODCOD rule and the schedule of a pass |
| `AcmProofs` | TLAPS proofs about `Acm` |
| `Routing`, `MCRouting` | `shortest_path` and `widest_path` on the graphs of the three route models |
| `RoutingProofs` | TLAPS proofs about `Routing` |
| `Events` | the time grid and the search for passes, step by step |
| `Statistics` | intervals to numbers: checks, measure, envelope, station, pass and route rows (operators) |
| `Timeline`, `MCTimeline` | a station's window: `Events`, then rate segments, then `Statistics` |
| `TimelineProofs` | TLAPS proofs about the grid and the passes of `Events` and the segments of `Timeline` |
| `Scenario` | documents as JSON values, what the parser accepts and its normal form (operators) |
| `Sweep` | specifications, patches, expansion, comparisons (operators on `Scenario`) |
| `EngineRun` | one engine run with its pool, faults and gate (on `Sweep`'s documents) |
| `Campaign`, `MCCampaign` | `run_sweep` and `run_reproduce`: `Sweep`, `EngineRun`, replays, publication |
| `Server`, `MCServer` | the HTTP server's threads and the API's handlers, on `Sweep`'s documents |
| `Documents` | a small scenario and specifications over it, for `MCCampaign` and `MCServer` |
| `PacketReplay`, `MCPacketReplay` | one link: reading the results, trace, ns-3, parser, evidence |
| `PacketReplayProofs` | TLAPS proofs about `PacketReplay` |
| `NetworkReplay`, `MCNetworkReplay` | one pair: snapshots, ns-3 with a queue per device, traffic both ways, parser, evidence |
| `NetworkReplayProofs` | TLAPS proofs about `NetworkReplay` |

### JobQueue

An action is one critical section of the queue's lock or one step of a thread between two of
them: `Submit` and `Evict` (handlers); `Get`, `Begin`, `Report`, `Return`, `Finish` (the worker;
`Get` and `Begin` are apart because `queue.get` is outside the lock); `Close`, `PutNone`, `Join`
(closers). The code passes `_Job` objects between the table and the FIFO, and a resubmission
replaces the table's object; the model names the n-th object of an id `<<j, n>>`, so that the
agreement of table, FIFO and worker is a property (`NoJobLost`), not an assumption. `_closed` and
`_cancel` are set together and modelled as one. Submissions that change nothing (cached, full,
closed) are not actions. The abstract `JobBoard` has neither FIFO nor threads; its `line` is the
FIFO with the object the worker has taken and not begun in front.

### ResultStore

`ResultStore` extends `JobQueue` and splits `run_fn` and the handlers at their file operations and
critical sections. `MakeDirectory` ... `ReturnResult` are `_execute`; `Record`, `EvictVictim`,
`UnlinkVictim`, `RmdirVictim` are `_record`, run by the worker or by the handler that exported:
victims leave the accounting under the usage lock, and their jobs and files afterwards. `Ask` ...
`Touch` are a request for a file or an archive. `shutil.rmtree(ignore_errors=True)` is two steps,
unlinking what was listed and removing the directory if nothing has been created in it since. A
directory is the set of what it holds; `hollow` is an archive built after the result was gone, and
`partial` one that is being built. An export can fail at any file operation (`FailExport`: a full
disk, a file that went), which releases the lock and leaves the partial file where it is.
`Published` is what `UsageIsExact` compares the accounting with: the bytes of the result and of the
finished archive, not those of a partial one, which the code does not account.
The worker's job outcome, path and phase are `JobQueue`'s own actions (`Return`, `Finish`,
`Report`), so both modules are the same queue; `QueueKept` proves it. `_usage` is a sequence in the
order of its entries' last use, with at most one entry per job.

### Publish

One action per system call of `publish_atomically` that another process can observe. `Rename`
follows POSIX (it replaces an empty directory and fails on anything else). `FailMake`, `FailBuild`
and `FailRename` are the exceptions, `Crash` kills a process anywhere, and `Occupy` is another
program at the target. A result is its set of files, with the manifest, written last, as the set
of files it lists. The temporary name is random, so each publisher has its own.

### Acm

A pass is walked tick by tick. With events on, `Acquire` is the value at the start and `Cross` one
crossing of the next level, which is what `_crossings` returns; any number of them may fall in
one tick, as roots are made nondecreasing and can coincide. With events off, `Sample` is one
grid sample of any value. `SampleMode` is what `run.py` writes for a sample of the pass, its end
included, which no segment holds. `Schedule` is `_merged` and `_schedule`, with one operator for each of
the lists the code builds: a list that the code keeps sorted by time is a set here, and `Nth` its order.
Es/N0 is known by its count of levels, as in `_Rule.count`.

### Routing

A world is the outcome of the geometry: which links there are, with integer delays and rates.
`Pop` is one iteration of `shortest_path`, `PopWidest` one of `widest_path`, which starts the former
at the target. Labels carry their path, as the heap's entries do. Delays are exact integers, so
that ties are ties; floating-point rounding of delays is not modelled.

### Events, Statistics, Timeline

A tick is the microsecond of the grid and the tolerance of the roots at once, and elevations are
whole steps above the mask. `Sample` evaluates the grid and inserts extrema; `Bisect` splits the
intervals whose middle is on the other side of the mask; `Bracket` and `Solve` find the roots, all
crossings at once as in `_solve`, where a trial point is *any* tick inside the bracket, so that no
property depends on the secant steps; `Collect` makes the passes, `Hold` those without events.
`Tile` gives each pass rate segments (what `Acm` returns without a delay), and `Report` is the
statistics stage: `_pair_intervals`' checks, then the envelope, the rows and the routes.

Routes are evaluated at breakpoints and held until the next one. What is at a breakpoint is the rate
of the segment there; delays and the links between satellites, which move all the time, are read at the
breakpoint only, as `engine/routing.py:18-22` and `engine/convergence.py:31-35` say (`docs/SCOPE.md:93-95`: their
changes in between are not resolved). `Sky` gives them as functions of time, which `Seen` reads as
`_route_intervals` does: with events off, and the satellite below its mask at a breakpoint between
samples, the delay is the last sample's (`Reading`, `_held_queries`). So the route held is *not* the best
route at every time, and `RoutesHold` does not say so. It says that the route held at a tick is the
best over the rates of that very tick, with delays and links between satellites that are no older
than the last sample, never read, on a fine grid, where the satellite is out of sight; and that the
metrics are an observer's of the routes held.

### Scenario, Sweep, EngineRun, Campaign

A document is a value built of objects, arrays, numbers (15 and 15.0 differ as in JSON), texts,
times and null. `Scenario` has the fields that cross checks between sections read and one of each
other kind; `Parsed` is the normal form or `Failed`. `Sweep` keeps patches, pointers, expansion and
ids; an id is the tuple its text is formatted from. In `EngineRun` a stage's value of a satellite is
the list of the stages and the version of the catalog it was computed with, so that a value from
another catalog, another satellite or another order is seen; chunks finish in any order, a worker
may fail at start or die, `ChangeFile` edits the catalog at any time, and the gate is given any of
`Outcomes`. `Campaign` runs it for every document, then `Save`, `Replay`, `Document`, `Publish`.

### Server

A thread's place is `handler[h].at`; `Arrive` checks host and origin and reads the clock, `Admit`
holds the rate lock, `Dispatch` routes and reads the body, `Submit`, `Find`, `Explain`, `Locate`
and `Reply` are the critical sections and file accesses of the API's handlers. `StartJob`,
`EndJob`, `EvictJob` and `Unlink` are the worker and the accounting, seen from the handlers;
`EndJob` parses the payload again, as `_execute` does. A body is a JSON value. `ParsedSweep` (in
`Sweep`) is `parse_sweep`: it refuses unknown, missing and misplaced keys, a null one of a design that
is another mode's included, and gives the document back with every key explicit, null where a block is
absent. `Payload` is what `_post_sweep` submits of that: a document again, without its null keys and
without its base. The job's id is the payload, and the worker gives it to `ParsedSweep` once more.
`JobsAreVetted` says that this second parse gives what the first gave, so that the job runs the sweep
that was checked; a payload that kept its nulls would be queued and then refused.

### PacketReplay, NetworkReplay

`Verify` ... `ReadInputs` read the results directory in `ReplaySource.from_results`' order while
`Edit` may replace its files by another run's, one at a time; `Prepare` is the preparation of the
trace and `provenance`. Then the ns-3 program, one action per callback, in the order its events
are scheduled: snapshots before offers before what devices and packets do in the same tick;
between devices the network's order is left open. The parser is `Accepts`, which sees the records
and the trace and never the simulator's queue. In the network, flows offer in both directions, and
a device has one queue for whatever leaves through it: when a route is reversed over a link that
stays up, `Replay::Update` flushes nothing (it flushes links that are gone), so the backlog of one
direction waits before packets of the other, and the parser's FIFO check, which is keyed by edge
and sender (`replay/network_packet_io.py:318-320`), must accept the mixture. IP's time to live is
left out. The tables' times are in thirds of the simulator's tick, so that rounding shows. What
goes wrong around the backend (handshake, exit status, replaced executable, changed inputs, extra
files) is the replay's `fault`; `Take` is a rival at the target.

## What the runs check

| Run | Instance | Distinct states | What it shows |
| --- | --- | --- | --- |
| `jobqueue` | 3 ids, room for 2, 2 objects per id, 2 closers | 414,613 | `NoJobLost`, `ResultKept`, `CloseIsFinal`, `JobSettles`, `CloseReturns`, and the refinement `BoardSpec` |
| `store` | 2 jobs run twice each, 2 handlers; limits that evict with close, or exports that fit and may fail | 157,996 | `DoneHasResult`, `NoLeak`, `UsageIsExact`, `UsageWithinLimit`, `CloseRemovesResults`, `ExportLockReleased` |
| `store_evicted` | 2 jobs, 1 handler; exports that evict | violation | `DoneHasResult` fails |
| `store_closed` | 2 jobs, 1 handler; an export while the server closes | violation | `CloseRemovesResults` fails |
| `publish` | 3 publishers, 2 files | 38,356 | `ResultIsWhole`, `NothingLeft`, `OneSucceeds`, and the refinement `PublishedOnce` |
| `acm` | 3 MODCODs, 4 ticks, 3 changes; 4 hysteresis values, 3 delays | 278,946 | `RuleSettled`, `ScheduleIsOnline`, `SegmentsTile`, `EventsChain` |
| `routing` | 3 satellites, 3 links per pair or end | 319,773 | `RouteIsBest`, `SettledIsFinal` |
| `timeline` | 7 ticks, 4 grids, every elevation with 2 turns; 2 satellites | 37,436 | `GridKept`, `PassesExact`, `PairsAccepted`, `EnvelopeIsBest`, `RoutesHold` |
| `packet` | 8 ticks of link, 3 changes of 4 states; 8 replays | 362,285 | `TraceHolds`, `AccountAccepted`, `EvidenceIsValidated` |
| `network` | 2 satellites, 5 frames at each of 3 breakpoints; 7 replays of 12 ticks, offers both ways | 138,094 | `AcquisitionGates`, `AccountAccepted`, `EvidenceIsValidated` |
| `campaign` | about 200 specifications, up to 3 workers, 2 versions of a catalog | 14,389 | `DesignIsComplete`, `ResultsReproducible`, `EvidenceIsTrue` |
| `server` | 2 threads, 2 requests a second of 3 ticks, a stall of 1; every kind of body, 28 specifications | 187,358 | `RateIsHonest`, `JobsAreVetted` |

The bounds. Three ids with room for two make the queue full with one to refuse; two objects per
id give one resubmission, which is the most that any two steps of a thread can tell apart, since
the table holds one object and the worker another. Two closers distinguish the one that waits
from the one that is refused. In `store`, two jobs suffice for one to evict the other, and two
handlers for one to wait for the other's lock; the cases of exporting and evicting are separate
because together they break `DoneHasResult` (run `store_evicted`). Three publishers let one come
and go between any two steps of another with a third to be refused. In `acm`, a delay of half the
pass with three changes makes decisions overlap in the delay and the last be dropped; the
hysteresis values make levels coincide, nest and interleave. Three satellites give routes of
two to four hops, with relays in either order.

In `timeline`, two turns within seven ticks give two passes, a pass of one sample, a pass or a gap
between samples and passes at both ends of the window; the step divides the window, or leaves a
short last interval, or is the window. The other satellite rises, sets, loses lock and ties with
the first. The link between the satellites is lost for two ticks that are no sample, and the
station's two delays cross between samples. In `packet`, the five triples of changes round to the
start, to one tick or to different ones; the offered load is above and below what the link
carries, with queues of one and two. In `network`, three routes are enough to change both ends,
lose the route and get the same one back, with an acquisition delay shorter and longer than a
hold; the links' rates change under the packets that are forwarded, and a route over both
satellites is reversed with packets of either direction waiting. In `campaign`, designs have two
parameters of two or three values, which is where overlap, order and aliasing show; three workers
with chunks of one satellite finish in any order. In `server`, a specification has its optional
keys present, absent and null. Five admissions against a limit of two let the window slide past a
refusal; the stall is one tick of the three a second has. Each of the three setups varies what its
hazard depends on: time, bodies and headers, or the worker's progress. `campaign` checks deadlock.

Every constant that bounds a counter
(`MaxObjects`, `MaxChanges`) is marked *bound* where it is declared.

Deadlock checking is off in all runs but `campaign`: a queue with no more submissions and a
server without clients wait for ever, and the others end.

Every property has a mutant in `PROJECT.json`: a definition with a plausible bug (kept in the
module under a comment that begins with *Fault*) for which the property fails. A fault operator
is used by no specification.

### Fairness

`jobqueue` assumes weak fairness of the worker's and the closers' steps and that `run_fn` ends
(`Return`): threads are scheduled by the OS, no lock is held while blocking, and an engine run is
a finite computation. No fairness is assumed of clients. `store` assumes the same of the
worker and of every handler; a blocked handler waits for the export lock, whose holder's steps are
file operations.

## What the violation runs show

- `store_evicted`. The worker accounts its directory, then returns to the queue, which marks the
  job done. If an export that ends in between needs room, it evicts the new directory: `jobs.evict`
  ignores a job that is not done, the files are deleted, and the job becomes done without
  files. `app/api.py:38-40` says that an evicted id answers 404 *until it is submitted again*; a
  done id is never run again, so this one stays 404.
- `store_closed`. `app/server.py:223-224` says that `server_close` removes every result. Handler
  threads are daemons and are not joined; one that creates its archive's partial file after
  `rmtree` listed the directory keeps the directory from being removed, and the error is ignored.

## What is proved

For all values of the constants, under the named assumptions on them (`JobQueueAssumption`,
`ResultStoreAssumption`, `PublishAssumption`, `RoutingAssumption`, `AcmAssumption`,
`EventsAssumption`, `TimelineAssumption`, `SkyAssumption`, `PacketReplayAssumption`,
`NetworkReplayAssumption`: constants have their types; None is no object of the job queue;
`create_server` refuses a session limit below the artifact limit; the MODCODs are listed by rising
requirement, and hysteresis, delay and pass are not negative; a step is no longer than its window;
the passes and segments of the other satellites are apart and nested, as `PairsStand` proves of
those that are searched; delays are numbers for every satellite, and the target's rates constant
(`SkyAssumption`); a replay's window lies inside the results, a link's segments do not overlap, and
a packet takes a tick or more to send, also as the simulator rounds it, which on a link so fast that
a packet takes less than a nanosecond the parser refuses too; the saved routes have a breakpoint at
0, where the grid begins, are empty or simple and over active links, as `prepare_network_replay` has
checked, and the frames have the state of every link that a route takes; stations are numbered after
the satellites, a pair in its order):

- `JobQueueProofs`: `TypeCorrect` (`TypeOK`), `NothingLost` (`NoJobLost`), `ResultsKept`
  (`ResultKept`), `ClosedForGood` (`CloseIsFinal`) and `BoardKept` (`BoardSpec`). `NoJobLost` is nearly
  inductive: it is stated with the positions in the FIFO, so that appending and taking the head
  preserve it (`Extended` and `Shortened` in the lemmas); the invariant `IInv` adds the types, and
  that the worker holds an object between taking and finishing it (`Holding`). `ClosedForGood` adds
  that a closer has joined only if the worker has stopped. For the refinement, `Pill` says that
  one closer puts one poison pill, after which nothing is queued; so the board's line is what the
  worker has taken, then the FIFO without a pill at its end, and lemmas say what a submission
  (`WaitingAppends`), taking (`WaitingTaken`), beginning (`WaitingBegun`) and the pill
  (`WaitingClosed`) do to it. Every step of the queue is then a step of the board or none.
- `ResultStoreProofs`. `StoreInvariance`: the queue's `IInv` and `GInv`, which says where the worker
  and the export lock's holder are, are inductive together. `QueueKept`: every step of the store is
  a step of the queue or none of its, so the theorems on the queue hold in the app. `LimitKept`
  (`UsageWithinLimit`) holds without conditions: what is recorded was checked against the artifact
  limit, `Excess` then makes room for it, and the sum of the entries, a recursive function on
  places, is what appending and removing an entry say.
  The accounting (`DoneStaysOnDisk` for `DoneHasResult`, `NothingLeaks` for `NoLeak`,
  `UsageStaysExact` for `UsageIsExact`) is stated in two ways. `StoreSpec /\ []Apart` implies it,
  where `Apart` says that no directory is removed while it is the worker's own or an archive is
  built in it: the code does not exclude that, and `store_evicted` shows what then happens, so
  these theorems say that nothing *else* can break the accounting, whoever evicts, serves and closes.
  And a server that is asked for no archives (`Quiet`) keeps `Apart`, hence the accounting, with no
  condition on its behaviour; for it `ClosedEmpty` proves `CloseRemovesResults`. The invariant,
  `Exact`, says for every directory who owns it (`Owned`), what it holds (`Stored`, `Doomed`,
  `Ran`, `Builders`), and that entries, victims and done jobs match (`Entered`, `Evicted`, `Kept`);
  it says nothing once the root is being removed. An export may fail at any
  operation, so a directory may hold a partial archive that nobody builds (`Started`). TLC checked these
  formulas, with limits that evict while clients export, before they were proved.
- `PublishProofs`: `TypeCorrect` (`TypeOK`), `WholeResults` (`ResultIsWhole`), `NoLitter`
  (`NothingLeft`), `OneWinner` (`OneSucceeds`) and `Refinement` (`PublishedOnce`). The invariant says,
  for every place of a publisher, what of its directory exists: from the recheck on its content and
  manifest are whole and its directory is temporary, and it is told of success only if the target is
  its own; a refusal implies that something is at the target.
- `RoutingProofs`: `RouteCorrect` (`RouteIsBest`) and `SettledStays` (`SettledIsFinal`). The reference
  is independent of the algorithm: `RouteIsBest` compares the answer with *every* simple path from source
  to target, by `Delay` and `Bottleneck` of the path itself. A *trail* is a label whose delay,
  hops and bottleneck are those of its path. The order on labels is total on trails (lemmas on
  `LexLess`), and extending by a link preserves it and leads to a later label. While shortening, a
  settled label comes before everything in the heap (`InOrder`), a best label leads over settled
  nodes (`OverSettled`), and a settled node's neighbours have labels no worse than over it
  (`Relaxed`); so whatever a trail promises, a settled node or an entry of the heap answers
  (`TrailsAnswered`), which is induction along the trail. While widening, the neighbours of a popped
  node are reached as widely as over it (`Widened`), and every width promised is had by a trail
  (`Witnessed`). The second search starts with the width that the first has found, so its trails
  are the `Eligible` routes.
- `AcmProofs`: `RuleStaysSettled` (`RuleSettled`), `ScheduleIsAlwaysOnline` (`ScheduleIsOnline`),
  `SegmentsAlwaysTile` (`SegmentsTile`) and `EventsAlwaysChain` (`EventsChain`), for any MODCODs, any
  hysteresis and delay, and as many crossings as the link makes. The invariant (`Walked`) says that
  the walk alone tells the history: a decision is the rule's answer from the one before it, and each
  tick was heard as the last decision by then. Two lemmas on the rule give `RuleSettled`: an answer is
  its own answer (`SelectTwice`), and a value is read through its count only (`CountTells`). The rest
  is about the state a pass ends in. The mode is a function of time, `ModeAt`; merging decisions of
  an instant leaves the ticks at which it changes (`MergedIs`); the switches make it late by the delay
  (`InEffectIs`); without a downgrade on its way the mode in effect is no higher than the one the
  link supports now, so only blackouts need a look at the level (`CarriedIs`). What is carried at
  a tick is thus a function of the tick, constant between cuts (`CutsTell`) and between starts
  (`StartsTell`): looking up a segment by its start is reading that function.
- `TimelineProofs`: `GridStaysKept` (`GridKept`), for any window, step and factor. The invariant says
  that the grid is the one its scenario asks for to the end, and the rest is arithmetic of rounding
  (`RefineKeeps`): from any tick inside an interval a division finds the first part that starts past
  it (`PointNext`), whose start is bounded by its share of the length, half a tick either way
  (`OffsetIs`); so no sample is missing in between, whichever parts met when rounded.
- `TimelineProofs` also has `PairsStand` (`PairsAccepted`), for any elevations and any trial points of the
  root finder. The invariant (`SInv`) says that breakpoints lie in the window, that every bracket stays in
  its crossing, and that a root whose crossing begins out of sight is past that beginning (`Bracketed`):
  without this a zero on the mask could end one pass and start the next at once, in either order. Two runs
  of visible breakpoints are thus parted by two crossings (`RunsApart`), and their passes are apart
  (`PassesApart`); the maximal runs of a rate within them are too (`SegmentsApart`, `TiledIsPair`).
  What the checks sort is numbered by how many start earlier (`StartedIs`, `SortedIs`), which is how
  a segment is seen to find the pass it lies in (`PassFound`). TLC checked `SInv` before it was proved.
- `TimelineProofs`, `PassesAreExact` (`PassesExact`): for any window, elevations, step, factor and trial
  points. The property is about fine grids (`IsFine`): at most one turn of the elevation around a sample, and
  no two ticks alike. Such a turn, between two samples, is the one top or bottom of what lies around either, one
  of the two is an extremum, and its refinement is the turn (`TurnFound`, with `TopIs` and `SteadyIs`); so
  from the sampling on every turn is a breakpoint (`Turned`), which bisection, adding more, does not undo.
  A bracket holds the change of sign of its crossing or a zero (`Rooted`), on a piece where the elevation only
  rises or only falls, so its root parts what is visible from what is not (`RootParts`), and every
  visible breakpoint lies in a run (`RunThrough`). `PInv` is the conjunction; TLC checked it first.
- `PacketReplayProofs` and `NetworkReplayProofs`: `EvidenceStands` (`EvidenceIsValidated`), for any
  link or route, faults, edits of the directory at any time, and lengths of replays. The invariants
  say which run what was read is of (`Consistent`: an undisturbed source is the run its digest names),
  that from the handshake on the digest is the directory's (`Named`), and that publishing is
  reached only past every check, whose verdict later steps do not change (`VerdictStands`).
- `PacketReplayProofs` also has `TraceIsTheLink` (`TraceHolds`) and `AccountStands` (`AccountAccepted`).
  A row's time is the n-th of the ticks of the breakpoints (`NthIs`: numbering a finite set in its order is
  onto, by counting), so the rows ascend from zero to the window's end (`TraceIs`). A breakpoint's tick
  is at most t exactly if the breakpoint lies less than half a tick after t (`TickIs`), so between a
  row's own breakpoint and that moment there is no other (`RowHolds`) and the link's state is the
  row's. The account needs an invariant of every moment of the simulation. `Clocks`: the time is between
  the row applied and the next, and between two offers. `Queued`: what waits is unsent, once each, and
  the link is up, which is why `Replay::Transmit` never refuses. `Accounted`: each record has the times of
  its status, was sent in a row of the window at that row's rate and delay, and one that is unresolved is
  in the queue or yet to arrive. The stop leaves time for the slowest packet of the furthest row
  (`StopIs`), so nothing flies then (`StopSettles`), and a record that is accounted for and resolved is
  one the parser accepts (`PacketAccepted`). TLC checked these formulas before they were proved.
- `NetworkReplayProofs` also has `GatesStand` (`AcquisitionGates`). The boundaries are the times of a finite
  set in their order (`AscendingIs`), and between two of them the route held stays (`TurnHolds`). The
  invariant of the loop (`Scanned`) says that the snapshots so far are right, one after the other, until
  the next boundary (`Covers`), and that the pair of endpoints it carries has been held since `ready` less
  the delay and not a tick longer (`HeldSince`): a turn with the same endpoints extends that time, and
  one with others, or none, begins it anew (`TurnSince`). From this time alone a tick's state follows
  (`ReadyIs`), whether a turn adds one snapshot or two.

- `NetworkReplayProofs`, `AccountStands` (`AccountAccepted`): for any routes, snapshots, queue and
  rounding, and traffic in both directions, the simulation resolves every packet before it stops, and the
  parser accepts the account. What the parser says
  of a queue it says of times read off the records, and so does the proof. A *visit* is a packet at a device, and
  `Device` is the history of a device as its visits: those sent and those that rested in the queue, with the times of
  admission, of departure and of the end of sending, and the times of drops. `IsDevice` says of a history what an
  honest queue does: one packet at a time, in the order of admission and without delay (`InTurn`),
  nobody waits at an idle device or is overtaken (`Patient`), no more wait than fit (`Roomy`), and a drop finds the
  queue full (`Filled`). `Linked` ties the history to the model's queue and to what is being sent (`InLine`, `Busy`);
  `Traced` says of each hop of a packet that it follows the place before it (`Follows`) and is over, or on its
  way and the last (`Over`, `Way`). The inductive invariant (`Lives`, `Living`) adds the clock and the snapshots (`Clocked`,
  `Tabled`), and there is one lemma for each event of the simulator (`UpdateLives`, `OfferLives`, `CompleteLives`,
  `ArriveLives`, `AdvanceLives`). An event moves a packet or two at a time, so lemmas say what sending,
  queueing, a drop and the loss of a link do to a history (`DeviceSends`, `DeviceQueues`, `DeviceDrops`, `DeviceFlushes`). The stop leaves time for the slowest
  packet over the slowest link of any snapshot (`StopIs`), so nothing flies or waits then (`StopEnds`).
  What the parser reads of the records is then the history (`DeviceRecorded`), and its checks of order, waiting
  and capacity are the parts of `IsDevice` (`RecordsInOrder`, `RecordsWaited`, `RecordsFit`).

Two techniques recur. Induction over naturals is a minimal counterexample: `LeastNatural` instantiates
the library's `WFMin` with the order on naturals, as the induction theorems take an operator as a
parameter. And what a step leaves alone is stated once, as a frame lemma (`Frame`, `WorkerFrame`,
`ServeFrame`), with one lemma per action for what it changes.

Only model-checked:

- the liveness properties (`JobSettles`, `CloseReturns`, `ExportLockReleased`), which need
  ENABLED and fairness;
- `EnvelopeIsBest` and `RoutesHold` of `Timeline`, which add up measures over sorted sequences;
- everything about `Campaign` and `Server`. Documents are trees, and `Scenario` and `Sweep` read
  and patch them by recursion, which is out of the prover's reach with all that uses them.

## Remarks on the code

Found while modelling; the properties say what holds.

- *At most 60 requests are served per second* (`app/server.py:5`, `docs/WORKBENCH.md:47-48`)
  supposes that no thread is held up between reading its clock and taking the rate lock. With a
  delay in between, a stamp older than the window's newest is appended behind it, and more may be
  served within a second. `RateIsHonest` bounds them over a second less the longest delay, and
  states that a refusal is always deserved by the stamps.
- Where an elevation is exactly the mask for more than a microsecond, the sample there is the root, and
  what is visible after it is in no pass. An orbit that moves has no such place; `IsFine` names the
  condition, without which `PassesExact` fails.
- `docs/SWEEPS.md:31-32` says that a sweep may not move the start or stop of the window. The code
  refuses it only where a `window` is set (`sweep.py:576`, `sweep.py:609`); without one runs differ.
- Sweeping `default_minimum_elevation_deg` has no effect on stations: the normalised base, to
  which patches apply, has every station's own mask written out.
- `ReplaySource.provenance` (`replay/source.py:418`) promises an error if the directory changed
  since `from_results` loaded it. The digest it compares is taken at the end of loading
  (`source.py:124`, after `load_results` at `source.py:164`), so files that are replaced, with their
  manifest, while they are being loaded are not noticed. `EvidenceIsValidated` exempts just these
  behaviours (`source.disturbed`).
- `Api.usage_bytes` (`app/api.py:493`) promises the "bytes held by the finished jobs' directories". An
  export that fails midway (`app/api.py:571-580` has no cleanup) leaves `export.zip.partial` in a
  directory that stays accounted at its old size: these bytes count against no limit until the next export
  of the job writes over them or the job is evicted. `UsageIsExact` is therefore about what was published.
- A file that is evicted between being found and being opened ends the connection or answers 500
  where `docs/WORKBENCH.md:40` says 404 (the hazard at `app/api.py:292`).

## What is left

The proof worth having next: `EnvelopeIsBest` in `Timeline`. The model could grow by the summaries' gap and
outage statistics, both directions of `PacketReplay`'s link (independent there), several pairs of stations in
`NetworkReplay`, and the upgrade of version 1 scenarios.

## Not modelled and why

- Orbits, frames, link budgets and propagation: formulas in floating point. The models take their
  results (elevations, levels of Es/N0, delays, rates) as any values of small sets. Rounding is
  modelled where it decides order: instants to the grid's microseconds and the replay's ticks.
- The adaptive quadrature of the Shannon bound and the summary statistics: numerical sums.
- Result formats, figures, KML, reports and the calculators: stateless encodings and formulas.
- The command line: arguments passed on to the parts above.
- Request framing and the timeouts of connections, which are the standard library's; the JSON
  schema, explanations and starter files of scenarios, which are text.
