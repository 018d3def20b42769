-------------------------------- MODULE Server --------------------------------
(***************************************************************************)
(* The app's HTTP server (app/server.py) and the handlers of its API       *)
(* (app/api.py): one thread per connection checks the headers, reads the   *)
(* clock, is admitted under the rate lock, is routed, reads its body and   *)
(* asks the job queue or serves a file of a finished job.  Requests carry  *)
(* what the handlers look at; a document or a specification in a body is   *)
(* the value the sweep modules read.  The queue and the disk are what      *)
(* JobQueue and ResultStore say of them, seen from the handlers.           *)
(***************************************************************************)
EXTENDS Sweep

CONSTANTS Handlers,    \* threads
          Second,      \* ticks of the clock in a second
          Stall,       \* the most ticks a thread waits between the clock and the rate lock
          RateLimit,   \* RATE_LIMIT_PER_S
          MaxPending,  \* the job queue's max_pending
          Startup,     \* the scenario the server was started with
          Setups       \* [requests, threads, most, ticks]: what clients send, on how many
               \* connections, how often it is served, and for how long

ASSUME ServerAssumption == Stall \in 0..(Second - 1) /\ RateLimit > 0 /\ MaxPending > 0

VARIABLES setup, clock,
          recent,    \* _recent: the stamps of the requests served
          handler,   \* per thread, where it stands and its local variables
          jobs,      \* per id, the state of its job
          files,     \* the ids whose results are on disk
          served,    \* history: the times at which requests were admitted
          refused,   \* history: the last refusal, [stamp, served]
          sent       \* history: the requests that were admitted

vars == <<setup, clock, recent, handler, jobs, files, served, refused, sent>>

Absent == [absent |-> TRUE]
NoStamp == -1
Quiet == [at |-> "idle", request |-> Absent, now |-> NoStamp, id |-> Absent, status |-> 0]

Init ==
  /\ setup \in Setups
  /\ clock = 0 /\ recent = <<>> /\ handler = [h \in Handlers |-> Quiet]
  /\ jobs = <<>> /\ files = {} /\ served = <<>> /\ sent = {}
  /\ refused = [stamp |-> NoStamp, served |-> <<>>]

At_(h, place) == handler[h].at = place
request(h) == handler[h].request
Goto(h, place) == handler' = [handler EXCEPT ![h].at = place]
Answer(h, status) == handler' = [handler EXCEPT ![h].at = "reply", ![h].status = status]

\* Time passes; no thread is held up longer than Stall between its clock and the lock.
Tick ==
  /\ clock < setup.ticks
  /\ \A h \in Handlers : At_(h, "admit") => clock - handler[h].now < Stall
  /\ clock' = clock + 1
  /\ UNCHANGED <<setup, recent, handler, jobs, files, served, refused, sent>>

-----------------------------------------------------------------------------
(* parse_request.                                                          *)

FromHere(r) == r.host = "own" /\ r.origin \in {"none", "own"}

Arrive(h, r) ==
  /\ h \in setup.threads /\ At_(h, "idle") /\ Len(served) < setup.most
  /\ handler' = [handler EXCEPT ![h] =
       IF FromHere(r) THEN [Quiet EXCEPT !.at = "admit", !.request = r, !.now = clock]
       ELSE [Quiet EXCEPT !.at = "reply", !.request = r, !.status = 403]]
  /\ UNCHANGED <<setup, clock, recent, jobs, files, served, refused, sent>>

\* Fault: a stamp is kept that is exactly a second old.
FreshAfterSecond(now) ==
  LET old == {i \in DOMAIN recent : \A j \in 1..i : now - recent[j] > Second}
  IN SubSeq(recent, Cardinality(old) + 1, Len(recent))
\* The oldest stamps are dropped as long as they are a second old.
Fresh(now) ==
  LET old == {i \in DOMAIN recent : \A j \in 1..i : now - recent[j] >= Second}
  IN SubSeq(recent, Cardinality(old) + 1, Len(recent))

Admit(h) ==
  /\ At_(h, "admit")
  /\ LET now == handler[h].now
         fresh == Fresh(now)
     IN \/ /\ Len(fresh) < RateLimit
           /\ recent' = Append(fresh, now) /\ served' = Append(served, clock)
           /\ sent' = sent \union {request(h)}
           /\ Goto(h, "dispatch") /\ UNCHANGED refused
        \/ /\ Len(fresh) >= RateLimit
           /\ recent' = fresh /\ refused' = [stamp |-> now, served |-> served]
           /\ Answer(h, 429) /\ UNCHANGED <<served, sent>>
  /\ UNCHANGED <<setup, clock, jobs, files>>

-----------------------------------------------------------------------------
(* _dispatch and _read_json: the first check that fails gives the status.  *)

JobPaths == {"status", "results", "table", "sweep run"}
Methods(path) == IF path \in {"validate", "runs", "sweeps"} THEN {"POST"} ELSE {"GET"}
Routed(path) == path \in JobPaths \union {"index", "scenario", "validate", "runs", "sweeps"}
NeedsToken(path) == path # "index"

BodyStatus(r) ==
  CASE r.type # "json" -> 415
    [] r.encoding = "chunked" -> 400
    [] r.length = "none" -> 411
    [] r.length = "invalid" -> 400
    [] r.length = "too long" -> 413
    [] r.length = "longer than sent" -> 408
    [] r.length = "cut off" -> 400
    [] r.body = Failed -> 400
    [] OTHER -> 200

RequestStatus(r) ==
  CASE ~Routed(r.path) -> 404
    [] r.method \notin Methods(r.path) -> 405
    [] NeedsToken(r.path) /\ r.token # "own" -> 403
    [] r.method = "POST" -> BodyStatus(r)
    [] OTHER -> 200

-----------------------------------------------------------------------------
(* The POST handlers.                                                      *)

Pinned(doc) == At(doc, <<"space_segment">>) = At(Parsed(Startup), <<"space_segment">>)
Base(r) == IF Is("members", r.body) /\ "scenario" \in DOMAIN r.body.members
           THEN r.body.members.scenario ELSE Startup

\* _submitted: parsed, normalised, and with the catalogs of the server's own scenario.
ScenarioStatus(doc) == CASE doc = Failed -> 400 [] doc # Failed /\ ~Pinned(doc) -> 403 [] OTHER -> 200
SubmittedStatus(raw) == ScenarioStatus(Parsed(raw))

PinnedRuns(runs) == \A i \in DOMAIN runs : Pinned(runs[i].document)

\* _spec: the base is the server's own, whatever is sent.
SpecOf(raw) == IF Is("members", raw) THEN ParsedSweep(Object(("base_scenario" :> Text("own")) @@ raw.members)) ELSE Failed

SweepStatus(r) ==
  LET raw  == r.body.members.spec
      spec == SpecOf(raw)
      base == Parsed(Base(r))
  IN CASE SubmittedStatus(Base(r)) # 200 -> SubmittedStatus(Base(r))
       [] Is("members", raw) /\ "base_scenario" \in DOMAIN raw.members -> 400
       [] spec = Failed -> 400
       [] Touches(SweepOf(spec), <<"space_segment">>) -> 403
       [] ~IsExpandable(SweepOf(spec), base) -> 400
       [] ~PinnedRuns(ExpandedRuns(SweepOf(spec), base)) -> 403
       [] OTHER -> 200

PostStatus(r) ==
  CASE r.path = "sweeps" /\ HasKeys(r.body, {"spec"}, {"scenario"}) -> SweepStatus(r)
    [] r.path = "runs" /\ HasKeys(r.body, {"scenario"}, {}) -> SubmittedStatus(Base(r))
       \* An invalid scenario is an answer, not an error.
    [] r.path = "validate" /\ HasKeys(r.body, {"scenario"}, {}) ->
         IF SubmittedStatus(Base(r)) = 400 THEN 200 ELSE SubmittedStatus(Base(r))
    [] OTHER -> 400

\* Fault: the keys that hold null stay.
PayloadWithNulls(spec) == Object([k \in (DOMAIN spec.members) \ {"base_scenario"} |-> spec.members[k]])
\* What is submitted of a parsed specification is a document again: without what was absent, and
\* without its base.
Payload(spec) ==
  LET kept == {k \in (DOMAIN spec.members) \ {"base_scenario"} : spec.members[k] # Null}
  IN Object([k \in kept |-> spec.members[k]])

\* The kind and the payload, which the id is the hash of.
JobId(r) ==
  IF r.path = "runs" THEN [kind |-> "run", scenario |-> Parsed(Base(r))]
  ELSE [kind |-> "sweep", scenario |-> Parsed(Base(r)), spec |-> Payload(SpecOf(r.body.members.spec))]

Handled(h, r, status) ==
  CASE status # 200 -> Answer(h, status)
    [] status = 200 /\ r.path \in {"runs", "sweeps"} ->
         handler' = [handler EXCEPT ![h].at = "submit", ![h].id = JobId(r)]
    [] status = 200 /\ r.path \in JobPaths -> Goto(h, "find")
    [] OTHER -> Answer(h, 200)

Dispatch(h) ==
  /\ At_(h, "dispatch")
  /\ LET r == request(h)
     IN Handled(h, r, IF RequestStatus(r) = 200 /\ r.method = "POST" THEN PostStatus(r) ELSE RequestStatus(r))
  /\ UNCHANGED <<setup, clock, recent, jobs, files, served, refused, sent>>

Waiting == {id \in DOMAIN jobs : jobs[id] \in {"queued", "running"}}

Submit(h) ==
  /\ At_(h, "submit")
  /\ LET id == handler[h].id
         known == id \in DOMAIN jobs /\ jobs[id] \notin {"failed", "evicted"}
     IN \/ known /\ Answer(h, 202) /\ UNCHANGED jobs
        \/ ~known /\ Cardinality(Waiting) >= MaxPending /\ Answer(h, 503) /\ UNCHANGED jobs
        \/ ~known /\ Cardinality(Waiting) < MaxPending /\ Answer(h, 202) /\ jobs' = (id :> "queued") @@ jobs
  /\ UNCHANGED <<setup, clock, recent, files, served, refused, sent>>

-----------------------------------------------------------------------------
(* The GET handlers of a job: clients name any id that was given out.      *)

KindOf(r) == IF r.path = "sweep run" THEN "sweep" ELSE r.kind

\* _get_status, and _finished up to the queue's result.
Find(h) ==
  /\ At_(h, "find")
  /\ \/ Answer(h, 404)    \* an unknown id
     \/ \E id \in DOMAIN jobs :
          \/ id.kind # KindOf(request(h)) /\ Answer(h, 404)
          \/ /\ id.kind = KindOf(request(h)) /\ request(h).path = "status"
             /\ Answer(h, IF jobs[id] = "evicted" THEN 404 ELSE 200)
          \/ /\ id.kind = KindOf(request(h)) /\ request(h).path # "status"
             /\ handler' = [handler EXCEPT ![h].at = IF jobs[id] = "done" THEN "locate" ELSE "why",
                                           ![h].id = id]
  /\ UNCHANGED <<setup, clock, recent, jobs, files, served, refused, sent>>

\* The state is read again, later, to say why there is no result.
Explain(h) ==
  /\ At_(h, "why")
  /\ Answer(h, IF jobs[handler[h].id] = "evicted" THEN 404 ELSE 409)
  /\ UNCHANGED <<setup, clock, recent, jobs, files, served, refused, sent>>

\* A run of a sweep is looked up in sweep.json, which must still be there; an index or a table
\* that does not exist is unknown; and what was found must be a file.
Locate(h) ==
  /\ At_(h, "locate")
  /\ LET there == handler[h].id \in files
     IN \/ ~there /\ Answer(h, IF request(h).path = "sweep run" THEN 500 ELSE 404)
        \/ there /\ request(h).path # "results" /\ Answer(h, 404)
        \/ there /\ handler' = [handler EXCEPT ![h].at = "send", ![h].status = 200]
  /\ UNCHANGED <<setup, clock, recent, jobs, files, served, refused, sent>>

\* _reply asks for the file's size and opens it: a file evicted by now ends the connection.
Reply(h) ==
  /\ At_(h, "reply") \/ At_(h, "send")
  /\ handler' = [handler EXCEPT ![h] = Quiet]
  /\ UNCHANGED <<setup, clock, recent, jobs, files, served, refused, sent>>

-----------------------------------------------------------------------------
(* The worker thread and the store, as JobQueue and ResultStore have them. *)

StartJob ==
  /\ ~\E id \in DOMAIN jobs : jobs[id] = "running"
  /\ \E id \in DOMAIN jobs : jobs[id] = "queued" /\ jobs' = [jobs EXCEPT ![id] = "running"]
  /\ UNCHANGED <<setup, clock, recent, handler, files, served, refused, sent>>

\* _execute_sweep: the payload is parsed, expanded and checked as a body is.
IsSweepExecutable(base, spec) ==
  /\ Pinned(Parsed(base)) /\ spec # Failed
  /\ ~Touches(SweepOf(spec), <<"space_segment">>)
  /\ IsExpandable(SweepOf(spec), base)
  /\ PinnedRuns(ExpandedRuns(SweepOf(spec), base))
IsExecutable(id) ==
  /\ Parsed(id.scenario) # Failed
  /\ id.kind = "sweep" => IsSweepExecutable(id.scenario, SpecOf(id.spec))

EndJob ==
  /\ \E id \in DOMAIN jobs :
       /\ jobs[id] = "running"
       /\ \/ /\ IsExecutable(id)
             /\ jobs' = [jobs EXCEPT ![id] = "done"] /\ files' = files \union {id}
          \/ jobs' = [jobs EXCEPT ![id] = "failed"] /\ UNCHANGED files
  /\ UNCHANGED <<setup, clock, recent, handler, served, refused, sent>>

EvictJob ==
  /\ \E id \in DOMAIN jobs : jobs[id] = "done" /\ jobs' = [jobs EXCEPT ![id] = "evicted"]
  /\ UNCHANGED <<setup, clock, recent, handler, files, served, refused, sent>>

Unlink ==
  /\ \E id \in files : jobs[id] # "done" /\ files' = files \ {id}
  /\ UNCHANGED <<setup, clock, recent, handler, jobs, served, refused, sent>>

Next ==
  \/ Tick
  \/ \E h \in Handlers :
       \/ \E r \in setup.requests : Arrive(h, r)
       \/ Admit(h) \/ Dispatch(h) \/ Submit(h) \/ Find(h) \/ Explain(h) \/ Locate(h) \/ Reply(h)
  \/ StartJob \/ EndJob \/ EvictJob \/ Unlink

Spec == Init /\ [][Next]_vars

-----------------------------------------------------------------------------
(* Properties.                                                             *)

\* Threads are held up between their clock and the lock, so stamps enter the window out of order.
\* All the same, a request is refused only when RateLimit requests were served less than a second
\* before its stamp, and never more than RateLimit are served within a second less the delay.
RateIsHonest ==
  /\ refused.stamp # NoStamp =>
       Cardinality({i \in DOMAIN refused.served : refused.served[i] > refused.stamp - Second}) >= RateLimit
  /\ \A i \in DOMAIN served :
       Cardinality({j \in i..Len(served) : served[j] - served[i] < Second - Stall}) <= RateLimit

\* Whatever is sent, a job is queued only because an admitted request of this application's own
\* page asked for it.  Its document is a normal form with the server's catalogs.  The worker, which
\* parses again what is left of a specification once it was parsed and stripped, finds nothing to
\* refuse, and expands the very sweep the request asked for, each run with the server's catalogs.
JobsAreVetted ==
  \A id \in {i \in DOMAIN jobs : jobs[i] = "queued"} :
    /\ IsExecutable(id)
    /\ Parsed(id.scenario) = id.scenario /\ Pinned(id.scenario)
    /\ \E r \in sent :
         /\ FromHere(r) /\ r.token = "own" /\ r.method = "POST" /\ r.type = "json"
         /\ r.path = id.kind \o "s" /\ Parsed(Base(r)) = id.scenario
         /\ id.kind = "sweep" => SpecOf(id.spec) = SpecOf(r.body.members.spec)
=============================================================================
