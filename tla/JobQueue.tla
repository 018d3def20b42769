------------------------------ MODULE JobQueue ------------------------------
(***************************************************************************)
(* The app's job queue (app/jobs.py): HTTP threads submit and evict jobs,  *)
(* one worker thread runs them in the order they were queued, and closing  *)
(* threads stop it.  An action is one critical section of the queue's lock *)
(* or one step of a thread between two of them.                            *)
(*                                                                         *)
(* A submission of a failed or evicted id makes a fresh _Job object.  The  *)
(* FIFO and the worker hold objects, not ids, so the model names the n-th  *)
(* object of job j <<j, n>>: that the objects they hold are the ones the   *)
(* table knows is something to check, not something assumed.  _closed and  *)
(* _cancel are set in one critical section and read in others, so both are *)
(* the one variable closed.                                                *)
(***************************************************************************)
EXTENDS Naturals, Sequences, FiniteSets

CONSTANTS Jobs,        \* the ids clients submit
          Phases,      \* the phases run_fn reports
          Closers,     \* the threads that call close
          MaxPending,  \* max_pending: the most jobs queued or running together
          MaxObjects,  \* bound: how many objects clients make of one id
          None         \* Python's None

ASSUME JobQueueAssumption ==
  /\ IsFiniteSet(Jobs)
  /\ MaxPending \in Nat \ {0}
  /\ MaxObjects \in Nat
  /\ None \notin Phases
  /\ None \notin Jobs \X Nat

VARIABLES jobs,     \* _jobs: the record of each id's current object
          pending,  \* _pending: the objects to run; None asks the worker to stop
          pc,       \* where the worker stands: "get", "got", "run" or "stopped"
          held,     \* the worker's variable job
          current,  \* _current
          outcome,  \* how run_fn ended, "none" while it runs
          closed,   \* _closed and _cancel
          closing   \* closing[c]: where closing thread c stands

vars == <<jobs, pending, pc, held, current, outcome, closed, closing>>

States == {"absent", "queued", "running", "done", "failed", "evicted"}
Outcomes == {"done", "cancelled", "invalid", "unexpected"}
Objects == Jobs \X (1..MaxObjects)
Records == [state : States, phase : Phases \union {None}, error : (Outcomes \ {"done"}) \union {"none"},
            path : 0..MaxObjects, made : 0..MaxObjects]

\* The object the table holds for id j.  path is the number of the object whose
\* run wrote the result directory, 0 for None: every run makes a fresh directory.
Object(j) == <<j, jobs[j].made>>
Unfinished == {j \in Jobs : jobs[j].state \in {"queued", "running"}}

TypeOK ==
  /\ jobs \in [Jobs -> Records]
  /\ pending \in Seq(Objects \union {None})
  /\ pc \in {"get", "got", "run", "stopped"}
  /\ held \in Objects \union {None}
  /\ current \in Objects \union {None}
  /\ outcome \in Outcomes \union {"none"}
  /\ closed \in BOOLEAN
  /\ closing \in [Closers -> {"idle", "put", "join", "joined", "skipped"}]

Init ==
  /\ jobs = [j \in Jobs |-> [state |-> "absent", phase |-> None, error |-> "none",
                             path |-> 0, made |-> 0]]
  /\ pending = <<>>
  /\ pc = "get"
  /\ held = None
  /\ current = None
  /\ outcome = "none"
  /\ closed = FALSE
  /\ closing = [c \in Closers |-> "idle"]

----------------------------------------------------------------------------
(* HTTP threads.  A submission that the closed queue, a full queue or a    *)
(* cached or pending job answers changes nothing and is no action here.    *)

\* Faults: an id that is running, or done, is queued again.
SubmittableRunning(j) == ~closed /\ jobs[j].state \notin {"queued", "done"}
SubmittableDone(j) == ~closed /\ jobs[j].state \notin {"queued", "running"}

Submittable(j) ==
  /\ ~closed
  /\ jobs[j].state \in {"absent", "failed", "evicted"}
  /\ Cardinality(Unfinished) < MaxPending

\* Fault: the object is not put into the FIFO.
QueueNowhere(j) ==
  /\ jobs[j].made < MaxObjects
  /\ jobs' = [jobs EXCEPT ![j].state = "queued", ![j].made = @ + 1]
  /\ UNCHANGED <<pending, pc, held, current, outcome, closed, closing>>

Queue(j) ==
  /\ jobs[j].made < MaxObjects
  /\ jobs' = [jobs EXCEPT ![j] = [state |-> "queued", phase |-> None, error |-> "none",
                                  path |-> 0, made |-> jobs[j].made + 1]]
  /\ pending' = Append(pending, <<j, jobs[j].made + 1>>)
  /\ UNCHANGED <<pc, held, current, outcome, closed, closing>>

Submit(j) == Submittable(j) /\ Queue(j)

Evict(j) ==
  /\ jobs[j].state = "done"
  /\ jobs' = [jobs EXCEPT ![j].state = "evicted", ![j].path = 0]
  /\ UNCHANGED <<pending, pc, held, current, outcome, closed, closing>>

----------------------------------------------------------------------------
(* The worker thread.                                                      *)

Get ==
  /\ pc = "get"
  /\ pending # <<>>
  /\ held' = Head(pending)
  /\ pending' = Tail(pending)
  /\ pc' = IF Head(pending) = None THEN "stopped" ELSE "got"
  /\ UNCHANGED <<jobs, current, outcome, closed, closing>>

Start ==
  /\ pc = "got"
  /\ pc' = "run"
  /\ jobs' = [jobs EXCEPT ![held[1]].state = "running", ![held[1]].phase = None,
                          ![held[1]].error = "none"]
  /\ current' = held
  /\ outcome' = "none"
  /\ UNCHANGED <<pending, held, closed, closing>>

\* The queue was closed since Get: the worker stops and its job stays queued.
Abandon ==
  /\ pc = "got"
  /\ pc' = "stopped"
  /\ UNCHANGED <<jobs, pending, held, current, outcome, closed, closing>>

Begin == IF closed THEN Abandon ELSE Start

\* run_fn reports a phase; once the queue is closed it is told to stop instead.
Report(p) ==
  /\ pc = "run"
  /\ outcome = "none"
  /\ current # None
  /\ IF closed
     THEN outcome' = "cancelled" /\ UNCHANGED jobs
     ELSE jobs' = [jobs EXCEPT ![current[1]].phase = p] /\ UNCHANGED outcome
  /\ UNCHANGED <<pending, pc, held, current, closed, closing>>

\* run_fn returns a directory ("done"), or raises a ValueError ("invalid") or another exception.
Return(o) ==
  /\ pc = "run"
  /\ outcome = "none"
  /\ outcome' = o
  /\ UNCHANGED <<jobs, pending, pc, held, current, closed, closing>>

\* Fault: the outcome is the error of a done job too.
SettledWithError(job, object) ==
  [job EXCEPT !.state = IF outcome = "done" THEN "done" ELSE "failed", !.error = outcome,
              !.path = IF outcome = "done" THEN object[2] ELSE 0]

Settled(job, object) ==
  IF outcome = "done"
  THEN [job EXCEPT !.state = "done", !.error = "none", !.path = object[2]]
  ELSE [job EXCEPT !.state = "failed", !.error = outcome, !.path = 0]

Finish ==
  /\ pc = "run"
  /\ outcome # "none"
  /\ jobs' = [jobs EXCEPT ![held[1]] = Settled(@, held)]
  /\ current' = None
  /\ pc' = "get"
  /\ held' = None
  /\ outcome' = "none"
  /\ UNCHANGED <<pending, closed, closing>>

----------------------------------------------------------------------------
(* Closing threads: only the first puts the poison pill and waits.         *)

Close(c) ==
  /\ closing[c] = "idle"
  /\ closing' = [closing EXCEPT ![c] = IF closed THEN "skipped" ELSE "put"]
  /\ closed' = TRUE
  /\ UNCHANGED <<jobs, pending, pc, held, current, outcome>>

\* Fault: no pill, although the worker may be waiting for a job.
PutNothing(c) ==
  /\ closing[c] = "put"
  /\ closing' = [closing EXCEPT ![c] = "join"]
  /\ UNCHANGED <<jobs, pending, pc, held, current, outcome, closed>>

PutNone(c) ==
  /\ closing[c] = "put"
  /\ pending' = Append(pending, None)
  /\ closing' = [closing EXCEPT ![c] = "join"]
  /\ UNCHANGED <<jobs, pc, held, current, outcome, closed>>

\* Fault: close returns while the worker finishes.
JoinNot(c) ==
  /\ closing[c] = "join"
  /\ closing' = [closing EXCEPT ![c] = "joined"]
  /\ UNCHANGED <<jobs, pending, pc, held, current, outcome, closed>>

Join(c) ==
  /\ closing[c] = "join"
  /\ pc = "stopped"
  /\ closing' = [closing EXCEPT ![c] = "joined"]
  /\ UNCHANGED <<jobs, pending, pc, held, current, outcome, closed>>

----------------------------------------------------------------------------
Next ==
  \/ \E j \in Jobs : Submit(j) \/ Evict(j)
  \/ Get
  \/ Begin
  \/ Finish
  \/ \E p \in Phases : Report(p)
  \/ \E o \in Outcomes \ {"cancelled"} : Return(o)
  \/ \E c \in Closers : Close(c) \/ PutNone(c) \/ Join(c)

Spec == Init /\ [][Next]_vars

\* A thread that can take its next step takes it: the worker and the closing
\* threads are never suspended for ever, and run_fn ends.  Nothing obliges a
\* client to submit, to evict or to close.
Fairness ==
  /\ WF_vars(Get) /\ WF_vars(Begin) /\ WF_vars(Finish)
  /\ WF_vars(\E o \in Outcomes \ {"cancelled"} : Return(o))
  /\ \A c \in Closers : WF_vars(PutNone(c)) /\ WF_vars(Join(c))

FairSpec == Spec /\ Fairness

----------------------------------------------------------------------------
(* Properties.                                                             *)

\* The object the worker has taken and not begun, and the objects in the FIFO.
Taken == IF pc \in {"got", "stopped"} THEN held ELSE None
Lined(o) == \E i \in DOMAIN pending : pending[i] = o

\* No accepted job is lost and none is run twice: the objects taken or lined up
\* are the table's own objects of the queued ids, each once, and the worker runs
\* exactly the running id's object.  A stale object in the FIFO would run a
\* superseded job and write its outcome where nobody looks (submit against _work).
NoJobLost ==
  /\ \A j \in Jobs : jobs[j].state = "queued" <=> Taken = Object(j) \/ Lined(Object(j))
  /\ \A o \in Objects : Taken = o \/ Lined(o) => o = Object(o[1])
  /\ \A i, k \in DOMAIN pending : pending[i] = pending[k] /\ pending[i] # None => i = k
  /\ Taken # None => ~Lined(Taken)
  /\ \A j \in Jobs : jobs[j].state = "running" <=> pc = "run" /\ held = Object(j)
  /\ pc = "run" => \E j \in Jobs : held = Object(j)
  /\ current = IF pc = "run" THEN held ELSE None

\* A result stays until it is evicted: whatever is submitted, run or closed in
\* the meantime, a done job keeps its state, its directory and its object.
ResultKept ==
  [][\A j \in Jobs : jobs[j].state = "done" =>
       jobs'[j] = jobs[j] \/ jobs'[j] = [jobs[j] EXCEPT !.state = "evicted", !.path = 0]]_vars

\* When the call of close that waited returns, the worker is gone for good: no
\* job is running and none starts again, so nothing writes results any more.
CloseIsFinal ==
  (\E c \in Closers : closing[c] = "joined") =>
    /\ pc = "stopped"
    /\ \A j \in Jobs : jobs[j].state # "running"

\* A queue that accepted a job runs it to an end unless it is closed first.
JobSettles ==
  \A j \in Jobs : jobs[j].state = "queued" ~> jobs[j].state \in {"done", "failed"} \/ closed

\* Every call of close returns, whatever the worker is doing when it is made.
CloseReturns ==
  \A c \in Closers : closing[c] # "idle" ~> closing[c] \in {"joined", "skipped"}

\* The waiting objects, in the order they will be begun: the pill is put after the last of them.
Queued == IF pending # <<>> /\ pending[Len(pending)] = None THEN SubSeq(pending, 1, Len(pending) - 1) ELSE pending
Waiting == IF Taken = None THEN Queued ELSE <<Taken>> \o Queued

\* The queue keeps the promises of JobBoard: the FIFO with the object the worker
\* has taken and not begun is the board's line.
Board == INSTANCE JobBoard WITH
  status <- [j \in Jobs |-> jobs[j].state],
  line <- [i \in DOMAIN Waiting |-> Waiting[i][1]],
  quiet <- \E c \in Closers : closing[c] = "joined"
BoardSpec == Board!Spec
=============================================================================
