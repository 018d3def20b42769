------------------------------ MODULE JobBoard ------------------------------
(***************************************************************************)
(* What the app's job queue promises to the threads that use it, with no   *)
(* locks, threads or poison pill: a board of jobs by id, a line of the     *)
(* queued ones, at most one job running, and a close after which no job    *)
(* starts.  JobQueue implements it (JobQueue!BoardSpec).                   *)
(***************************************************************************)
EXTENDS Naturals, Sequences, FiniteSets

CONSTANTS Jobs,        \* the ids clients submit
          MaxPending   \* the most jobs queued or running together

VARIABLES status,  \* status[j]: the state of job j, "absent" before its first submission
          line,    \* the queued jobs, in the order they were accepted
          closed,  \* new jobs are refused and no queued job starts
          quiet    \* a call of close has returned

vars == <<status, line, closed, quiet>>

Running == {j \in Jobs : status[j] = "running"}
Pending == {j \in Jobs : status[j] \in {"queued", "running"}}

Init ==
  /\ status = [j \in Jobs |-> "absent"]
  /\ line = <<>>
  /\ closed = FALSE
  /\ quiet = FALSE

\* A done or pending job is never queued again: its id is its cache key.
Accept(j) ==
  /\ ~closed
  /\ status[j] \in {"absent", "failed", "evicted"}
  /\ Cardinality(Pending) < MaxPending
  /\ status' = [status EXCEPT ![j] = "queued"]
  /\ line' = Append(line, j)
  /\ UNCHANGED <<closed, quiet>>

Start ==
  /\ ~closed
  /\ Running = {}
  /\ line # <<>>
  /\ status' = [status EXCEPT ![Head(line)] = "running"]
  /\ line' = Tail(line)
  /\ UNCHANGED <<closed, quiet>>

Settle(j) ==
  /\ status[j] = "running"
  /\ \E outcome \in {"done", "failed"} : status' = [status EXCEPT ![j] = outcome]
  /\ UNCHANGED <<line, closed, quiet>>

Evict(j) ==
  /\ status[j] = "done"
  /\ status' = [status EXCEPT ![j] = "evicted"]
  /\ UNCHANGED <<line, closed, quiet>>

Close ==
  /\ closed' = TRUE
  /\ UNCHANGED <<status, line, quiet>>

\* close returns only when no job runs any more.
Quiesce ==
  /\ closed
  /\ Running = {}
  /\ quiet' = TRUE
  /\ UNCHANGED <<status, line, closed>>

Next ==
  \/ \E j \in Jobs : Accept(j) \/ Settle(j) \/ Evict(j)
  \/ Start
  \/ Close
  \/ Quiesce

Spec == Init /\ [][Next]_vars
=============================================================================
