---------------------------- MODULE ResultStore ----------------------------
(***************************************************************************)
(* The results of the app's jobs on disk (app/api.py), composed with the   *)
(* job queue: the worker builds and accounts a job's directory, handler    *)
(* threads serve its files and build its export archive, and whoever       *)
(* accounts a directory evicts the least recently used ones to stay within *)
(* the session limit.  The queue's lock, the usage lock and the export     *)
(* lock are three; an action is one critical section or one file           *)
(* operation of a thread.                                                  *)
(*                                                                         *)
(* Every run of a job makes a fresh directory, named like the object that  *)
(* is run.  A directory is the set of what it holds: "dir" itself, the     *)
(* published "result", the "partial" archive, and the archive, "zip" if it *)
(* holds the result and "hollow" if the result was gone when the builder   *)
(* listed it.  shutil.rmtree(ignore_errors=True) unlinks what it lists and *)
(* then removes the directory unless something was created in between.     *)
(***************************************************************************)
EXTENDS JobQueue

CONSTANTS Handlers,    \* the HTTP threads that serve files
          Worker,      \* the worker thread, where it stands in run_fn
          ResultSize,  \* ResultSize[j]: the bytes of job j's result
          ExportSize,  \* ExportSize[j]: the bytes of its archive
          Setups       \* create_server's limits, and what is asked of the server:
                       \* "export" archives, "close" it

ASSUME ResultStoreAssumption ==
  /\ Worker \notin Handlers
  /\ None \notin Handlers
  /\ ResultSize \in [Jobs -> Nat]
  /\ ExportSize \in [Jobs -> Nat]
  /\ Setups \subseteq [artifact : Nat, session : Nat, asked : SUBSET {"export", "close"}]
  /\ \A s \in Setups : s.artifact <= s.session

VARIABLES setup,       \* the server's arguments
          disk,        \* disk[d]: what directory d holds, {} when it does not exist
          usage,       \* _usage: the accounted directories, least recently used first
          local,       \* local[t]: where thread t stands and its local variables
          exportLock,  \* the thread that holds _export_lock, or None
          root         \* the results directory: "up", "unlinked" or "removed" by close

storeVars == <<setup, disk, usage, local, exportLock, root>>
allVars == <<vars, storeVars>>

Threads == Handlers \union {Worker}
Archives == {"zip", "hollow"}

Idle == [at |-> "idle", dir |-> None, file |-> "result", whole |-> FALSE,
         size |-> 0, victims |-> <<>>]

StoreInit ==
  /\ Init
  /\ setup \in Setups
  /\ disk = [d \in Objects |-> {}]
  /\ usage = <<>>
  /\ local = [t \in Threads |-> Idle]
  /\ exportLock = None
  /\ root = "up"

At(t, place) == local[t].at = place
Goto(t, place) == local' = [local EXCEPT ![t].at = place]
Put(dir, files) == disk' = [disk EXCEPT ![dir] = files]

Bytes(dir) ==
  LET job == dir[1]
  IN (IF "result" \in disk[dir] THEN ResultSize[job] ELSE 0)
     + (IF "partial" \in disk[dir] \/ "zip" \in disk[dir] THEN ExportSize[job] ELSE 0)

\* The bytes of what a job has published in directory dir: its result and its archive.
Published(dir) ==
  LET job == dir[1]
  IN (IF "result" \in disk[dir] THEN ResultSize[job] ELSE 0)
     + (IF "zip" \in disk[dir] THEN ExportSize[job] ELSE 0)

Total(entries) ==
  LET sum[i \in 0..Len(entries)] == IF i = 0 THEN 0 ELSE sum[i - 1] + entries[i].size
  IN sum[Len(entries)]

----------------------------------------------------------------------------
(* _record, by the worker or by the handler that built an archive.         *)

\* _usage is a dict by job id, in the order of its entries' last use.
Accounts(job) == \E i \in DOMAIN usage : usage[i].dir[1] = job
Place(job) == CHOOSE i \in DOMAIN usage : usage[i].dir[1] = job

\* The entries but the i-th.
Without(entries, i) ==
  [k \in 1..(Len(entries) - 1) |-> IF k < i THEN entries[k] ELSE entries[k + 1]]

\* Fault: the job's previous entry stays.
RecordedTwice(entry) == Append(usage, entry)

Recorded(entry) ==
  LET job == entry.dir[1]
  IN Append(IF Accounts(job) THEN Without(usage, Place(job)) ELSE usage, entry)

\* Fault: nothing is evicted.
NoExcess(entries) == 0

\* How many of the least recently used entries make way, never the last one.
Excess(entries) ==
  CHOOSE k \in 0..(Len(entries) - 1) :
    /\ k = Len(entries) - 1 \/ Total(SubSeq(entries, k + 1, Len(entries))) <= setup.session
    /\ \A i \in 0..(k - 1) : ~(Total(SubSeq(entries, i + 1, Len(entries))) <= setup.session)

After(t) == IF t = Worker THEN "return" ELSE "unlock"

Record(t) ==
  /\ At(t, "record")
  /\ LET entries == Recorded([dir |-> local[t].dir, size |-> local[t].size])
         excess == Excess(entries)
     IN /\ usage' = SubSeq(entries, excess + 1, Len(entries))
        /\ local' = [local EXCEPT
             ![t].at = IF excess = 0 THEN After(t) ELSE "evict",
             ![t].victims = [i \in 1..excess |-> entries[i].dir]]
  /\ UNCHANGED <<vars, setup, disk, exportLock, root>>

\* Fault: the files are removed and the job stays done.
EvictNobody(t) ==
  /\ At(t, "evict")
  /\ Goto(t, "unlink")
  /\ UNCHANGED <<vars, setup, disk, usage, exportLock, root>>

\* jobs.evict(other): by id, and nothing happens unless that id is done.
EvictVictim(t) ==
  /\ At(t, "evict")
  /\ LET job == Head(local[t].victims)[1]
     IN Evict(job) \/ (jobs[job].state # "done" /\ UNCHANGED vars)
  /\ Goto(t, "unlink")
  /\ UNCHANGED <<setup, disk, usage, exportLock, root>>

UnlinkVictim(t) ==
  /\ At(t, "unlink")
  /\ LET victim == Head(local[t].victims) IN Put(victim, disk[victim] \intersect {"dir"})
  /\ Goto(t, "rmdir")
  /\ UNCHANGED <<vars, setup, usage, exportLock, root>>

RmdirVictim(t) ==
  /\ At(t, "rmdir")
  /\ LET victim == Head(local[t].victims)
     IN Put(victim, IF disk[victim] = {"dir"} THEN {} ELSE disk[victim])
  /\ local' = [local EXCEPT
       ![t].victims = Tail(@),
       ![t].at = IF Len(local[t].victims) = 1 THEN After(t) ELSE "evict"]
  /\ UNCHANGED <<vars, setup, usage, exportLock, root>>

----------------------------------------------------------------------------
(* The worker in run_fn: _execute.                                         *)

MakeDirectory ==
  /\ pc = "run"
  /\ At(Worker, "idle")
  /\ local' = [local EXCEPT ![Worker] = [Idle EXCEPT !.at = "run", !.dir = held]]
  /\ Put(held, {"dir"})
  /\ UNCHANGED <<vars, setup, usage, exportLock, root>>

ReportPhase(p) ==
  /\ At(Worker, "run")
  /\ Report(p)
  /\ Goto(Worker, IF closed THEN "clean" ELSE "run")
  /\ UNCHANGED <<setup, disk, usage, exportLock, root>>

\* save_run or the sweep publishes the result directory.
Publish ==
  /\ At(Worker, "run")
  /\ Put(local[Worker].dir, {"dir", "result"})
  /\ Goto(Worker, "size")
  /\ UNCHANGED <<vars, setup, usage, exportLock, root>>

\* The engine, a replay or the file system fails before or after the result is published.
Raise(o) ==
  /\ At(Worker, "run") \/ At(Worker, "size")
  /\ Return(o)
  /\ Goto(Worker, "clean")
  /\ UNCHANGED <<setup, disk, usage, exportLock, root>>

CheckSize ==
  /\ At(Worker, "size")
  /\ LET size == Bytes(local[Worker].dir)
     IN IF size > setup.artifact
        THEN Return("invalid") /\ Goto(Worker, "clean")
        ELSE /\ local' = [local EXCEPT ![Worker].at = "record", ![Worker].size = size]
             /\ UNCHANGED vars
  /\ UNCHANGED <<setup, disk, usage, exportLock, root>>

\* Fault: a failed run's directory stays.
CleanNothing ==
  /\ At(Worker, "clean")
  /\ Goto(Worker, "end")
  /\ UNCHANGED <<vars, setup, disk, usage, exportLock, root>>

\* Nobody knows a failed job's directory but the worker, so rmtree is one step.
Clean ==
  /\ At(Worker, "clean")
  /\ Put(local[Worker].dir, {})
  /\ Goto(Worker, "end")
  /\ UNCHANGED <<vars, setup, usage, exportLock, root>>

ReturnResult ==
  /\ At(Worker, "return")
  /\ Return("done")
  /\ Goto(Worker, "end")
  /\ UNCHANGED <<setup, disk, usage, exportLock, root>>

FinishJob ==
  /\ At(Worker, "end")
  /\ Finish
  /\ local' = [local EXCEPT ![Worker] = Idle]
  /\ UNCHANGED <<setup, disk, usage, exportLock, root>>

----------------------------------------------------------------------------
(* A handler thread: _artifact, and _export within it.                     *)

\* _finished: the directory of a done job.  Any other answer changes nothing.
Ask(h, j, file) ==
  /\ At(h, "idle")
  /\ jobs[j].state = "done"
  /\ file = "zip" => "export" \in setup.asked
  /\ local' = [local EXCEPT ![h] = [Idle EXCEPT
       !.at = IF file = "zip" THEN "lock" ELSE "check",
       !.dir = <<j, jobs[j].path>>, !.file = file]]
  /\ UNCHANGED <<vars, setup, disk, usage, exportLock, root>>

\* An archive that exists is served as it is; otherwise the result is listed.
LockExport(h) ==
  /\ At(h, "lock")
  /\ exportLock = None
  /\ exportLock' = h
  /\ LET found == disk[local[h].dir]
     IN local' = [local EXCEPT ![h].at = IF found \intersect Archives # {} THEN "unlock" ELSE "create",
                               ![h].whole = "result" \in found]
  /\ UNCHANGED disk

\* Fault: the lock is not released on an exception.
AbortLocked(h) == local' = [local EXCEPT ![h] = Idle] /\ UNCHANGED exportLock

\* An exception leaves the with block, and the request ends.
Abort(h) == local' = [local EXCEPT ![h] = Idle] /\ exportLock' = None

CreatePartial(h) ==
  /\ At(h, "create")
  /\ LET dir == local[h].dir
     IN IF "dir" \in disk[dir]
        THEN Put(dir, disk[dir] \union {"partial"}) /\ Goto(h, "copy") /\ UNCHANGED exportLock
        ELSE Abort(h) /\ UNCHANGED disk

\* Every file listed is opened and copied: each must still be there.
CopyResult(h) ==
  /\ At(h, "copy")
  /\ IF local[h].whole => "result" \in disk[local[h].dir]
     THEN Goto(h, "replace") /\ UNCHANGED exportLock
     ELSE Abort(h)
  /\ UNCHANGED disk

\* Past the artifact limit the partial archive is unlinked (507); otherwise it
\* becomes the archive, if the directory's removal has left it there.
ReplaceArchive(h) ==
  /\ At(h, "replace")
  /\ LET dir == local[h].dir
         others == disk[dir] \ {"partial"}
         archive == IF local[h].whole THEN "zip" ELSE "hollow"
         fits == Bytes(dir) <= setup.artifact
     IN IF fits /\ "partial" \in disk[dir]
        THEN /\ Put(dir, others \union {archive})
             /\ local' = [local EXCEPT ![h].at = "record", ![h].size = Bytes(dir)]
             /\ UNCHANGED exportLock
        ELSE Put(dir, others) /\ Abort(h)

UnlockExport(h) ==
  /\ At(h, "unlock")
  /\ exportLock' = None
  /\ Goto(h, "check")
  /\ UNCHANGED disk

\* The listing, the copy, the sum of the bytes, the unlinking or the replacement raises
\* OSError (a full disk): the partial archive stays as far as it was written, and the next
\* export of the job writes it anew.
FailExport(h) ==
  /\ local[h].at \in {"create", "copy", "replace"}
  /\ Abort(h)
  /\ UNCHANGED disk

ExportStep(h) ==
  /\ \/ LockExport(h)
     \/ CreatePartial(h)
     \/ CopyResult(h)
     \/ ReplaceArchive(h)
     \/ FailExport(h)
     \/ UnlockExport(h)
  /\ UNCHANGED <<vars, setup, usage, root>>

\* The file may have been evicted since _finished: 404.
CheckFile(h) ==
  /\ At(h, "check")
  /\ LET wanted == IF local[h].file = "zip" THEN Archives ELSE {"result"}
         found == disk[local[h].dir] \intersect wanted # {}
     IN local' = [local EXCEPT ![h] = IF found THEN [@ EXCEPT !.at = "touch"] ELSE Idle]
  /\ UNCHANGED <<vars, setup, disk, usage, exportLock, root>>

\* _touch, and the file is sent: the request ends.
Touch(h) ==
  /\ At(h, "touch")
  /\ LET job == local[h].dir[1]
     IN usage' = IF Accounts(job) THEN Append(Without(usage, Place(job)), usage[Place(job)]) ELSE usage
  /\ local' = [local EXCEPT ![h] = Idle]
  /\ UNCHANGED <<vars, setup, disk, exportLock, root>>

----------------------------------------------------------------------------
(* Api.close: the queue's close, then rmtree of the root directory.        *)

\* Fault: the root is removed as soon as the queue refuses jobs.
UnlinkRootEarly ==
  /\ root = "up"
  /\ closed
  /\ root' = "unlinked"
  /\ disk' = [d \in Objects |-> disk[d] \intersect {"dir"}]
  /\ UNCHANGED <<vars, setup, usage, local, exportLock>>

UnlinkRoot ==
  /\ root = "up"
  /\ \E c \in Closers : closing[c] = "joined"
  /\ root' = "unlinked"
  /\ disk' = [d \in Objects |-> disk[d] \intersect {"dir"}]
  /\ UNCHANGED <<vars, setup, usage, local, exportLock>>

RmdirRoot ==
  /\ root = "unlinked"
  /\ root' = "removed"
  /\ disk' = [d \in Objects |-> IF disk[d] = {"dir"} THEN {} ELSE disk[d]]
  /\ UNCHANGED <<vars, setup, usage, local, exportLock>>

----------------------------------------------------------------------------
QueueStep ==
  /\ \/ \E j \in Jobs : Submit(j)
     \/ Get
     \/ Begin
     \/ \E c \in Closers : ("close" \in setup.asked /\ Close(c)) \/ PutNone(c) \/ Join(c)
  /\ UNCHANGED storeVars

ExecuteStep ==
  \/ MakeDirectory
  \/ \E p \in Phases : ReportPhase(p)
  \/ Publish
  \/ \E o \in {"invalid", "unexpected"} : Raise(o)
  \/ CheckSize
  \/ Clean
  \/ ReturnResult
  \/ FinishJob

EvictStep(t) == Record(t) \/ EvictVictim(t) \/ UnlinkVictim(t) \/ RmdirVictim(t)

ServeStep(h) == ExportStep(h) \/ CheckFile(h) \/ Touch(h)

StoreNext ==
  \/ QueueStep
  \/ ExecuteStep
  \/ \E t \in Threads : EvictStep(t)
  \/ \E h \in Handlers, j \in Jobs, file \in {"result", "zip"} : Ask(h, j, file)
  \/ \E h \in Handlers : ServeStep(h)
  \/ UnlinkRoot
  \/ RmdirRoot

StoreSpec == StoreInit /\ [][StoreNext]_allVars

\* Every thread takes the steps it can, run_fn ends, and the export lock goes to
\* some handler that waits for it.
StoreFairness ==
  /\ WF_allVars(Get /\ UNCHANGED storeVars)
  /\ WF_allVars(Begin /\ UNCHANGED storeVars)
  /\ WF_allVars(MakeDirectory)
  /\ WF_allVars(Publish \/ \E o \in {"invalid", "unexpected"} : Raise(o))
  /\ WF_allVars(CheckSize \/ Clean \/ ReturnResult \/ FinishJob \/ EvictStep(Worker))
  /\ \A h \in Handlers : WF_allVars(ServeStep(h) \/ EvictStep(h))

FairStoreSpec == StoreSpec /\ StoreFairness

----------------------------------------------------------------------------
(* Properties.                                                             *)

\* A done job's result is on disk: its id never answers 404 for files that a
\* resubmission, answered from the cache, would not bring back.
DoneHasResult ==
  root = "up" =>
    \A j \in Jobs : jobs[j].state = "done" => "result" \in disk[<<j, jobs[j].path>>]

Victims == UNION {{local[t].victims[i] : i \in DOMAIN local[t].victims} : t \in Threads}
Accounted == {usage[i].dir : i \in DOMAIN usage}

\* Every directory is accounted, about to be removed, or the worker's own: none
\* escapes the session limit.
NoLeak ==
  root = "up" =>
    \A d \in Objects : disk[d] # {} =>
      d \in Accounted \union Victims \union {local[Worker].dir}

\* usage_bytes is the bytes that finished jobs have published: an entry is the directory
\* of a done job, or of the one the worker is about to finish, with the bytes of its
\* result and of its archive, one that is about to be accounted excepted, and no job has
\* two.  An export that fails, at whatever step, leaves the accounting as it was; the
\* partial archive it leaves on disk is not accounted.
UsageIsExact ==
  root = "up" =>
    /\ \A i \in DOMAIN usage :
         LET dir == usage[i].dir
             job == dir[1]
         IN /\ dir = <<job, jobs[job].path>> \/ dir = local[Worker].dir
            /\ \/ usage[i].size = Published(dir)
               \/ exportLock # None /\ At(exportLock, "record") /\ local[exportLock].dir = dir
    /\ \A i, k \in DOMAIN usage : usage[i].dir[1] = usage[k].dir[1] => i = k

\* close removes every result: nothing is left when it returns.
CloseRemovesResults == root = "removed" => \A d \in Objects : disk[d] = {}

\* What is accounted never exceeds the session limit, whoever accounts what.
UsageWithinLimit == Total(usage) <= setup.session

\* The export lock is always released: by a build that ends, fails or is refused.
ExportLockReleased ==
  \A h \in Handlers : exportLock = h ~> exportLock # h
=============================================================================
