------------------------- MODULE ResultStoreProofs -------------------------
(***************************************************************************)
(* The result store for any number of jobs and handlers, any sizes and any *)
(* limits.  GInv, with the job queue's IInv, is inductive as it stands:    *)
(* the types, where the worker and the export lock's holder are, and the   *)
(* session limit.  The accounting, Exact, is inductive only as long as no  *)
(* directory is removed that a thread still builds in (Apart): two threads *)
(* in one directory are what _export and _record do not exclude.  A server *)
(* that is asked for no archives (Quiet) never lets it happen.             *)
(***************************************************************************)
EXTENDS ResultStore, JobQueueProofs, WellFoundedInduction

\* Where the worker stands in run_fn, with its variables.
W == local[Worker]
Places == {"idle", "lock", "create", "copy", "replace", "record", "evict", "unlink", "rmdir", "unlock",
           "check", "touch", "run", "size", "clean", "return", "end"}
Files == {"dir", "result", "partial", "zip", "hollow"}
Entries == [dir : Objects, size : Nat]
Locals == [at : Places, dir : Objects \union {None}, file : {"result", "zip"}, whole : BOOLEAN,
           size : Nat, victims : Seq(Objects)]

\* Within _record, past the accounting.
Evicting == {"evict", "unlink", "rmdir"}
\* Within _export's with block.
Locking == {"create", "copy", "replace", "record", "evict", "unlink", "rmdir", "unlock"}
\* Within _export, past the list of files: what is written in a directory is still to be accounted.
Building == {"create", "copy", "replace", "record"}

\* The types; a thread out of "idle" has a directory, and victims exactly while it evicts.
StoreTypeOK ==
  /\ setup \in Setups
  /\ disk \in [Objects -> SUBSET Files]
  /\ usage \in Seq(Entries)
  /\ local \in [Threads -> Locals]
  /\ exportLock \in Handlers \union {None}
  /\ root \in {"up", "unlinked", "removed"}
  /\ \A t \in Threads : local[t].at # "idle" => local[t].dir \in Objects
  /\ \A t \in Threads : local[t].at \in Evicting <=> local[t].victims # <<>>

\* The worker's place in run_fn agrees with where the queue says it is.
Working ==
  /\ W.at \in {"idle", "run", "size", "record", "evict", "unlink", "rmdir", "return", "clean", "end"}
  /\ W.at # "idle" => pc = "run" /\ W.dir = held
  /\ W.at = "idle" => (pc = "run" => outcome = "none")
  /\ W.at \in {"run", "size", "record", "evict", "unlink", "rmdir", "return"} => outcome = "none"
  /\ W.at = "clean" => outcome \in {"cancelled", "invalid", "unexpected"}
  /\ W.at = "end" => outcome # "none"

\* The export lock's holder is the only one inside _export's with block.
Locked ==
  \A h \in Handlers :
    /\ local[h].at \in {"idle", "lock", "check", "touch"} \union Locking
    /\ exportLock = h <=> local[h].at \in Locking

\* What is recorded has been checked against the artifact limit.
Sized == \A t \in Threads : local[t].at = "record" => local[t].size <= setup.artifact

\* A done job has a directory that was made.
Made == \A j \in Jobs : jobs[j].state = "done" => jobs[j].path \in 1..jobs[j].made

\* Object d is over: it is not queued or running, nor will it be.
Past(d) ==
  /\ d[2] <= jobs[d[1]].made
  /\ d[2] = jobs[d[1]].made => jobs[d[1]].state \notin {"queued", "running"}

\* A handler serves only objects that are over.
Asked == \A h \in Handlers : local[h].at # "idle" => Past(local[h].dir)

GInv == StoreTypeOK /\ Working /\ Locked /\ Sized /\ Made /\ Asked /\ UsageWithinLimit

\* Directory d is a done job's.
Done(d) == jobs[d[1]].state = "done" /\ jobs[d[1]].path = d[2]
Plain == {"dir", "result"}
\* With a partial archive, that of a build or what a failed one has left.
Started == {"dir", "result", "partial"}
Zipped == {"dir", "result", "zip"}
\* A partial archive is being written in directory d.
Packing(d) == \E h \in Handlers : local[h].at \in {"copy", "replace"} /\ local[h].dir = d
\* Thread t has not yet evicted the job of its i-th victim.
Awaiting(t, i) == i \in DOMAIN local[t].victims /\ (i > 1 \/ local[t].at = "evict")

\* No directory that is being removed is the worker's own, nor is an archive built in it.
Apart == \A v \in Victims : /\ v # W.dir
                            /\ \A h \in Handlers : local[h].at \in Building => local[h].dir # v

\* The worker has accounted its directory and not yet left it.
Finishing == W.at \in {"evict", "unlink", "rmdir", "return"} \/ (W.at = "end" /\ outcome = "done")

\* _usage has one entry per job, for done jobs' directories and for the worker's from _record on.
Entered ==
  /\ \A i, k \in DOMAIN usage : usage[i].dir[1] = usage[k].dir[1] => i = k
  /\ \A i \in DOMAIN usage : Done(usage[i].dir) \/ (W.at # "idle" /\ usage[i].dir = W.dir)
  /\ W.at = "idle" => W.dir = None
  /\ W.at # "idle" => (W.dir \in Accounted <=> Finishing)

\* Victims are different directories, out of the accounting, whose jobs are done until they are evicted.
Evicted ==
  /\ \A t, u \in Threads : \A i \in DOMAIN local[t].victims, k \in DOMAIN local[u].victims :
       local[t].victims[i] = local[u].victims[k] => t = u /\ i = k
  /\ \A v \in Victims : v \notin Accounted
  /\ \A t \in Threads : \A i \in DOMAIN local[t].victims : Awaiting(t, i) => Done(local[t].victims[i])

\* An accounted directory holds its result, and its entry has all the bytes but those of an archive that
\* is about to be recorded.
Stored ==
  \A i \in DOMAIN usage :
    LET d == usage[i].dir
    IN /\ disk[d] \in (IF Packing(d) THEN {Started} ELSE {Plain, Started, Zipped})
       /\ \/ usage[i].size = ResultSize[d[1]] + (IF "zip" \in disk[d] THEN ExportSize[d[1]] ELSE 0)
          \/ \E h \in Handlers : local[h].at = "record" /\ local[h].dir = d

\* What is left of a victim.
Doomed ==
  \A t \in Threads : \A i \in DOMAIN local[t].victims :
    IF local[t].at = "rmdir" /\ i = 1 THEN disk[local[t].victims[i]] = {"dir"}
    ELSE disk[local[t].victims[i]] \in {Plain, Started, Zipped}

\* What the worker has in its directory.
Ran ==
  /\ W.at = "run" => disk[W.dir] = {"dir"}
  /\ W.at \in {"size", "record"} => disk[W.dir] = Plain
  /\ W.at = "end" /\ outcome # "done" => disk[W.dir] = {}
  /\ W.at = "record" => W.size = ResultSize[W.dir[1]]

\* What the builder of an archive sees: nothing, or an accounted directory with its result.
Builders == \A h \in Handlers :
  LET d == local[h].dir IN
  /\ local[h].at = "create" => disk[d] = {} \/ (d \in Accounted /\ local[h].whole /\ disk[d] \in {Plain, Started})
  /\ local[h].at \in {"copy", "replace"} => d \in Accounted /\ local[h].whole
  /\ local[h].at = "record" => d \in Accounted /\ disk[d] = Zipped /\ local[h].size = ResultSize[d[1]] + ExportSize[d[1]]

\* A done job's directory is accounted, or its eviction is awaited.
Kept == \A j \in Jobs : jobs[j].state = "done" =>
  \/ <<j, jobs[j].path>> \in Accounted
  \/ \E t \in Threads : \E i \in DOMAIN local[t].victims : Awaiting(t, i) /\ local[t].victims[i] = <<j, jobs[j].path>>

\* Every directory has an owner.
Owned == \A d \in Objects : disk[d] # {} => d \in Accounted \/ d \in Victims \/ d = W.dir

Exact == Entered /\ Evicted /\ Stored /\ Doomed /\ Ran /\ Builders /\ Kept /\ Owned

\* Until close removes the root directory.
UInv == root = "up" => Exact

\* A step that neither makes a job done nor evicts one.
Lasting == \A j \in Jobs : /\ jobs'[j].state = "done" <=> jobs[j].state = "done"
                           /\ jobs[j].state = "done" => jobs'[j].path = jobs[j].path

\* The server is asked for no archives: its handlers only check and send files, it has stopped when the
\* root is removed, and nothing is left in it.
Quiet == "export" \notin setup.asked
Silent == Quiet => \A h \in Handlers : local[h].at \in {"idle", "check", "touch"}
Stopped == root # "up" => pc = "stopped"
Emptied == Quiet => /\ root = "unlinked" => \A d \in Objects : disk[d] \subseteq {"dir"}
                    /\ root = "removed" => \A d \in Objects : disk[d] = {}
QInv == Silent /\ Stopped /\ Emptied /\ (Quiet => Apart)
----------------------------------------------------------------------------
(* Induction on the places of a sequence, and the bytes of an accounting.  *)

\* A set of naturals has a least element: induction over naturals, without a predicate as a parameter.
LEMMA LeastNatural ==
  ASSUME NEW T, \A n \in T : n \in Nat, NEW x \in T
  PROVE  \E n \in T : \A m \in T : n <= m
  <1>1. IsWellFoundedOn(OpToRel(<, Nat), Nat) /\ T \subseteq Nat /\ T # {}
    BY NatLessThanWellFounded
  <1>2. \E n \in T : \A m \in T : ~(<<m, n>> \in OpToRel(<, Nat))
    BY <1>1, WFMin
  <1>3. \E n \in T : \A m \in T : ~(m < n)
    BY <1>2 DEF OpToRel
  <1> QED
    BY <1>3

\* A set that holds 0, and with each number below n the next, holds every number up to n.
LEMMA UpTo ==
  ASSUME NEW n \in Nat, NEW S, 0 \in S, \A k \in 1..n : k - 1 \in S => k \in S
  PROVE  \A k \in 0..n : k \in S
  <1> DEFINE T == (0..n) \ S
  <1> SUFFICES ASSUME NEW x \in T PROVE FALSE
    OBVIOUS
  <1>1. \A k \in T : k \in Nat
    OBVIOUS
  <1>2. PICK k \in T : \A m \in T : k <= m
    <2> HIDE DEF T
    <2> QED
      BY <1>1, LeastNatural
  <1>3. k \in 1..n /\ k - 1 \notin T
    BY <1>2
  <1> QED
    BY <1>2, <1>3

Sums(f, s) == f = [i \in 0..Len(s) |-> IF i = 0 THEN 0 ELSE f[i - 1] + s[i].size]

\* Sums by places from the first exist, are numbers, and are the same for every such function.
LEMMA SumsExist ==
  ASSUME NEW s \in Seq(Entries)
  PROVE  \E f \in [0..Len(s) -> Nat] : Sums(f, s)
  <1> DEFINE n == Len(s)
             Good(f, k) == /\ f \in [0..k -> Nat]
                           /\ \A i \in 0..k : f[i] = IF i = 0 THEN 0 ELSE f[i - 1] + s[i].size
             S == {k \in 0..n : \E f : Good(f, k)}
  <1>1. n \in Nat /\ \A i \in 1..n : s[i].size \in Nat
    <2>1. \A i \in 1..n : s[i] \in Entries
      BY ElementOfSeq
    <2> QED
      BY <2>1, LenProperties DEF Entries
  <1>2. 0 \in S
    <2> DEFINE f == [i \in 0..0 |-> 0]
    <2>1. Good(f, 0)
      OBVIOUS
    <2> HIDE DEF f
    <2> QED
      BY <1>1, <2>1
  <1>3. ASSUME NEW k \in 1..n, k - 1 \in S PROVE k \in S
    <2>1. PICK g : Good(g, k - 1)
      BY <1>3
    <2> DEFINE f == [i \in 0..k |-> IF i < k THEN g[i] ELSE g[k - 1] + s[k].size]
    <2>2. f \in [0..k -> Nat]
      BY <1>1, <2>1
    <2>3. ASSUME NEW i \in 0..k PROVE f[i] = IF i = 0 THEN 0 ELSE f[i - 1] + s[i].size
      <3>1. CASE i < k
        BY <2>1, <3>1
      <3>2. CASE i = k
        BY <2>1, <3>2
      <3> QED
        BY <3>1, <3>2
    <2>4. Good(f, k)
      BY <2>2, <2>3
    <2>5. k \in 0..n
      BY <1>1
    <2> HIDE DEF f, Good
    <2> QED
      BY <2>4, <2>5
  <1>4. n \in S
    <2>1. \A k \in 1..n : k - 1 \in S => k \in S
      BY <1>3
    <2>2. n \in 0..n
      BY <1>1
    <2> HIDE DEF S, n
    <2> QED
      BY <1>1, <1>2, <2>1, <2>2, UpTo
  <1>5. PICK f : Good(f, n)
    BY <1>4
  <1>6. Sums(f, s)
    BY <1>5 DEF Sums
  <1> QED
    BY <1>5, <1>6

\* Total is the last of the sums by places.
LEMMA TotalIsSum ==
  ASSUME NEW s \in Seq(Entries)
  PROVE  \E f \in [0..Len(s) -> Nat] : Sums(f, s) /\ Total(s) = f[Len(s)]
  <1> DEFINE n == Len(s)
  <1>1. PICK f \in [0..n -> Nat] : Sums(f, s)
    BY SumsExist
  <1>2. PICK g : Sums(g, s) /\ Total(s) = g[n]
    <2>1. Sums(CHOOSE u : Sums(u, s), s)
      BY <1>1
    <2>2. Total(s) = (CHOOSE u : Sums(u, s))[n]
      BY DEF Total, Sums
    <2> QED
      BY <2>1, <2>2
  <1>3. n \in Nat
    BY LenProperties
  <1>4. \A k \in 0..n : g[k] = f[k]
    <2> DEFINE S == {k \in 0..n : g[k] = f[k]}
    <2>1. 0 \in S
      BY <1>1, <1>2, <1>3 DEF Sums
    <2>2. ASSUME NEW k \in 1..n, k - 1 \in S PROVE k \in S
      <3>1. k \in 0..n /\ k # 0
        BY <1>3
      <3>2. f[k] = f[k - 1] + s[k].size
        BY <1>1, <3>1 DEF Sums
      <3>3. g[k] = g[k - 1] + s[k].size
        BY <1>2, <3>1 DEF Sums
      <3> QED
        BY <2>2, <3>1, <3>2, <3>3
    <2>3. \A k \in 0..n : k \in S
      <3> HIDE DEF S, n
      <3> QED
        BY <1>3, <2>1, <2>2, UpTo
    <2> QED
      BY <2>3
  <1> QED
    BY <1>1, <1>2, <1>3, <1>4

\* Two sequences' sums agree as far as their sizes do.
LEMMA TotalAppend ==
  ASSUME NEW s \in Seq(Entries), NEW e \in Entries
  PROVE  Total(Append(s, e)) = Total(s) + e.size
  <1> DEFINE n == Len(s)
             t == Append(s, e)
  <1>1. /\ n \in Nat /\ t \in Seq(Entries) /\ Len(t) = n + 1
        /\ t[n + 1] = e /\ \A i \in 1..n : t[i] = s[i]
    BY AppendProperties, LenProperties
  <1>2. PICK f \in [0..n -> Nat] : Sums(f, s) /\ Total(s) = f[n]
    BY TotalIsSum
  <1>3. PICK g \in [0..(n + 1) -> Nat] : Sums(g, t) /\ Total(t) = g[n + 1]
    <2> HIDE DEF t
    <2> QED
      BY <1>1, TotalIsSum
  <1> HIDE DEF t, n
  <1>4. \A k \in 0..n : g[k] = f[k]
    <2> DEFINE S == {k \in 0..n : g[k] = f[k]}
    <2>1. 0 \in S
      BY <1>1, <1>2, <1>3 DEF Sums, n
    <2>2. ASSUME NEW k \in 1..n, k - 1 \in S PROVE k \in S
      <3>1. k \in 0..n /\ k # 0 /\ k \in 0..(n + 1)
        BY <1>1
      <3>2. f[k] = f[k - 1] + s[k].size
        BY <1>2, <3>1 DEF Sums, n
      <3>3. g[k] = g[k - 1] + t[k].size
        BY <1>1, <1>3, <3>1 DEF Sums
      <3> QED
        BY <1>1, <2>2, <3>1, <3>2, <3>3
    <2>3. \A k \in 0..n : k \in S
      <3> HIDE DEF S
      <3> QED
        BY <1>1, <2>1, <2>2, UpTo
    <2> QED
      BY <2>3
  <1>5. g[n + 1] = g[n] + e.size
    <2>1. n + 1 \in 0..(n + 1) /\ n + 1 # 0 /\ (n + 1) - 1 = n
      BY <1>1
    <2> QED
      BY <1>1, <1>3, <2>1 DEF Sums
  <1>6. n \in 0..n
    BY <1>1
  <1> QED
    BY <1>2, <1>3, <1>4, <1>5, <1>6 DEF t

\* Taking an entry out takes its bytes off.
LEMMA TotalWithout ==
  ASSUME NEW s \in Seq(Entries), NEW i \in 1..Len(s)
  PROVE  /\ Without(s, i) \in Seq(Entries) /\ Len(Without(s, i)) = Len(s) - 1
         /\ Total(Without(s, i)) + s[i].size = Total(s)
  <1> DEFINE t == Without(s, i)
  <1>1. PICK n \in Nat : Len(s) = n + 1
    BY LenProperties
  <1>2. /\ t \in Seq(Entries) /\ Len(t) = n
        /\ \A k \in 1..n : t[k] = IF k < i THEN s[k] ELSE s[k + 1]
    <2>1. t = [k \in 1..n |-> IF k < i THEN s[k] ELSE s[k + 1]]
      BY <1>1 DEF Without
    <2>2. \A k \in 1..n : (IF k < i THEN s[k] ELSE s[k + 1]) \in Entries
      BY <1>1, ElementOfSeq
    <2>3. t \in [1..n -> Entries]
      BY <2>1, <2>2
    <2>4. t \in Seq(Entries)
      BY <2>3, SeqDef
    <2>5. Len(t) = n
      BY <2>3, <2>4, LenProperties
    <2> QED
      BY <2>1, <2>4, <2>5
  <1>3. PICK f \in [0..(n + 1) -> Nat] : Sums(f, s) /\ Total(s) = f[n + 1]
    BY <1>1, TotalIsSum
  <1>4. PICK g \in [0..n -> Nat] : Sums(g, t) /\ Total(t) = g[n]
    <2> HIDE DEF t
    <2> QED
      BY <1>2, TotalIsSum
  <1> HIDE DEF t
  <1>5. \A k \in 1..(n + 1) : f[k] = f[k - 1] + s[k].size
    <2> SUFFICES ASSUME NEW k \in 1..(n + 1) PROVE f[k] = f[k - 1] + s[k].size
      OBVIOUS
    <2>1. k \in 0..(n + 1) /\ k # 0
      OBVIOUS
    <2>2. k \in 0..Len(s)
      BY <1>1, <2>1
    <2>3. f = [j \in 0..Len(s) |-> IF j = 0 THEN 0 ELSE f[j - 1] + s[j].size]
      BY <1>3 DEF Sums
    <2>4. f[k] = [j \in 0..Len(s) |-> IF j = 0 THEN 0 ELSE f[j - 1] + s[j].size][k]
      BY <2>3, Zenon
    <2> QED
      BY <2>1, <2>2, <2>4
  <1>6. \A k \in 1..n : g[k] = g[k - 1] + t[k].size
    BY <1>2, <1>4, SMTT(30) DEF Sums
  <1>7. g[0] = 0 /\ f[0] = 0
    BY <1>1, <1>2, <1>3, <1>4 DEF Sums
  <1>8. \A k \in 1..(n + 1) : s[k].size \in Nat
    <2>1. \A k \in 1..Len(s) : s[k] \in Entries
      BY ElementOfSeq
    <2> QED
      BY <1>1, <2>1 DEF Entries
  <1>9. \A k \in 0..n : IF k < i THEN g[k] = f[k] ELSE g[k] + s[i].size = f[k + 1]
    <2> DEFINE S == {k \in 0..n : IF k < i THEN g[k] = f[k] ELSE g[k] + s[i].size = f[k + 1]}
    <2>1. 0 \in S
      BY <1>1, <1>7
    <2>2. ASSUME NEW k \in 1..n, k - 1 \in S PROVE k \in S
      <3>1. k - 1 \in 0..n /\ k \in 0..n /\ k \in 1..(n + 1) /\ k + 1 \in 1..(n + 1) /\ i \in 1..(n + 1)
        BY <1>1
      <3>2. /\ g[k] \in Nat /\ g[k - 1] \in Nat /\ f[k] \in Nat /\ f[k - 1] \in Nat /\ f[k + 1] \in Nat
            /\ s[i].size \in Nat /\ s[k].size \in Nat /\ s[k + 1].size \in Nat
        <4>1. k \in 0..(n + 1) /\ k - 1 \in 0..(n + 1) /\ k + 1 \in 0..(n + 1)
          BY <3>1
        <4>2. g[k] \in Nat /\ g[k - 1] \in Nat
          BY <1>4, <3>1
        <4>3. f[k] \in Nat /\ f[k - 1] \in Nat /\ f[k + 1] \in Nat
          BY <1>3, <4>1
        <4> QED
          BY <1>8, <3>1, <4>2, <4>3
      <3>a. (k + 1) - 1 = k /\ (k - 1) + 1 = k
        BY <3>1
      <3>b. f[k + 1] = f[(k + 1) - 1] + s[k + 1].size
        BY <1>5, <3>1
      <3>3. f[k] = f[k - 1] + s[k].size /\ f[k + 1] = f[k] + s[k + 1].size /\ g[k] = g[k - 1] + t[k].size
        BY <1>5, <1>6, <3>1, <3>a, <3>b
      <3>c. IF k - 1 < i THEN g[k - 1] = f[k - 1] ELSE g[k - 1] + s[i].size = f[k]
        BY <2>2, <3>a
      <3>d. t[k] = IF k < i THEN s[k] ELSE s[k + 1]
        BY <1>2
      <3>7. PICK a \in Nat, b \in Nat, c \in Nat, d \in Nat, e \in Nat, x \in Nat, y \in Nat :
              /\ a = g[k] /\ b = g[k - 1] /\ c = f[k] /\ d = f[k - 1] /\ e = f[k + 1]
              /\ x = s[i].size /\ y = s[k + 1].size
        BY <3>2, Zenon
      <3>4. CASE k < i
        <4>1. k - 1 < i
          BY <3>1, <3>4
        <4>2. g[k] = f[k]
          BY <3>3, <3>4, <3>c, <3>d, <4>1
        <4> QED
          BY <3>1, <3>4, <4>2
      <3>5. CASE k = i
        <4>1. k - 1 < i /\ ~(k < i)
          BY <3>1, <3>5
        <4>2. g[k] = f[k - 1] + s[k + 1].size
          BY <3>3, <3>c, <3>d, <4>1
        <4>3. g[k] + s[i].size = f[k + 1]
          <5>1. a = d + y /\ c = d + x /\ e = c + y
            BY <3>7, <3>3, <3>5, <4>2, Zenon
          <5>2. a + x = e
            BY <5>1
          <5> QED
            BY <3>7, <5>2, Zenon
        <4> QED
          BY <3>1, <4>1, <4>3
      <3>6. CASE k > i
        <4>1. ~(k - 1 < i) /\ ~(k < i)
          BY <3>1, <3>6
        <4>2. g[k - 1] + s[i].size = f[k] /\ g[k] = g[k - 1] + s[k + 1].size /\ f[k + 1] = f[k] + s[k + 1].size
          BY <3>3, <3>c, <3>d, <4>1
        <4>3. g[k] + s[i].size = f[k + 1]
          <5>1. a = b + y /\ c = b + x /\ e = c + y
            BY <3>7, <4>2, Zenon
          <5>2. a + x = e
            BY <5>1
          <5> QED
            BY <3>7, <5>2, Zenon
        <4> QED
          BY <3>1, <4>1, <4>3
      <3> QED
        BY <3>1, <3>4, <3>5, <3>6
    <2>3. \A k \in 0..n : k \in S
      <3> HIDE DEF S
      <3> QED
        BY <2>1, <2>2, UpTo
    <2> QED
      BY <2>3
  <1>10. g[n] + s[i].size = f[n + 1]
    <2>1. CASE n < i
      <3>1. i = n + 1 /\ n \in 0..n /\ n + 1 \in 1..(n + 1) /\ (n + 1) - 1 = n
        BY <1>1, <2>1
      <3> QED
        BY <1>5, <1>9, <2>1, <3>1
    <2>2. CASE ~(n < i)
      BY <1>9, <2>2
    <2> QED
      BY <2>1, <2>2
  <1> QED
    BY <1>1, <1>2, <1>3, <1>4, <1>10 DEF t

\* The bytes of one entry.
LEMMA TotalOfOne ==
  ASSUME NEW e \in Entries, NEW s \in Seq(Entries), Len(s) = 1, s[1] = e
  PROVE  Total(s) = e.size
  <1>1. PICK f \in [0..1 -> Nat] : Sums(f, s) /\ Total(s) = f[1]
    BY TotalIsSum
  <1> QED
    BY <1>1 DEF Sums, Entries

----------------------------------------------------------------------------
(* The types, the worker's place and the export lock, an action at a time. *)

\* The worker is no handler, and None neither.
LEMMA WorkerIsNoHandler == Worker \in Threads /\ Worker \notin Handlers /\ None \notin Handlers /\ Handlers \subseteq Threads
  BY ResultStoreAssumption DEF ResultStoreAssumption, Threads

\* A thread's record stays one when it moves.
LEMMA LocalMoved ==
  ASSUME NEW l \in Locals, NEW p \in Places
  PROVE  /\ [l EXCEPT !.at = p] \in Locals
         /\ \A b \in BOOLEAN : [l EXCEPT !.at = p, !.whole = b] \in Locals
         /\ \A n \in Nat : [l EXCEPT !.at = p, !.size = n] \in Locals
         /\ \A v \in Seq(Objects) : [l EXCEPT !.at = p, !.victims = v] \in Locals
         /\ \A v \in Seq(Objects) : [l EXCEPT !.victims = v, !.at = p] \in Locals
         /\ \A d \in Objects : [l EXCEPT !.at = p, !.dir = d] \in Locals
         /\ \A d \in Objects, f \in {"result", "zip"} : [l EXCEPT !.at = p, !.dir = d, !.file = f] \in Locals
  BY DEF Locals

\* An idle thread's record.
LEMMA IdleIsLocal == Idle \in Locals
  <1>1. <<>> \in Seq(Objects)
    OBVIOUS
  <1> QED
    BY <1>1 DEF Idle, Locals, Places

\* What Goto does.
LEMMA Went ==
  ASSUME NEW t \in Threads, NEW p \in Places, local \in [Threads -> Locals], Goto(t, p)
  PROVE  /\ local' \in [Threads -> Locals]
         /\ local'[t] = [local[t] EXCEPT !.at = p]
         /\ \A u \in Threads \ {t} : local'[u] = local[u]
  BY LocalMoved DEF Goto

Safe == StoreTypeOK /\ Working /\ Locked /\ Sized

\* A thread that moves to another place, and nothing else of the state it is told by.
LEMMA MoveSafe ==
  ASSUME Safe, NEW t \in Threads, NEW l \in Locals, local' = [local EXCEPT ![t] = l],
         setup' = setup, disk' \in [Objects -> SUBSET Files], usage' \in Seq(Entries),
         exportLock' \in Handlers \union {None}, root' \in {"up", "unlinked", "removed"},
         l.at # "idle" => l.dir \in Objects, l.at \in Evicting <=> l.victims # <<>>,
         l.at = "record" => l.size <= setup.artifact
  PROVE  StoreTypeOK' /\ Sized' /\ local'[t] = l /\ \A u \in Threads \ {t} : local'[u] = local[u]
  <1>1. local' \in [Threads -> Locals] /\ local'[t] = l /\ \A u \in Threads \ {t} : local'[u] = local[u]
    BY DEF Safe, StoreTypeOK
  <1>2. \A u \in Threads : local'[u].at # "idle" => local'[u].dir \in Objects
    BY <1>1 DEF Safe, StoreTypeOK
  <1>3. \A u \in Threads : local'[u].at \in Evicting <=> local'[u].victims # <<>>
    BY <1>1 DEF Safe, StoreTypeOK
  <1>4. Sized'
    BY <1>1 DEF Safe, Sized
  <1>5. setup' \in Setups
    BY DEF Safe, StoreTypeOK
  <1> QED
    BY <1>1, <1>2, <1>3, <1>4, <1>5 DEF StoreTypeOK

\* A move of the worker keeps the lock, and a move of a handler the worker's place.
LEMMA WorkerMoves ==
  ASSUME Locked, exportLock' = exportLock, \A u \in Threads \ {Worker} : local'[u] = local[u]
  PROVE  Locked'
  BY WorkerIsNoHandler DEF Locked

\* A move of a handler that enters or leaves the with block takes or releases the lock.
LEMMA HandlerMoves ==
  ASSUME Working, Locked, NEW h \in Handlers, \A u \in Threads \ {h} : local'[u] = local[u],
         pc' = pc, held' = held, outcome' = outcome,
         local'[h].at \in {"idle", "lock", "check", "touch"} \union Locking,
         exportLock' = h <=> local'[h].at \in Locking,
         exportLock' # exportLock => exportLock \in {h, None} /\ exportLock' \in {h, None}
  PROVE  Working' /\ Locked'
  <1>1. W' = W
    BY WorkerIsNoHandler DEF W
  <1>2. \A k \in Handlers \ {h} : local'[k] = local[k] /\ (exportLock' = k <=> exportLock = k)
    BY WorkerIsNoHandler
  <1> QED
    BY <1>1, <1>2 DEF Working, Locked

\* The queue's own steps.
LEMMA QueueStepSafe == ASSUME IInv, Safe, QueueStep PROVE Safe'
  <1>1. UNCHANGED storeVars
    BY DEF QueueStep
  <1>2. StoreTypeOK' /\ Locked' /\ Sized' /\ W' = W
    BY <1>1 DEF storeVars, Safe, StoreTypeOK, Locked, Sized, W
  <1>3. \/ pc' = pc /\ held' = held /\ outcome' = outcome
        \/ pc = "get" /\ outcome' = outcome /\ pc' # "run"
        \/ pc = "got" /\ pc' # "run"
        \/ pc = "got" /\ outcome' = "none"
    BY DEF QueueStep, Submit, Queue, Get, Begin, Start, Abandon, Close, PutNone, Join
  <1>4. Working'
    BY <1>2, <1>3 DEF Safe, Working
  <1> QED
    BY <1>2, <1>4 DEF Safe

\* The worker's steps in run_fn.
LEMMA ExecuteStepSafe == ASSUME IInv, Safe, ExecuteStep PROVE Safe'
  <1> USE WorkerIsNoHandler
  <1>0. /\ local[Worker] \in Locals /\ disk \in [Objects -> SUBSET Files] /\ usage \in Seq(Entries)
        /\ exportLock \in Handlers \union {None} /\ root \in {"up", "unlinked", "removed"}
        /\ local \in [Threads -> Locals]
        /\ W.at # "idle" => W.dir \in Objects
        /\ W.at \in Evicting <=> W.victims # <<>>
    BY DEF Safe, StoreTypeOK, W
  <1>1. CASE MakeDirectory
    <2> DEFINE l == [Idle EXCEPT !.at = "run", !.dir = held]
    <2>1. held \in Objects
      BY <1>1 DEF IInv, TypeOK, Holding, MakeDirectory
    <2>2. l \in Locals /\ l.at = "run" /\ l.dir = held /\ l.victims = <<>>
      BY <2>1, IdleIsLocal, LocalMoved DEF Places, Idle
    <2>3. disk' \in [Objects -> SUBSET Files]
      BY <1>0, <1>1, <2>1 DEF MakeDirectory, Put, Files
    <2>4. /\ local' = [local EXCEPT ![Worker] = l] /\ setup' = setup /\ usage' = usage /\ exportLock' = exportLock
          /\ root' = root /\ UNCHANGED vars /\ pc = "run" /\ W.at = "idle"
      BY <1>1 DEF MakeDirectory, At, W
    <2> HIDE DEF l
    <2>5. StoreTypeOK' /\ Sized' /\ local'[Worker] = l /\ \A u \in Threads \ {Worker} : local'[u] = local[u]
      BY <1>0, <2>1, <2>2, <2>3, <2>4, MoveSafe DEF Evicting
    <2>6. Locked'
      BY <2>4, <2>5, WorkerMoves DEF Safe
    <2>7. Working'
      BY <2>2, <2>4, <2>5 DEF Safe, Working, W, vars
    <2> QED
      BY <2>5, <2>6, <2>7 DEF Safe
  <1>2. ASSUME NEW p \in Places,
               /\ p \in {"run", "size", "clean", "end"}
               /\ local' = [local EXCEPT ![Worker].at = p]
               /\ W.at \in {"run", "size", "clean", "return"}
               /\ disk' \in [Objects -> SUBSET Files]
               /\ UNCHANGED <<setup, usage, exportLock, root, pc, held>>
               /\ p \in {"run", "size"} => outcome' = "none"
               /\ p = "clean" => outcome' \in {"cancelled", "invalid", "unexpected"}
               /\ p = "end" => outcome' # "none"
        PROVE  Safe'
    <2> DEFINE l == [local[Worker] EXCEPT !.at = p]
    <2>1. l \in Locals /\ l.at = p /\ l.dir = W.dir /\ l.victims = <<>>
      <3>1. W.victims = <<>> /\ W.dir \in Objects
        BY <1>0, <1>2 DEF Evicting
      <3> QED
        BY <1>0, <3>1 DEF W, Locals
    <2>2. local' = [local EXCEPT ![Worker] = l]
      BY <1>2
    <2>a. /\ l.dir \in Objects /\ l.at \notin Evicting /\ l.at # "record"
          /\ setup' = setup /\ usage' \in Seq(Entries) /\ exportLock' \in Handlers \union {None}
          /\ root' \in {"up", "unlinked", "removed"} /\ disk' \in [Objects -> SUBSET Files]
      BY <1>0, <1>2, <2>1 DEF Evicting
    <2> HIDE DEF l
    <2>3. StoreTypeOK' /\ Sized' /\ local'[Worker] = l /\ \A u \in Threads \ {Worker} : local'[u] = local[u]
      BY <2>1, <2>2, <2>a, MoveSafe
    <2>4. Locked'
      BY <1>2, <2>3, WorkerMoves DEF Safe
    <2>5. Working'
      BY <1>2, <2>1, <2>3 DEF Safe, Working, W
    <2> QED
      BY <2>3, <2>4, <2>5 DEF Safe
  <1>3. ASSUME NEW p \in Phases, ReportPhase(p) PROVE Safe'
    <2>1. outcome = "none" /\ pc' = pc /\ held' = held /\ outcome' = IF closed THEN "cancelled" ELSE outcome
      BY <1>3 DEF ReportPhase, Report
    <2>2. W.at = "run" /\ local' = [local EXCEPT ![Worker].at = IF closed THEN "clean" ELSE "run"]
      BY <1>3 DEF ReportPhase, At, Goto, W
    <2>3. UNCHANGED <<setup, disk, usage, exportLock, root>>
      BY <1>3 DEF ReportPhase
    <2> QED
      BY <1>0, <1>2, <2>1, <2>2, <2>3 DEF Places
  <1>4. CASE Publish
    <2>1. disk' \in [Objects -> SUBSET Files]
      BY <1>0, <1>4 DEF Publish, Put, Files
    <2>2. W.at = "run" /\ local' = [local EXCEPT ![Worker].at = "size"] /\ UNCHANGED <<setup, usage, exportLock, root, pc, held, outcome>>
      BY <1>4 DEF Publish, At, Goto, W, vars
    <2>3. outcome = "none"
      BY <2>2 DEF Safe, Working
    <2> QED
      BY <1>2, <2>1, <2>2, <2>3 DEF Places
  <1>5. ASSUME NEW o \in {"invalid", "unexpected"}, Raise(o) PROVE Safe'
    <2>1. W.at \in {"run", "size"} /\ local' = [local EXCEPT ![Worker].at = "clean"]
          /\ UNCHANGED <<setup, disk, usage, exportLock, root, pc, held>> /\ outcome' = o
      BY <1>5 DEF Raise, Return, At, Goto, W
    <2> QED
      BY <1>0, <1>2, <2>1 DEF Places
  <1>6. CASE CheckSize
    <2> DEFINE size == Bytes(local[Worker].dir)
    <2>1. W.at = "size" /\ UNCHANGED <<setup, disk, usage, exportLock, root>>
      BY <1>6 DEF CheckSize, At, W
    <2>2. CASE size > setup.artifact
      <3>1. Return("invalid") /\ local' = [local EXCEPT ![Worker].at = "clean"]
        BY <1>6, <2>2 DEF CheckSize, Goto
      <3>2. UNCHANGED <<pc, held>> /\ outcome' = "invalid"
        BY <3>1 DEF Return
      <3> QED
        BY <1>0, <1>2, <2>1, <3>1, <3>2 DEF Places
    <2>3. CASE ~(size > setup.artifact)
      <3> DEFINE l == [local[Worker] EXCEPT !.at = "record", !.size = size]
      <3>1. local' = [local EXCEPT ![Worker] = l] /\ UNCHANGED vars
        BY <1>6, <2>3 DEF CheckSize
      <3>2. size \in Nat /\ size <= setup.artifact
        <4>1. W.dir[1] \in Jobs
          BY <1>0, <2>1 DEF Objects
        <4>2. size \in Nat
          BY <4>1, ResultStoreAssumption DEF ResultStoreAssumption, Bytes, W
        <4>3. setup.artifact \in Nat
          BY ResultStoreAssumption DEF ResultStoreAssumption, Safe, StoreTypeOK
        <4> QED
          BY <2>3, <4>2, <4>3
      <3>3. l \in Locals /\ l.at = "record" /\ l.dir = W.dir /\ l.victims = <<>> /\ l.size = size
        <4> HIDE DEF size
        <4>1. "record" \in Places
          BY DEF Places
        <4>2. l \in Locals
          BY <1>0, <3>2, <4>1, LocalMoved
        <4>3. W.victims = <<>>
          BY <1>0, <2>1 DEF Evicting
        <4>4. l.at = "record" /\ l.size = size /\ l.dir = local[Worker].dir /\ l.victims = local[Worker].victims
          BY <1>0 DEF Locals
        <4> QED
          BY <4>2, <4>3, <4>4 DEF W
      <3> HIDE DEF l, size
      <3>4. StoreTypeOK' /\ Sized' /\ local'[Worker] = l /\ \A u \in Threads \ {Worker} : local'[u] = local[u]
        BY <1>0, <2>1, <3>1, <3>2, <3>3, MoveSafe DEF Evicting
      <3>5. Locked'
        BY <2>1, <3>4, WorkerMoves DEF Safe
      <3>6. Working'
        BY <2>1, <3>1, <3>3, <3>4 DEF Safe, Working, W, vars
      <3> QED
        BY <3>4, <3>5, <3>6 DEF Safe
    <2> QED
      BY <2>2, <2>3
  <1>7. CASE Clean
    <2>1. disk' \in [Objects -> SUBSET Files]
      BY <1>0, <1>7 DEF Clean, Put, Files
    <2>2. W.at = "clean" /\ local' = [local EXCEPT ![Worker].at = "end"] /\ UNCHANGED <<setup, usage, exportLock, root, pc, held, outcome>>
      BY <1>7 DEF Clean, At, Goto, W, vars
    <2>3. outcome # "none"
      BY <2>2 DEF Safe, Working
    <2> QED
      BY <1>2, <2>1, <2>2, <2>3 DEF Places
  <1>8. CASE ReturnResult
    <2>1. W.at = "return" /\ local' = [local EXCEPT ![Worker].at = "end"]
          /\ UNCHANGED <<setup, disk, usage, exportLock, root, pc, held>> /\ outcome' = "done"
      BY <1>8 DEF ReturnResult, Return, At, Goto, W
    <2> QED
      BY <1>0, <1>2, <2>1 DEF Places
  <1>9. CASE FinishJob
    <2>1. /\ local' = [local EXCEPT ![Worker] = Idle] /\ pc' = "get"
          /\ UNCHANGED <<setup, disk, usage, exportLock, root>>
      BY <1>9 DEF FinishJob, Finish
    <2>2. Idle.at = "idle" /\ Idle.victims = <<>>
      BY DEF Idle
    <2>3. StoreTypeOK' /\ Sized' /\ local'[Worker] = Idle /\ \A u \in Threads \ {Worker} : local'[u] = local[u]
      BY <1>0, <2>1, <2>2, IdleIsLocal, MoveSafe DEF Evicting
    <2>4. Locked'
      BY <2>1, <2>3, WorkerMoves DEF Safe
    <2>5. Working'
      BY <2>1, <2>2, <2>3 DEF Working, W
    <2> QED
      BY <2>3, <2>4, <2>5 DEF Safe
  <1> QED
    BY <1>1, <1>3, <1>4, <1>5, <1>6, <1>7, <1>8, <1>9 DEF ExecuteStep

----------------------------------------------------------------------------
(* The accounting: what _record and _touch do to usage.                    *)

OnePerJob(s) == \A i, k \in DOMAIN s : s[i].dir[1] = s[k].dir[1] => i = k

\* What is left of a job's entry, and what of the others, when a dict's entry is popped.
LEMMA PoppedIs ==
  ASSUME NEW job, usage \in Seq(Entries), Accounts(job)
  PROVE  /\ Place(job) \in 1..Len(usage) /\ usage[Place(job)].dir[1] = job
         /\ Without(usage, Place(job)) \in Seq(Entries)
         /\ Total(Without(usage, Place(job))) + usage[Place(job)].size = Total(usage)
         /\ \A i \in DOMAIN Without(usage, Place(job)) : \E k \in DOMAIN usage : Without(usage, Place(job))[i] = usage[k]
         /\ \A k \in DOMAIN usage : usage[k].dir[1] # job =>
              \E i \in DOMAIN Without(usage, Place(job)) : Without(usage, Place(job))[i] = usage[k]
         /\ OnePerJob(usage) => /\ OnePerJob(Without(usage, Place(job)))
                                /\ \A i \in DOMAIN Without(usage, Place(job)) : Without(usage, Place(job))[i].dir[1] # job
  <1> DEFINE p == Place(job)
             s == Without(usage, p)
  <1>1. p \in DOMAIN usage /\ usage[p].dir[1] = job
    BY DEF Accounts, Place
  <1>2. PICK n \in Nat : Len(usage) = n + 1 /\ DOMAIN usage = 1..(n + 1) /\ p \in 1..(n + 1)
    BY <1>1, LenProperties
  <1> HIDE DEF p
  <1>3. s \in Seq(Entries) /\ Len(s) = n /\ Total(s) + usage[p].size = Total(usage)
    <2>1. p \in 1..Len(usage)
      BY <1>2
    <2> QED
      BY <1>2, <2>1, TotalWithout
  <1>4. DOMAIN s = 1..n /\ \A k \in 1..n : s[k] = IF k < p THEN usage[k] ELSE usage[k + 1]
    BY <1>2 DEF Without
  <1> HIDE DEF s
  <1>5. \A i \in 1..n : \E k \in 1..(n + 1) : s[i] = usage[k] /\ k # p /\ k = IF i < p THEN i ELSE i + 1
    BY <1>2, <1>4
  <1>6. \A k \in 1..(n + 1) : k # p => \E i \in 1..n : s[i] = usage[k]
    <2> SUFFICES ASSUME NEW k \in 1..(n + 1), k # p PROVE \E i \in 1..n : s[i] = usage[k]
      OBVIOUS
    <2>1. CASE k < p
      BY <1>2, <1>4, <2>1
    <2>2. CASE k > p
      <3>1. k - 1 \in 1..n /\ ~(k - 1 < p) /\ (k - 1) + 1 = k
        BY <1>2, <2>2
      <3> QED
        BY <1>4, <3>1
    <2> QED
      BY <1>2, <2>1, <2>2
  <1>7. ASSUME OnePerJob(usage) PROVE OnePerJob(s) /\ \A i \in 1..n : s[i].dir[1] # job
    <2>1. \A i \in 1..n : s[i].dir[1] # job
      BY <1>1, <1>2, <1>5, <1>7 DEF OnePerJob
    <2>2. ASSUME NEW i \in 1..n, NEW k \in 1..n, s[i].dir[1] = s[k].dir[1] PROVE i = k
      <3>1. PICK x \in 1..(n + 1) : s[i] = usage[x] /\ x = IF i < p THEN i ELSE i + 1
        BY <1>5
      <3>2. PICK y \in 1..(n + 1) : s[k] = usage[y] /\ y = IF k < p THEN k ELSE k + 1
        BY <1>5
      <3>3. x = y
        BY <1>2, <1>7, <2>2, <3>1, <3>2 DEF OnePerJob
      <3> QED
        BY <1>2, <3>1, <3>2, <3>3
    <2> QED
      BY <1>4, <2>1, <2>2 DEF OnePerJob
  <1>8. \A i \in DOMAIN s : \E k \in DOMAIN usage : s[i] = usage[k]
    BY <1>2, <1>4, <1>5
  <1>9. \A k \in DOMAIN usage : usage[k].dir[1] # job => \E i \in DOMAIN s : s[i] = usage[k]
    BY <1>1, <1>2, <1>4, <1>6
  <1>10. OnePerJob(usage) => OnePerJob(s) /\ \A i \in DOMAIN s : s[i].dir[1] # job
    BY <1>4, <1>7
  <1>11. p \in 1..Len(usage)
    BY <1>2
  <1> QED
    BY <1>1, <1>3, <1>8, <1>9, <1>10, <1>11 DEF p, s

\* An entry put last.
LEMMA PutLast ==
  ASSUME NEW s \in Seq(Entries), NEW e \in Entries
  PROVE  /\ Append(s, e) \in Seq(Entries) /\ Len(Append(s, e)) = Len(s) + 1 /\ Append(s, e)[Len(s) + 1] = e
         /\ \A i \in DOMAIN Append(s, e) : Append(s, e)[i] = e \/ (i \in DOMAIN s /\ Append(s, e)[i] = s[i])
         /\ \A i \in DOMAIN s : i \in DOMAIN Append(s, e) /\ Append(s, e)[i] = s[i]
         /\ OnePerJob(s) /\ (\A i \in DOMAIN s : s[i].dir[1] # e.dir[1]) =>
              /\ OnePerJob(Append(s, e))
              /\ \A i \in DOMAIN Append(s, e) : i # Len(s) + 1 => Append(s, e)[i].dir[1] # e.dir[1]
  <1> DEFINE t == Append(s, e)
  <1>1. /\ Len(s) \in Nat /\ DOMAIN s = 1..Len(s) /\ t \in Seq(Entries) /\ Len(t) = Len(s) + 1
        /\ DOMAIN t = 1..(Len(s) + 1) /\ t[Len(s) + 1] = e /\ \A i \in 1..Len(s) : t[i] = s[i]
    BY AppendProperties, LenProperties
  <1> HIDE DEF t
  <1>2. \A i \in DOMAIN t : i = Len(s) + 1 \/ (i \in DOMAIN s /\ t[i] = s[i])
    BY <1>1
  <1>3. ASSUME OnePerJob(s), \A i \in DOMAIN s : s[i].dir[1] # e.dir[1]
        PROVE  OnePerJob(t) /\ \A i \in DOMAIN t : i # Len(s) + 1 => t[i].dir[1] # e.dir[1]
    BY <1>1, <1>2, <1>3 DEF OnePerJob
  <1> QED
    BY <1>1, <1>2, <1>3 DEF t

\* How _record's entries are ordered and what they are.
LEMMA RecordedIs ==
  ASSUME NEW e \in Entries, usage \in Seq(Entries)
  PROVE  /\ Recorded(e) \in Seq(Entries) /\ Len(Recorded(e)) \in Nat \ {0} /\ Recorded(e)[Len(Recorded(e))] = e
         /\ \A i \in DOMAIN Recorded(e) : Recorded(e)[i] = e \/ \E k \in DOMAIN usage : Recorded(e)[i] = usage[k]
         /\ \A i \in DOMAIN Recorded(e) : i # Len(Recorded(e)) => \E k \in DOMAIN usage : Recorded(e)[i] = usage[k]
         /\ \A k \in DOMAIN usage : usage[k].dir[1] # e.dir[1] => \E i \in DOMAIN Recorded(e) : Recorded(e)[i] = usage[k]
         /\ OnePerJob(usage) =>
              /\ OnePerJob(Recorded(e))
              /\ \A i \in DOMAIN Recorded(e) : i # Len(Recorded(e)) => Recorded(e)[i].dir[1] # e.dir[1]
  <1> DEFINE job == e.dir[1]
             s == IF Accounts(job) THEN Without(usage, Place(job)) ELSE usage
  <1>1. s \in Seq(Entries) /\ (\A i \in DOMAIN s : \E k \in DOMAIN usage : s[i] = usage[k])
    BY PoppedIs
  <1>2. \A k \in DOMAIN usage : usage[k].dir[1] # job => \E i \in DOMAIN s : s[i] = usage[k]
    BY PoppedIs
  <1>3. OnePerJob(usage) => OnePerJob(s) /\ \A i \in DOMAIN s : s[i].dir[1] # job
    BY PoppedIs DEF Accounts
  <1>4. Recorded(e) = Append(s, e)
    BY DEF Recorded
  <1>5. Len(s) \in Nat
    BY <1>1, LenProperties
  <1> HIDE DEF s
  <1> DEFINE t == Append(s, e)
  <1>6. /\ DOMAIN s = 1..Len(s) /\ t \in Seq(Entries) /\ Len(t) = Len(s) + 1
        /\ DOMAIN t = 1..(Len(s) + 1) /\ t[Len(s) + 1] = e /\ \A i \in 1..Len(s) : t[i] = s[i]
    BY <1>1, AppendProperties, LenProperties
  <1>7. OnePerJob(s) /\ (\A i \in DOMAIN s : s[i].dir[1] # job) => OnePerJob(t)
    BY <1>1, PutLast
  <1> HIDE DEF t
  <1>8. \A i \in DOMAIN t : i # Len(t) => i \in DOMAIN s /\ t[i] = s[i]
    BY <1>5, <1>6
  <1>9. Len(t) \in DOMAIN t /\ Len(t) \in Nat \ {0}
    BY <1>5, <1>6
  <1>10. \A i \in DOMAIN s : i \in DOMAIN t /\ t[i] = s[i]
    BY <1>5, <1>6
  <1>11. Recorded(e) = t
    BY <1>4 DEF t
  <1> HIDE DEF job
  <1>12. OnePerJob(usage) => OnePerJob(t) /\ \A i \in DOMAIN t : i # Len(t) => t[i].dir[1] # job
    BY <1>3, <1>7, <1>8
  <1>13. \A i \in DOMAIN t : i # Len(t) => \E k \in DOMAIN usage : t[i] = usage[k]
    BY <1>1, <1>8
  <1>14. t[Len(t)] = e
    BY <1>6
  <1>15. \A k \in DOMAIN usage : usage[k].dir[1] # job => \E i \in DOMAIN t : t[i] = usage[k]
    BY <1>2, <1>10
  <1>16. \A i \in DOMAIN t : t[i] = e \/ \E k \in DOMAIN usage : t[i] = usage[k]
    BY <1>13, <1>14
  <1> QED
    BY <1>6, <1>9, <1>11, <1>12, <1>13, <1>14, <1>15, <1>16 DEF job

\* Room is made for the last entry at least, and the rest then fits.
LEMMA ExcessIs ==
  ASSUME NEW s \in Seq(Entries), Len(s) # 0, s[Len(s)].size <= setup.session, setup.session \in Nat
  PROVE  Excess(s) \in 0..(Len(s) - 1) /\ Total(SubSeq(s, Excess(s) + 1, Len(s))) <= setup.session
  <1>1. PICK n \in Nat : Len(s) = n + 1
    BY LenProperties
  <1> DEFINE Fits(k) == Total(SubSeq(s, k + 1, Len(s))) <= setup.session
             T == {k \in 0..n : k = n \/ Fits(k)}
  <1>2. Fits(n)
    <2>1. SubSeq(s, n + 1, n + 1) \in Seq(Entries) /\ Len(SubSeq(s, n + 1, n + 1)) = 1
          /\ SubSeq(s, n + 1, n + 1)[1] = s[n + 1]
      BY <1>1, SubSeqProperties
    <2>2. s[n + 1] \in Entries
      BY <1>1, ElementOfSeq
    <2> QED
      BY <1>1, <2>1, <2>2, TotalOfOne
  <1>3. \E k \in T : \A m \in T : k <= m
    <2>1. n \in T /\ \A k \in T : k \in Nat
      OBVIOUS
    <2> HIDE DEF T
    <2> QED
      BY <2>1, LeastNatural
  <1>4. PICK k \in T : \A m \in T : k <= m
    BY <1>3
  <1>5. k \in 0..n /\ (k = n \/ Fits(k)) /\ \A i \in 0..(k - 1) : ~Fits(i)
    <2> HIDE DEF Fits
    <2> QED
      BY <1>4
  <1> DEFINE P(x) == (x = Len(s) - 1 \/ Fits(x)) /\ \A i \in 0..(x - 1) : ~Fits(i)
  <1>6. Excess(s) = CHOOSE x \in 0..(Len(s) - 1) : P(x)
    BY DEF Excess
  <1>7. k \in 0..(Len(s) - 1) /\ P(k)
    <2> HIDE DEF Fits
    <2> QED
      BY <1>1, <1>5
  <1>8. Excess(s) \in 0..(Len(s) - 1) /\ P(Excess(s))
    <2> HIDE DEF P
    <2> QED
      BY <1>6, <1>7
  <1>9. Len(s) - 1 = n
    BY <1>1
  <1>10. Fits(Excess(s))
    <2> HIDE DEF Fits
    <2> QED
      BY <1>2, <1>8, <1>9
  <1> QED
    BY <1>8, <1>10

\* What _record leaves and takes out: e is the entry it makes, vs the directories it evicts.
Recording(t, e, vs) ==
  /\ e = [dir |-> local[t].dir, size |-> local[t].size]
  /\ e \in Entries /\ usage' \in Seq(Entries) /\ vs \in Seq(Objects)
  /\ local' = [local EXCEPT ![t].at = IF vs = <<>> THEN After(t) ELSE "evict", ![t].victims = vs]
  /\ Total(usage') <= setup.session
  /\ \E i \in DOMAIN usage' : usage'[i] = e
  /\ \A i \in DOMAIN usage' : usage'[i] = e \/ \E k \in DOMAIN usage : usage'[i] = usage[k]
  /\ \A i \in DOMAIN vs : \E k \in DOMAIN usage : vs[i] = usage[k].dir
  /\ \A k \in DOMAIN usage : usage[k].dir[1] # e.dir[1] =>
       (\E i \in DOMAIN usage' : usage'[i] = usage[k]) \/ \E i \in DOMAIN vs : vs[i] = usage[k].dir
  /\ OnePerJob(usage) =>
       /\ OnePerJob(usage')
       /\ \A i \in DOMAIN usage' : usage'[i] = e \/ usage'[i].dir[1] # e.dir[1]
       /\ \A i \in DOMAIN vs : vs[i][1] # e.dir[1]
       /\ \A i, k \in DOMAIN vs : vs[i] = vs[k] => i = k
       /\ \A i \in DOMAIN vs, k \in DOMAIN usage' : vs[i] # usage'[k].dir

\* A step of _record is one such recording.
LEMMA RecordIs ==
  ASSUME Safe, NEW t \in Threads, Record(t)
  PROVE  \E e, vs : Recording(t, e, vs)
  <1> DEFINE e == [dir |-> local[t].dir, size |-> local[t].size]
             r == Recorded(e)
             x == Excess(r)
             vs == [i \in 1..x |-> r[i].dir]
  <1>1. local[t].at = "record" /\ local[t] \in Locals /\ usage \in Seq(Entries) /\ local[t].dir \in Objects
    BY DEF Record, At, Safe, StoreTypeOK
  <1>2. e \in Entries /\ e.dir = local[t].dir /\ e.size <= setup.session /\ setup.session \in Nat
    <2>1. e.size \in Nat /\ e.size <= setup.artifact
      BY <1>1 DEF Safe, Sized, Locals
    <2>2. setup.artifact \in Nat /\ setup.session \in Nat /\ setup.artifact <= setup.session
      BY ResultStoreAssumption DEF ResultStoreAssumption, Safe, StoreTypeOK
    <2> QED
      BY <1>1, <2>1, <2>2 DEF Entries
  <1>3. /\ usage' = SubSeq(r, x + 1, Len(r))
        /\ local' = [local EXCEPT ![t].at = IF x = 0 THEN After(t) ELSE "evict", ![t].victims = vs]
    BY DEF Record
  <1> HIDE DEF e
  <1>4. /\ r \in Seq(Entries) /\ Len(r) \in Nat \ {0} /\ r[Len(r)] = e
        /\ \A i \in DOMAIN r : r[i] = e \/ \E k \in DOMAIN usage : r[i] = usage[k]
        /\ \A i \in DOMAIN r : i # Len(r) => \E k \in DOMAIN usage : r[i] = usage[k]
        /\ \A k \in DOMAIN usage : usage[k].dir[1] # e.dir[1] => \E i \in DOMAIN r : r[i] = usage[k]
        /\ OnePerJob(usage) => /\ OnePerJob(r)
                               /\ \A i \in DOMAIN r : i # Len(r) => r[i].dir[1] # e.dir[1]
    BY <1>1, <1>2, RecordedIs
  <1> HIDE DEF r
  <1>5. x \in 0..(Len(r) - 1) /\ Total(usage') <= setup.session
    BY <1>2, <1>3, <1>4, ExcessIs
  <1> HIDE DEF x
  <1>6. PICK m \in Nat : Len(r) = x + m /\ m # 0 /\ x \in Nat /\ DOMAIN r = 1..(x + m)
    <2>1. Len(r) - x \in Nat /\ Len(r) = x + (Len(r) - x) /\ Len(r) - x # 0
      BY <1>4, <1>5
    <2> QED
      BY <1>4, <1>5, <2>1, LenProperties
  <1>7. usage' \in Seq(Entries) /\ DOMAIN usage' = 1..m /\ \A i \in 1..m : usage'[i] = r[x + i] /\ x + i \in DOMAIN r
    <2>1. SubSeq(r, x + 1, x + m) \in Seq(Entries) /\ Len(SubSeq(r, x + 1, x + m)) = m
      BY <1>4, <1>6, SubSeqProperties
    <2>2. \A i \in 1..m : SubSeq(r, x + 1, x + m)[i] = r[x + i]
      BY <1>4, <1>6, SubSeqProperties
    <2>3. usage' = SubSeq(r, x + 1, x + m)
      BY <1>3, <1>6
    <2>4. DOMAIN SubSeq(r, x + 1, x + m) = 1..m
      BY <2>1, LenProperties
    <2>5. \A i \in 1..m : x + i \in DOMAIN r
      BY <1>6
    <2> QED
      BY <2>1, <2>2, <2>3, <2>4, <2>5, Zenon
  <1>8. /\ vs \in Seq(Objects) /\ DOMAIN vs = 1..x /\ (vs = <<>> <=> x = 0)
        /\ \A i \in 1..x : vs[i] = r[i].dir /\ i \in DOMAIN r /\ i # Len(r)
    <2>1. \A i \in 1..x : r[i].dir \in Objects /\ i \in DOMAIN r /\ i # Len(r)
      <3>1. \A i \in 1..Len(r) : r[i] \in Entries
        BY <1>4, ElementOfSeq
      <3>2. \A i \in 1..x : i \in 1..Len(r) /\ i # Len(r) /\ i \in DOMAIN r
        BY <1>6
      <3> QED
        BY <3>1, <3>2 DEF Entries
    <2>2. vs \in [1..x -> Objects]
      BY <2>1
    <2>3. vs \in Seq(Objects)
      BY <1>6, <2>2, SeqDef
    <2> QED
      BY <1>6, <2>1, <2>3, EmptySeq, LenProperties
  <1> HIDE DEF vs
  <1>9. \E i \in DOMAIN usage' : usage'[i] = e
    BY <1>4, <1>6, <1>7
  <1>10. \A i \in DOMAIN usage' : usage'[i] = e \/ \E k \in DOMAIN usage : usage'[i] = usage[k]
    BY <1>4, <1>7
  <1>11. \A i \in DOMAIN vs : \E k \in DOMAIN usage : vs[i] = usage[k].dir
    BY <1>4, <1>8
  <1>12. ASSUME NEW k \in DOMAIN usage, usage[k].dir[1] # e.dir[1]
         PROVE  (\E i \in DOMAIN usage' : usage'[i] = usage[k]) \/ \E i \in DOMAIN vs : vs[i] = usage[k].dir
    <2>1. PICK i \in DOMAIN r : r[i] = usage[k]
      BY <1>4, <1>12
    <2>2. CASE i <= x
      BY <1>6, <1>8, <2>1, <2>2
    <2>3. CASE ~(i <= x)
      <3>1. i - x \in 1..m /\ x + (i - x) = i
        BY <1>6, <2>1, <2>3
      <3> QED
        BY <1>7, <2>1, <3>1
    <2> QED
      BY <2>2, <2>3
  <1>13. ASSUME OnePerJob(usage)
         PROVE  /\ OnePerJob(usage')
                /\ \A i \in DOMAIN usage' : usage'[i] = e \/ usage'[i].dir[1] # e.dir[1]
                /\ \A i \in DOMAIN vs : vs[i][1] # e.dir[1]
                /\ \A i, k \in DOMAIN vs : vs[i] = vs[k] => i = k
                /\ \A i \in DOMAIN vs, k \in DOMAIN usage' : vs[i] # usage'[k].dir
    <2>1. OnePerJob(r) /\ \A i \in DOMAIN r : i # Len(r) => r[i].dir[1] # e.dir[1]
      BY <1>4, <1>13
    <2>2. \A i \in DOMAIN usage' : usage'[i] = e \/ usage'[i].dir[1] # e.dir[1]
      BY <1>4, <1>7, <2>1
    <2>3. \A i \in DOMAIN vs : vs[i][1] # e.dir[1]
      BY <1>8, <2>1
    <2>4. ASSUME NEW i \in 1..m, NEW k \in 1..m, usage'[i].dir[1] = usage'[k].dir[1] PROVE i = k
      <3>1. x + i = x + k
        BY <1>7, <2>1, <2>4 DEF OnePerJob
      <3> QED
        BY <1>6, <3>1
    <2>5. \A i, k \in DOMAIN vs : vs[i] = vs[k] => i = k
      BY <1>8, <2>1 DEF OnePerJob
    <2>6. ASSUME NEW i \in DOMAIN vs, NEW k \in DOMAIN usage', vs[i] = usage'[k].dir PROVE FALSE
      <3>1. i \in 1..x /\ k \in 1..m /\ i = x + k
        BY <1>7, <1>8, <2>1, <2>6 DEF OnePerJob
      <3> QED
        BY <1>6, <3>1
    <2> QED
      BY <1>7, <2>2, <2>3, <2>4, <2>5, <2>6 DEF OnePerJob
  <1>14. local' = [local EXCEPT ![t].at = IF vs = <<>> THEN After(t) ELSE "evict", ![t].victims = vs]
    BY <1>3, <1>8 DEF vs
  <1>15. Recording(t, e, vs)
    BY <1>2, <1>5, <1>7, <1>8, <1>9, <1>10, <1>11, <1>12, <1>13, <1>14 DEF Recording, e
  <1> QED
    BY <1>15

----------------------------------------------------------------------------
(* The types, continued: evictions, and handlers.                          *)

\* A thread that evicts moves within _record or out of it.
LEMMA EvictMove ==
  ASSUME Safe, NEW t \in Threads, NEW l \in Locals, local' = [local EXCEPT ![t] = l],
         local[t].at \in {"record"} \union Evicting, l.at \in {After(t)} \union Evicting,
         l.dir = local[t].dir, l.at \in Evicting <=> l.victims # <<>>,
         disk' \in [Objects -> SUBSET Files], usage' \in Seq(Entries),
         setup' = setup, exportLock' = exportLock, root' = root, pc' = pc, held' = held, outcome' = outcome
  PROVE  Safe'
  <1>1. local[t].dir \in Objects /\ exportLock \in Handlers \union {None} /\ root \in {"up", "unlinked", "removed"}
    BY DEF Safe, StoreTypeOK, Evicting
  <1>2. l.at # "record" /\ l.at # "idle"
    BY DEF After, Evicting
  <1>3. StoreTypeOK' /\ Sized' /\ local'[t] = l /\ \A u \in Threads \ {t} : local'[u] = local[u]
    BY <1>1, <1>2, MoveSafe
  <1>4. CASE t = Worker
    <2>1. Locked'
      BY <1>3, <1>4, WorkerMoves DEF Safe
    <2>2. l.at \in {"return"} \union Evicting
      BY <1>4 DEF After
    <2>3. Working'
      BY <1>3, <1>4, <2>2 DEF Safe, Working, W, Evicting
    <2> QED
      BY <1>3, <2>1, <2>3 DEF Safe
  <1>5. CASE t # Worker
    <2>1. t \in Handlers /\ l.at \in {"unlock"} \union Evicting
      BY <1>5 DEF Threads, After
    <2>2. exportLock = t
      BY <2>1 DEF Safe, Locked, Locking, Evicting
    <2>3. l.at \in Locking
      BY <2>1 DEF Locking, Evicting
    <2>4. Working' /\ Locked'
      BY <1>3, <2>1, <2>2, <2>3, HandlerMoves DEF Safe
    <2> QED
      BY <1>3, <2>4 DEF Safe
  <1> QED
    BY <1>4, <1>5

\* The head and the tail of a victim list.
LEMMA VictimsTyped ==
  ASSUME StoreTypeOK, NEW t \in Threads, local[t].at \in Evicting
  PROVE  /\ local[t] \in Locals /\ local[t].victims \in Seq(Objects) /\ Len(local[t].victims) \in Nat \ {0}
         /\ Head(local[t].victims) = local[t].victims[1] /\ Head(local[t].victims) \in Objects
         /\ DOMAIN local[t].victims = 1..Len(local[t].victims)
         /\ Tail(local[t].victims) \in Seq(Objects) /\ DOMAIN Tail(local[t].victims) = 1..(Len(local[t].victims) - 1)
         /\ \A i \in 1..(Len(local[t].victims) - 1) : Tail(local[t].victims)[i] = local[t].victims[i + 1]
         /\ Tail(local[t].victims) = <<>> <=> Len(local[t].victims) = 1
  <1>1. local[t] \in Locals /\ local[t].victims # <<>>
    BY DEF StoreTypeOK
  <1>2. local[t].victims \in Seq(Objects)
    BY <1>1 DEF Locals
  <1>3. Len(local[t].victims) \in Nat \ {0} /\ DOMAIN local[t].victims = 1..Len(local[t].victims)
    BY <1>1, <1>2, EmptySeq, LenProperties
  <1>4. /\ Tail(local[t].victims) \in Seq(Objects) /\ Len(Tail(local[t].victims)) = Len(local[t].victims) - 1
        /\ \A i \in 1..(Len(local[t].victims) - 1) : Tail(local[t].victims)[i] = local[t].victims[i + 1]
        /\ Head(local[t].victims) = local[t].victims[1] /\ Head(local[t].victims) \in Objects
    BY <1>1, <1>2, HeadTailProperties
  <1>5. DOMAIN Tail(local[t].victims) = 1..(Len(local[t].victims) - 1)
    BY <1>4, LenProperties
  <1>6. Tail(local[t].victims) = <<>> <=> Len(local[t].victims) = 1
    <2> DEFINE v == Tail(local[t].victims)
    <2>1. v \in Seq(Objects) /\ Len(v) = Len(local[t].victims) - 1
      BY <1>4
    <2> HIDE DEF v
    <2>2. v = <<>> <=> Len(v) = 0
      BY <2>1, EmptySeq
    <2>3. Len(v) = 0 <=> Len(local[t].victims) = 1
      BY <1>3, <2>1
    <2> QED
      BY <2>2, <2>3 DEF v
  <1> QED
    BY <1>1, <1>2, <1>3, <1>4, <1>5, <1>6

\* The steps of _record and of the evictions.
LEMMA EvictStepSafe == ASSUME IInv, Safe, NEW t \in Threads, EvictStep(t) PROVE Safe'
  <1>0. /\ local[t] \in Locals /\ disk \in [Objects -> SUBSET Files] /\ usage \in Seq(Entries)
        /\ After(t) \in Places /\ After(t) \notin Evicting
    BY DEF Safe, StoreTypeOK, After, Places, Evicting
  <1>1. CASE Record(t)
    <2>1. PICK e, vs : Recording(t, e, vs)
      BY <1>1, RecordIs
    <2> DEFINE p == IF vs = <<>> THEN After(t) ELSE "evict"
               l == [local[t] EXCEPT !.at = p, !.victims = vs]
    <2>2. vs \in Seq(Objects) /\ p \in Places /\ usage' \in Seq(Entries) /\ p \in {After(t)} \union Evicting
          /\ (p \in Evicting <=> vs # <<>>)
      BY <1>0, <2>1 DEF Recording, Places, Evicting
    <2>3. local' = [local EXCEPT ![t] = l]
      BY <1>0, <2>1 DEF Recording, Safe, StoreTypeOK
    <2> HIDE DEF p
    <2>4. l \in Locals
      BY <1>0, <2>2, LocalMoved
    <2>5. l.at = p /\ l.victims = vs /\ l.dir = local[t].dir
      BY <1>0 DEF Locals
    <2>6. /\ local[t].at = "record" /\ disk' \in [Objects -> SUBSET Files]
          /\ setup' = setup /\ exportLock' = exportLock /\ root' = root /\ pc' = pc /\ held' = held /\ outcome' = outcome
      BY <1>0, <1>1 DEF Record, At, vars
    <2> HIDE DEF l
    <2> QED
      BY <2>2, <2>3, <2>4, <2>5, <2>6, EvictMove
  <1>2. ASSUME NEW p \in Evicting, Goto(t, p), local[t].at \in Evicting, disk' \in [Objects -> SUBSET Files],
               UNCHANGED <<setup, usage, exportLock, root, pc, held, outcome>>
        PROVE  Safe'
    <2> DEFINE l == [local[t] EXCEPT !.at = p]
    <2>1. local' = [local EXCEPT ![t] = l] /\ p \in Places
      BY <1>2 DEF Goto, Evicting, Places
    <2>2. l \in Locals
      BY <1>0, <2>1, LocalMoved
    <2>3. l.at = p /\ l.victims = local[t].victims /\ l.dir = local[t].dir /\ local[t].victims # <<>>
      BY <1>0, <1>2 DEF Locals, Safe, StoreTypeOK
    <2> HIDE DEF l
    <2> QED
      BY <1>0, <1>2, <2>1, <2>2, <2>3, EvictMove
  <1>3. CASE EvictVictim(t)
    <2>1. UNCHANGED <<setup, disk, usage, exportLock, root, pc, held, outcome>> /\ Goto(t, "unlink") /\ local[t].at = "evict"
      BY <1>3 DEF EvictVictim, Evict, At, vars
    <2> QED
      BY <1>0, <1>2, <2>1 DEF Evicting
  <1>4. CASE UnlinkVictim(t)
    <2>1. UNCHANGED <<setup, usage, exportLock, root, pc, held, outcome>> /\ Goto(t, "rmdir") /\ local[t].at = "unlink"
      BY <1>4 DEF UnlinkVictim, At, vars
    <2>2. disk' \in [Objects -> SUBSET Files]
      BY <1>0, <1>4 DEF UnlinkVictim, Put
    <2> QED
      BY <1>2, <2>1, <2>2 DEF Evicting
  <1>5. CASE RmdirVictim(t)
    <2> DEFINE v == Tail(local[t].victims)
               p == IF Len(local[t].victims) = 1 THEN After(t) ELSE "evict"
               l == [local[t] EXCEPT !.victims = v, !.at = p]
    <2>1. local[t].at = "rmdir"
      BY <1>5 DEF RmdirVictim, At
    <2>2. v \in Seq(Objects) /\ (v = <<>> <=> Len(local[t].victims) = 1)
      BY <2>1, VictimsTyped DEF Safe, Evicting
    <2>3. local' = [local EXCEPT ![t] = l]
      BY <1>0, <1>5 DEF RmdirVictim, Safe, StoreTypeOK
    <2>4. p \in Places /\ p \in {After(t)} \union Evicting /\ (p \in Evicting <=> v # <<>>)
      BY <1>0, <2>2 DEF Places, Evicting
    <2> HIDE DEF p, v
    <2>5. l \in Locals
      BY <1>0, <2>2, <2>4, LocalMoved
    <2>6. l.at = p /\ l.victims = v /\ l.dir = local[t].dir
      BY <1>0 DEF Locals
    <2>7. disk' \in [Objects -> SUBSET Files]
      BY <1>0, <1>5 DEF RmdirVictim, Put
    <2>8. usage' = usage /\ setup' = setup /\ exportLock' = exportLock /\ root' = root
          /\ pc' = pc /\ held' = held /\ outcome' = outcome /\ local[t].at \in Evicting
      BY <1>5, <2>1 DEF RmdirVictim, vars, Evicting
    <2> HIDE DEF l
    <2> QED
      BY <1>0, <2>3, <2>4, <2>5, <2>6, <2>7, <2>8, EvictMove
  <1> QED
    BY <1>1, <1>3, <1>4, <1>5 DEF EvictStep

\* A move of a handler, which may take or leave the lock.
LEMMA ServeMove ==
  ASSUME Safe, NEW h \in Handlers, NEW l \in Locals, local' = [local EXCEPT ![h] = l],
         l.at \in {"idle", "lock", "check", "touch"} \union Locking, l.victims = <<>>, l.at \notin Evicting,
         l.at # "idle" => l.dir \in Objects, l.at = "record" => l.size <= setup.artifact,
         exportLock' = h <=> l.at \in Locking,
         exportLock' = exportLock \/ {exportLock, exportLock'} \subseteq {h, None},
         disk' \in [Objects -> SUBSET Files], usage' \in Seq(Entries),
         setup' = setup, root' = root, pc' = pc, held' = held, outcome' = outcome
  PROVE  Safe'
  <1>1. exportLock' \in Handlers \union {None} /\ root \in {"up", "unlinked", "removed"} /\ h \in Threads
    BY WorkerIsNoHandler DEF Safe, StoreTypeOK
  <1>2. StoreTypeOK' /\ Sized' /\ local'[h] = l /\ \A u \in Threads \ {h} : local'[u] = local[u]
    BY <1>1, MoveSafe
  <1>3. Working' /\ Locked'
    BY <1>2, HandlerMoves DEF Safe
  <1> QED
    BY <1>2, <1>3 DEF Safe

\* A handler moves on without another change to its variables.
LEMMA ServeGoes ==
  ASSUME Safe, NEW h \in Handlers, NEW p \in {"lock", "check", "touch", "create", "copy", "replace", "unlock"}, Goto(h, p),
         local[h].at # "idle", local[h].at \notin Evicting,
         exportLock' = h <=> p \in Locking,
         exportLock' = exportLock \/ {exportLock, exportLock'} \subseteq {h, None},
         disk' \in [Objects -> SUBSET Files], usage' \in Seq(Entries),
         setup' = setup, root' = root, pc' = pc, held' = held, outcome' = outcome
  PROVE  Safe'
  <1> DEFINE l == [local[h] EXCEPT !.at = p]
  <1>1. local[h] \in Locals /\ local[h].dir \in Objects /\ local[h].victims = <<>>
    BY WorkerIsNoHandler DEF Safe, StoreTypeOK
  <1>2. p \in Places /\ p \in {"idle", "lock", "check", "touch"} \union Locking /\ p \notin Evicting /\ p # "record"
    BY DEF Places, Locking, Evicting
  <1>3. local' = [local EXCEPT ![h] = l]
    BY DEF Goto
  <1>4. l \in Locals
    BY <1>1, <1>2, LocalMoved
  <1>5. l.at = p /\ l.dir = local[h].dir /\ l.victims = <<>>
    BY <1>1 DEF Locals
  <1> HIDE DEF l
  <1> QED
    BY <1>1, <1>2, <1>3, <1>4, <1>5, ServeMove

\* A handler that leaves the with block by an exception.
LEMMA AbortSafe ==
  ASSUME Safe, NEW h \in Handlers, Abort(h), local[h].at \in Locking,
         disk' \in [Objects -> SUBSET Files], usage' \in Seq(Entries),
         setup' = setup, root' = root, pc' = pc, held' = held, outcome' = outcome
  PROVE  Safe'
  <1>1. exportLock = h /\ exportLock' = None /\ exportLock' # h /\ local' = [local EXCEPT ![h] = Idle]
    BY WorkerIsNoHandler DEF Safe, Locked, Abort
  <1>2. Idle.at = "idle" /\ Idle.victims = <<>> /\ Idle.at \notin Locking /\ Idle.at \notin Evicting
    BY DEF Idle, Locking, Evicting
  <1> QED
    BY <1>1, <1>2, IdleIsLocal, ServeMove

\* The steps of a handler that serves a file.
LEMMA ServeStepSafe == ASSUME IInv, Safe, NEW h \in Handlers, ServeStep(h) PROVE Safe'
  <1> USE WorkerIsNoHandler
  <1>0. /\ local[h] \in Locals /\ disk \in [Objects -> SUBSET Files] /\ usage \in Seq(Entries)
        /\ local[h].at # "idle" => local[h].dir \in Objects
        /\ exportLock = h <=> local[h].at \in Locking
        /\ h # None /\ setup.artifact \in Nat
    BY ResultStoreAssumption DEF ResultStoreAssumption, Safe, StoreTypeOK, Locked
  <1>1. ASSUME ExportStep(h) PROVE setup' = setup /\ usage' \in Seq(Entries) /\ root' = root /\ pc' = pc /\ held' = held /\ outcome' = outcome
    BY <1>0, <1>1 DEF ExportStep, vars
  <1>2. CASE ExportStep(h) /\ LockExport(h)
    <2> DEFINE p == IF disk[local[h].dir] \intersect Archives # {} THEN "unlock" ELSE "create"
               b == "result" \in disk[local[h].dir]
               l == [local[h] EXCEPT !.at = p, !.whole = b]
    <2>1. local[h].at = "lock" /\ exportLock = None /\ exportLock' = h /\ disk' = disk /\ local' = [local EXCEPT ![h] = l]
      BY <1>2 DEF LockExport, At, Safe, StoreTypeOK
    <2>2. p \in Places /\ p \in Locking /\ p \notin Evicting /\ p # "record" /\ p # "idle" /\ b \in BOOLEAN
      BY DEF Places, Locking, Evicting
    <2> HIDE DEF p, b
    <2>3. l \in Locals
      BY <1>0, <2>2, LocalMoved
    <2>4. l.at = p /\ l.dir = local[h].dir /\ l.victims = local[h].victims /\ local[h].victims = <<>>
      BY <1>0, <2>1 DEF Locals, Safe, StoreTypeOK, Evicting
    <2> HIDE DEF l
    <2>5. {exportLock, exportLock'} \subseteq {h, None} /\ l.dir \in Objects /\ l.victims = <<>>
      BY <1>0, <2>1, <2>4
    <2> QED
      BY <1>0, <1>1, <1>2, <2>1, <2>2, <2>3, <2>4, <2>5, ServeMove
  <1>3. CASE ExportStep(h) /\ CreatePartial(h)
    <2>1. local[h].at = "create" /\ local[h].at \in Locking /\ local[h].at \notin Evicting
      BY <1>3 DEF CreatePartial, At, Locking, Evicting
    <2>2. disk' \in [Objects -> SUBSET Files]
      BY <1>0, <1>3, <2>1 DEF CreatePartial, Put, Files
    <2>3. CASE "dir" \in disk[local[h].dir]
      <3>1. Goto(h, "copy") /\ exportLock' = exportLock /\ "copy" \in Locking
        BY <1>3, <2>3 DEF CreatePartial, Locking
      <3> QED
        BY <1>0, <1>1, <1>3, <2>1, <2>2, <3>1, ServeGoes
    <2>4. CASE "dir" \notin disk[local[h].dir]
      <3>1. Abort(h)
        BY <1>3, <2>4 DEF CreatePartial
      <3> QED
        BY <1>1, <1>3, <2>1, <2>2, <3>1, AbortSafe
    <2> QED
      BY <2>3, <2>4
  <1>4. CASE ExportStep(h) /\ CopyResult(h)
    <2>1. local[h].at = "copy" /\ local[h].at \in Locking /\ local[h].at \notin Evicting /\ disk' = disk
      BY <1>4 DEF CopyResult, At, Locking, Evicting
    <2>2. CASE local[h].whole => "result" \in disk[local[h].dir]
      <3>1. Goto(h, "replace") /\ exportLock' = exportLock /\ "replace" \in Locking
        BY <1>4, <2>2 DEF CopyResult, Locking
      <3> QED
        BY <1>0, <1>1, <1>4, <2>1, <3>1, ServeGoes
    <2>3. CASE ~(local[h].whole => "result" \in disk[local[h].dir])
      <3>1. Abort(h)
        BY <1>4, <2>3 DEF CopyResult
      <3> QED
        BY <1>0, <1>1, <1>4, <2>1, <3>1, AbortSafe
    <2> QED
      BY <2>2, <2>3
  <1>5. CASE ExportStep(h) /\ ReplaceArchive(h)
    <2> DEFINE d == local[h].dir
               fits == Bytes(d) <= setup.artifact
               n == Bytes(d)
               l == [local[h] EXCEPT !.at = "record", !.size = n]
    <2>1. local[h].at = "replace" /\ local[h].at \in Locking /\ local[h].at \notin Evicting /\ d \in Objects
      BY <1>0, <1>5 DEF ReplaceArchive, At, Locking, Evicting
    <2>2. disk' \in [Objects -> SUBSET Files]
      BY <1>0, <1>5, <2>1 DEF ReplaceArchive, Put, Files
    <2>3. CASE fits /\ "partial" \in disk[d]
      <3>1. local' = [local EXCEPT ![h] = l] /\ exportLock' = exportLock
        BY <1>5, <2>3 DEF ReplaceArchive
      <3>2. n \in Nat /\ n <= setup.artifact
        <4>1. d[1] \in Jobs
          BY <2>1 DEF Objects
        <4> QED
          BY <2>3, <4>1, ResultStoreAssumption DEF ResultStoreAssumption, Bytes
      <3> HIDE DEF n, d
      <3>3. "record" \in Places /\ "record" \in Locking /\ "record" \notin Evicting
        BY DEF Places, Locking, Evicting
      <3>4. l \in Locals
        BY <1>0, <3>2, <3>3, LocalMoved
      <3>5. l.at = "record" /\ l.dir = local[h].dir /\ l.victims = local[h].victims /\ l.size = n /\ local[h].victims = <<>>
        BY <1>0, <2>1 DEF Locals, Safe, StoreTypeOK
      <3> HIDE DEF l
      <3> QED
        BY <1>0, <1>1, <1>5, <2>1, <2>2, <3>1, <3>2, <3>3, <3>4, <3>5, ServeMove DEF d
    <2>4. CASE ~(fits /\ "partial" \in disk[d])
      <3>1. Abort(h)
        BY <1>5, <2>4 DEF ReplaceArchive
      <3> QED
        BY <1>1, <1>5, <2>1, <2>2, <3>1, AbortSafe
    <2> QED
      BY <2>3, <2>4
  <1>6. CASE ExportStep(h) /\ UnlockExport(h)
    <2>1. /\ local[h].at = "unlock" /\ local[h].at \in Locking /\ local[h].at \notin Evicting /\ disk' = disk
          /\ exportLock' = None /\ Goto(h, "check") /\ "check" \notin Locking
      BY <1>6 DEF UnlockExport, At, Locking, Evicting
    <2>2. {exportLock, exportLock'} \subseteq {h, None}
      BY <1>0, <2>1
    <2> QED
      BY <1>0, <1>1, <1>6, <2>1, <2>2, ServeGoes
  <1>9. CASE ExportStep(h) /\ FailExport(h)
    <2>1. local[h].at \in Locking /\ local[h].at \notin Evicting /\ disk' = disk /\ Abort(h)
      BY <1>9 DEF FailExport, Locking, Evicting
    <2> QED
      BY <1>0, <1>1, <1>9, <2>1, AbortSafe
  <1>7. CASE CheckFile(h)
    <2>1. /\ local[h].at = "check" /\ local[h].at \notin Locking /\ local[h].at \notin Evicting
          /\ UNCHANGED <<setup, disk, usage, exportLock, root, pc, held, outcome>>
      BY <1>7 DEF CheckFile, At, Locking, Evicting, vars
    <2>2. CASE local' = [local EXCEPT ![h] = [local[h] EXCEPT !.at = "touch"]]
      <3>1. Goto(h, "touch") /\ "touch" \notin Locking
        BY <2>2 DEF Goto, Locking
      <3> QED
        BY <1>0, <2>1, <3>1, ServeGoes
    <2>3. CASE local' = [local EXCEPT ![h] = Idle]
      <3>1. Idle.at = "idle" /\ Idle.victims = <<>> /\ Idle.at \notin Locking /\ Idle.at \notin Evicting
        BY DEF Idle, Locking, Evicting
      <3> QED
        BY <1>0, <2>1, <2>3, <3>1, IdleIsLocal, ServeMove
    <2> QED
      BY <1>7, <2>2, <2>3 DEF CheckFile, Safe, StoreTypeOK
  <1>8. CASE Touch(h)
    <2>1. /\ local[h].at = "touch" /\ local[h].at \notin Locking /\ local' = [local EXCEPT ![h] = Idle]
          /\ UNCHANGED <<setup, disk, exportLock, root, pc, held, outcome>>
      BY <1>8 DEF Touch, At, Locking, vars
    <2>2. usage' \in Seq(Entries)
      <3>1. ASSUME NEW job, Accounts(job) PROVE Append(Without(usage, Place(job)), usage[Place(job)]) \in Seq(Entries)
        <4>1. Place(job) \in 1..Len(usage) /\ Without(usage, Place(job)) \in Seq(Entries)
          BY <1>0, <3>1, PoppedIs
        <4>2. usage[Place(job)] \in Entries
          BY <1>0, <4>1, ElementOfSeq
        <4> QED
          BY <4>1, <4>2, AppendProperties
      <3> QED
        BY <1>0, <1>8, <3>1 DEF Touch
    <2>3. Idle.at = "idle" /\ Idle.victims = <<>> /\ Idle.at \notin Locking /\ Idle.at \notin Evicting
      BY DEF Idle, Locking, Evicting
    <2> QED
      BY <1>0, <2>1, <2>2, <2>3, IdleIsLocal, ServeMove
  <1> QED
    BY <1>2, <1>3, <1>4, <1>5, <1>6, <1>7, <1>8, <1>9 DEF ServeStep, ExportStep

----------------------------------------------------------------------------
(* The store runs the job queue: every step of it is one of the queue's.   *)

\* Every step of the store is one of the queue's, or none of its.
LEMMA StoreStepIsStep == ASSUME Safe, [StoreNext]_allVars PROVE [Next]_vars
  <1>1. CASE QueueStep
    BY <1>1 DEF QueueStep, Next
  <1>2. CASE ExecuteStep
    <2>1. "invalid" \in Outcomes \ {"cancelled"} /\ "unexpected" \in Outcomes \ {"cancelled"} /\ "done" \in Outcomes \ {"cancelled"}
      BY DEF Outcomes
    <2>2. ASSUME NEW p \in Phases, ReportPhase(p) PROVE Next
      BY <2>2 DEF ReportPhase, Next
    <2>3. ASSUME NEW o \in {"invalid", "unexpected"}, Raise(o) PROVE Next
      BY <2>1, <2>3 DEF Raise, Next
    <2>4. CASE CheckSize
      BY <2>1, <2>4 DEF CheckSize, Next
    <2>5. CASE ReturnResult
      BY <2>1, <2>5 DEF ReturnResult, Next
    <2>6. CASE FinishJob
      BY <2>6 DEF FinishJob, Next
    <2>7. CASE MakeDirectory \/ Publish \/ Clean
      BY <2>7 DEF MakeDirectory, Publish, Clean
    <2> QED
      BY <1>2, <2>2, <2>3, <2>4, <2>5, <2>6, <2>7 DEF ExecuteStep
  <1>3. ASSUME NEW t \in Threads, EvictStep(t) PROVE [Next]_vars
    <2>1. CASE EvictVictim(t)
      <3>1. Head(local[t].victims) \in Objects
        BY <2>1, VictimsTyped DEF EvictVictim, At, Evicting, Safe
      <3>2. Head(local[t].victims)[1] \in Jobs
        BY <3>1 DEF Objects
      <3> QED
        BY <2>1, <3>2 DEF EvictVictim, Next
    <2>2. CASE Record(t) \/ UnlinkVictim(t) \/ RmdirVictim(t)
      BY <2>2 DEF Record, UnlinkVictim, RmdirVictim
    <2> QED
      BY <1>3, <2>1, <2>2 DEF EvictStep
  <1>4. ASSUME NEW h \in Handlers, ServeStep(h) PROVE [Next]_vars
    BY <1>4 DEF ServeStep, ExportStep, CheckFile, Touch
  <1>5. ASSUME NEW h \in Handlers, NEW j \in Jobs, NEW file \in {"result", "zip"}, Ask(h, j, file) PROVE [Next]_vars
    BY <1>5 DEF Ask
  <1>6. CASE UnlinkRoot \/ RmdirRoot
    BY <1>6 DEF UnlinkRoot, RmdirRoot
  <1>7. CASE UNCHANGED allVars
    BY <1>7 DEF allVars
  <1> QED
    BY <1>1, <1>2, <1>3, <1>4, <1>5, <1>6, <1>7 DEF StoreNext

\* How a step of the queue changes what is known of its jobs: a job becomes done by its own run only,
\* a done one is only ever evicted, and an object that is past stays so.
LEMMA JobsMove ==
  ASSUME IInv, [Next]_vars, NEW j \in Jobs
  PROVE  /\ jobs[j].made \in Nat /\ jobs'[j].made \in Nat /\ jobs[j].made <= jobs'[j].made
         /\ jobs'[j].made # jobs[j].made => jobs[j].state \notin {"done", "queued", "running"} /\ jobs'[j].state = "queued"
         /\ jobs'[j].state = "done" /\ jobs[j].state = "done" => jobs'[j].path = jobs[j].path
         /\ jobs'[j].state = "done" /\ jobs[j].state # "done" =>
              /\ Finish /\ outcome = "done" /\ held = Object(j) /\ jobs'[j].path = held[2]
              /\ jobs'[j].made = jobs[j].made /\ jobs[j].state = "running"
         /\ jobs[j].state = "done" /\ jobs'[j].state # "done" => Evict(j) /\ jobs'[j].state = "evicted"
         /\ jobs'[j].state \in {"queued", "running"} =>
              jobs[j].state \in {"queued", "running"} \/ jobs'[j].made # jobs[j].made
  <1>0. jobs[j] \in Records /\ jobs'[j] \in Records
    BY StepIInv DEF IInv, TypeOK
  <1>1. jobs[j].made \in Nat /\ jobs'[j].made \in Nat
    BY <1>0, JobQueueAssumption DEF Records, JobQueueAssumption
  <1>2. CASE jobs'[j] = jobs[j]
    BY <1>1, <1>2
  <1>3. CASE Submit(j)
    <2>1. jobs'[j].made = jobs[j].made + 1 /\ jobs'[j].state = "queued" /\ jobs[j].state \in {"absent", "failed", "evicted"}
      BY <1>3 DEF IInv, TypeOK, Submit, Submittable, Queue
    <2> QED
      BY <1>1, <2>1
  <1>4. CASE Evict(j)
    <2>1. jobs'[j] = [jobs[j] EXCEPT !.state = "evicted", !.path = 0] /\ jobs[j].state = "done"
      BY <1>4 DEF Evict, IInv, TypeOK
    <2>2. jobs'[j].made = jobs[j].made /\ jobs'[j].state = "evicted"
      BY <1>0, <2>1 DEF Records
    <2> QED
      BY <1>1, <1>4, <2>1, <2>2
  <1>5. CASE Start /\ jobs'[j] # jobs[j]
    <2>1. held \in Objects /\ held[1] \in Jobs /\ held[1] = j
      BY <1>5, NoneIsNoObject DEF IInv, TypeOK, Holding, Start, Objects
    <2>2. jobs'[j] = [jobs[j] EXCEPT !.state = "running", !.phase = None, !.error = "none"]
      BY <1>5, <2>1 DEF Start, IInv, TypeOK
    <2>3. held = Object(j) /\ jobs[j].state = "queued"
      <3>1. Taken = held
        BY <1>5 DEF Start, Taken
      <3> QED
        BY <2>1, <3>1 DEF IInv, NoJobLost
    <2>4. jobs'[j].made = jobs[j].made /\ jobs'[j].state = "running"
      BY <1>0, <2>2 DEF Records
    <2> QED
      BY <1>1, <2>3, <2>4
  <1>6. CASE Finish /\ jobs'[j] # jobs[j]
    <2>1. /\ held \in Objects /\ held[1] \in Jobs /\ held[1] = j /\ pc = "run" /\ outcome \in Outcomes
          /\ jobs'[j] = Settled(jobs[j], held)
      BY <1>6, NoneIsNoObject DEF IInv, TypeOK, Holding, Finish, Objects
    <2>2. held = Object(j) /\ jobs[j].state = "running"
      BY <2>1, ObjectIsNotNone DEF IInv, NoJobLost
    <2>3. /\ jobs'[j].made = jobs[j].made
          /\ IF outcome = "done" THEN jobs'[j].state = "done" /\ jobs'[j].path = held[2] ELSE jobs'[j].state = "failed"
      BY <1>0, <2>1 DEF Settled, Records
    <2> QED
      BY <1>1, <1>6, <2>2, <2>3
  <1>7. ASSUME NEW p \in Phases, Report(p), jobs'[j] # jobs[j]
        PROVE  jobs'[j].made = jobs[j].made /\ jobs'[j].state = jobs[j].state /\ jobs'[j].path = jobs[j].path
    <2>1. jobs'[j] = [jobs[j] EXCEPT !.phase = p]
      <3>1. current[1] \in Jobs
        BY <1>7, NoneIsNoObject DEF IInv, TypeOK, Report, Objects
      <3> QED
        BY <1>7, <3>1 DEF IInv, TypeOK, Report
    <2> QED
      BY <1>0, <2>1 DEF Records
  <1>8. CASE jobs'[j] # jobs[j]
    <2>1. ASSUME NEW k \in Jobs, Submit(k) \/ Evict(k), k # j PROVE FALSE
      BY <1>8, <2>1 DEF Submit, Queue, Evict, IInv, TypeOK
    <2>2. \/ Submit(j) \/ Evict(j) \/ Start \/ Finish \/ \E p \in Phases : Report(p)
      BY <1>8, <2>1 DEF Next, Get, Begin, Abandon, Return, Close, PutNone, Join, vars
    <2> QED
      BY <1>1, <1>3, <1>4, <1>5, <1>6, <1>7, <1>8, <2>2
  <1> QED
    BY <1>2, <1>8

\* Made is kept by the queue's steps.
LEMMA MadeStep == ASSUME IInv, Made, [Next]_vars PROVE Made'
  <1> SUFFICES ASSUME NEW j \in Jobs, jobs'[j].state = "done" PROVE jobs'[j].path \in 1..jobs'[j].made
    BY DEF Made
  <1>1. CASE jobs[j].state = "done"
    BY <1>1, JobsMove DEF Made
  <1>2. CASE jobs[j].state # "done"
    <2>1. held = Object(j) /\ jobs'[j].path = held[2] /\ jobs'[j].made = jobs[j].made /\ Finish
      BY <1>2, JobsMove
    <2>2. held \in Objects
      BY <2>1, NoneIsNoObject DEF Finish, IInv, TypeOK, Holding
    <2>3. held[2] = jobs[j].made /\ held[2] \in Nat \ {0}
      BY <2>1, <2>2, JobQueueAssumption DEF Object, Objects, JobQueueAssumption
    <2> QED
      BY <2>1, <2>3
  <1> QED
    BY <1>1, <1>2

\* An object that is over stays over.
LEMMA PastStays == ASSUME IInv, [Next]_vars, NEW d \in Objects, Past(d) PROVE Past(d)'
  <1>1. d[1] \in Jobs /\ d[2] \in Nat
    BY JobQueueAssumption DEF Objects, JobQueueAssumption
  <1> QED
    BY <1>1, JobsMove DEF Past

\* The object that runs is not past.
LEMMA RunningIsNotPast == ASSUME IInv, pc = "run" PROVE held \in Objects /\ ~Past(held) /\ ~Done(held)
  <1>1. PICK j \in Jobs : held = Object(j) /\ jobs[j].state = "running"
    BY DEF IInv, NoJobLost
  <1>2. held \in Objects
    BY DEF IInv, TypeOK, Holding
  <1>3. held[1] = j /\ held[2] = jobs[j].made
    BY <1>1 DEF Object
  <1> QED
    BY <1>1, <1>2, <1>3 DEF Past, Done

\* A done object is past.
LEMMA DoneIsPast == ASSUME IInv, Made, NEW d \in Objects, Done(d) PROVE Past(d)
  <1>1. d[1] \in Jobs /\ jobs[d[1]] \in Records
    BY DEF Objects, IInv, TypeOK
  <1> QED
    BY <1>1, JobQueueAssumption DEF Past, Done, Made, Records, JobQueueAssumption

\* All steps.
LEMMA SafeStep == ASSUME IInv, Safe, Made, [StoreNext]_allVars PROVE Safe'
  <1>1. CASE QueueStep
    BY <1>1, QueueStepSafe
  <1>2. CASE ExecuteStep
    BY <1>2, ExecuteStepSafe
  <1>3. ASSUME NEW t \in Threads, EvictStep(t) PROVE Safe'
    BY <1>3, EvictStepSafe
  <1>4. ASSUME NEW h \in Handlers, ServeStep(h) PROVE Safe'
    BY <1>4, ServeStepSafe
  <1>5. ASSUME NEW h \in Handlers, NEW j \in Jobs, NEW file \in {"result", "zip"}, Ask(h, j, file) PROVE Safe'
    <2> DEFINE d == <<j, jobs[j].path>>
               p == IF file = "zip" THEN "lock" ELSE "check"
               l == [Idle EXCEPT !.at = p, !.dir = d, !.file = file]
    <2>1. local[h].at = "idle" /\ jobs[j].state = "done" /\ local' = [local EXCEPT ![h] = l]
          /\ UNCHANGED <<setup, disk, usage, exportLock, root, pc, held, outcome>>
      BY <1>5 DEF Ask, At, vars
    <2>2. d \in Objects
      <3>1. jobs[j] \in Records /\ jobs[j].path \in 1..jobs[j].made
        BY <2>1 DEF IInv, TypeOK, Made
      <3>2. jobs[j].path \in 1..MaxObjects
        BY <3>1, JobQueueAssumption DEF Records, JobQueueAssumption
      <3> QED
        BY <3>2 DEF Objects
    <2>3. p \in Places /\ p \in {"lock", "check"} /\ p \notin Locking /\ p \notin Evicting
      BY DEF Places, Locking, Evicting
    <2> HIDE DEF p, d
    <2>4. l \in Locals
      BY <2>2, <2>3, IdleIsLocal, LocalMoved
    <2>5. l.at = p /\ l.dir = d /\ l.victims = <<>>
      BY DEF Idle
    <2> HIDE DEF l
    <2>6. /\ disk \in [Objects -> SUBSET Files] /\ usage \in Seq(Entries)
          /\ exportLock # h
      BY <2>1 DEF Safe, StoreTypeOK, Locked, Locking
    <2> QED
      BY <2>1, <2>2, <2>3, <2>4, <2>5, <2>6, ServeMove
  <1>6. ASSUME UNCHANGED <<setup, usage, local, exportLock, pc, held, outcome>>,
               disk' \in [Objects -> SUBSET Files], root' \in {"up", "unlinked", "removed"}
        PROVE  Safe'
    <2>1. W' = W
      BY <1>6 DEF W
    <2> QED
      BY <1>6, <2>1 DEF Safe, StoreTypeOK, Working, Locked, Sized
  <1>7. CASE UnlinkRoot \/ RmdirRoot
    <2>1. disk \in [Objects -> SUBSET Files]
      BY DEF Safe, StoreTypeOK
    <2>2. disk' \in [Objects -> SUBSET Files] /\ root' \in {"unlinked", "removed"}
      BY <1>7, <2>1 DEF UnlinkRoot, RmdirRoot, Files
    <2> QED
      BY <1>6, <1>7, <2>2 DEF UnlinkRoot, RmdirRoot, vars
  <1>8. CASE UNCHANGED allVars
    BY <1>6, <1>8 DEF allVars, vars, storeVars, Safe, StoreTypeOK
  <1> QED
    BY <1>1, <1>2, <1>3, <1>4, <1>5, <1>7, <1>8 DEF StoreNext

\* What a handler was given stays past: the record of a later run cannot bring it back.
LEMMA AskedStep == ASSUME IInv, Safe, Made, Asked, [StoreNext]_allVars PROVE Asked'
  <1>1. [Next]_vars
    BY StoreStepIsStep
  <1> SUFFICES ASSUME NEW h \in Handlers, local'[h].at # "idle" PROVE Past(local[h].dir)'
    BY DEF Asked
  <1>2. local \in [Threads -> Locals] /\ h \in Threads /\ h # Worker
    BY WorkerIsNoHandler DEF Safe, StoreTypeOK
  <1>3. CASE local[h].at # "idle" /\ local'[h].dir = local[h].dir
    <2>1. PICK d \in Objects : d = local[h].dir
      BY <1>2, <1>3 DEF Safe, StoreTypeOK
    <2>2. Past(d)
      BY <1>3, <2>1 DEF Asked
    <2>3. Past(d)'
      BY <1>1, <2>2, PastStays
    <2> QED
      BY <1>3, <2>1, <2>3 DEF Past
  <1>4. ASSUME NEW j \in Jobs, NEW file \in {"result", "zip"}, Ask(h, j, file) PROVE Past(local[h].dir)'
    <2>1. local'[h].dir = <<j, jobs[j].path>> /\ jobs' = jobs /\ jobs[j].state = "done"
      BY <1>2, <1>4 DEF Ask, Idle, vars
    <2>2. jobs[j].path \in 1..jobs[j].made /\ jobs[j].made \in Nat
      BY <2>1, JobQueueAssumption DEF Made, IInv, TypeOK, Records, JobQueueAssumption
    <2> QED
      BY <2>1, <2>2 DEF Past
  <1>5. CASE local'[h] = local[h]
    BY <1>3, <1>5
  <1>6. CASE EvictStep(h) \/ ServeStep(h)
    <2>1. CASE Record(h)
      BY <1>2, <1>3, <2>1 DEF Record, At, Locals
    <2>2. CASE EvictVictim(h) \/ UnlinkVictim(h) \/ RmdirVictim(h)
      BY <1>2, <1>3, <2>2 DEF EvictVictim, UnlinkVictim, RmdirVictim, At, Goto, Locals
    <2>3. CASE local' = [local EXCEPT ![h] = Idle]
      BY <1>2, <2>3 DEF Idle
    <2>4. CASE ServeStep(h) /\ local' # [local EXCEPT ![h] = Idle]
      <3>1. CASE LockExport(h) \/ UnlockExport(h)
        BY <1>2, <1>3, <3>1 DEF LockExport, UnlockExport, At, Goto, Locals
      <3>2. CASE CreatePartial(h) \/ CopyResult(h)
        BY <1>2, <1>3, <2>4, <3>2 DEF CreatePartial, CopyResult, Abort, At, Goto, Locals
      <3>3. CASE ReplaceArchive(h)
        <4>1. local[h].at = "replace" /\ local' = [local EXCEPT ![h].at = "record", ![h].size = Bytes(local[h].dir)]
          BY <2>4, <3>3 DEF ReplaceArchive, Abort, At
        <4> QED
          BY <1>2, <1>3, <4>1 DEF Locals
      <3>6. CASE FailExport(h)
        BY <2>4, <3>6 DEF FailExport, Abort
      <3>4. CASE CheckFile(h)
        <4>1. local[h].at = "check" /\ local' = [local EXCEPT ![h] = [@ EXCEPT !.at = "touch"]]
          BY <2>4, <3>4 DEF CheckFile, At
        <4> QED
          BY <1>2, <1>3, <4>1 DEF Locals
      <3>5. CASE Touch(h)
        BY <2>4, <3>5 DEF Touch
      <3> QED
        BY <2>4, <3>1, <3>2, <3>3, <3>6, <3>4, <3>5 DEF ServeStep, ExportStep
    <2> QED
      BY <1>6, <2>1, <2>2, <2>3, <2>4 DEF EvictStep
  <1>7. ASSUME NEW t \in Threads \ {h}, EvictStep(t) \/ (t \in Handlers /\ ServeStep(t)) PROVE local'[h] = local[h]
    BY <1>2, <1>7 DEF EvictStep, ServeStep, ExportStep, Record, EvictVictim, UnlinkVictim, RmdirVictim, CheckFile, Touch, LockExport,
       CreatePartial, CopyResult, ReplaceArchive, FailExport, UnlockExport, Goto, Abort
  <1>8. CASE ExecuteStep
    BY <1>2, <1>5, <1>8 DEF ExecuteStep, MakeDirectory, ReportPhase, Publish, Raise, CheckSize, Clean, ReturnResult, FinishJob, Goto
  <1>9. ASSUME NEW k \in Handlers \ {h}, NEW j \in Jobs, NEW file \in {"result", "zip"}, Ask(k, j, file) PROVE local'[h] = local[h]
    BY <1>2, <1>9 DEF Ask
  <1>10. CASE QueueStep \/ UnlinkRoot \/ RmdirRoot \/ UNCHANGED allVars
    BY <1>5, <1>10 DEF QueueStep, UnlinkRoot, RmdirRoot, allVars, storeVars
  <1> QED
    BY <1>2, <1>4, <1>5, <1>6, <1>7, <1>8, <1>9, <1>10 DEF StoreNext, Threads

----------------------------------------------------------------------------
(* The session limit.                                                      *)

\* The bytes of no entries.
LEMMA TotalOfNone == Total(<<>>) = 0
  <1>1. <<>> \in Seq(Entries) /\ Len(<<>>) = 0
    BY EmptySeq
  <1>2. PICK f \in [0..0 -> Nat] : Sums(f, <<>>) /\ Total(<<>>) = f[0]
    BY <1>1, TotalIsSum
  <1> QED
    BY <1>1, <1>2 DEF Sums

\* A touched entry moves to the end, and the total stays.
LEMMA TouchIs ==
  ASSUME NEW job, usage \in Seq(Entries), Accounts(job)
  PROVE  /\ Append(Without(usage, Place(job)), usage[Place(job)]) \in Seq(Entries)
         /\ Total(Append(Without(usage, Place(job)), usage[Place(job)])) = Total(usage)
  <1> DEFINE p == Place(job)
             s == Without(usage, p)
             e == usage[p]
  <1>1. p \in 1..Len(usage) /\ s \in Seq(Entries) /\ Total(s) + e.size = Total(usage)
    BY PoppedIs
  <1>2. e \in Entries
    BY <1>1, ElementOfSeq
  <1> HIDE DEF s, e
  <1>3. Append(s, e) \in Seq(Entries) /\ Total(Append(s, e)) = Total(s) + e.size
    BY <1>1, <1>2, AppendProperties, TotalAppend
  <1> QED
    BY <1>1, <1>3, Zenon DEF s, e, p

\* Only _record adds bytes, and it makes room for them first.
LEMMA LimitStep == ASSUME Safe, UsageWithinLimit, [StoreNext]_allVars PROVE UsageWithinLimit'
  <1>1. CASE usage' = usage /\ setup' = setup
    BY <1>1 DEF UsageWithinLimit, Total
  <1>2. ASSUME NEW t \in Threads, Record(t) PROVE UsageWithinLimit'
    <2>1. setup' = setup /\ Total(usage') <= setup.session
      BY <1>2, RecordIs DEF Record, Recording
    <2> QED
      BY <2>1 DEF UsageWithinLimit, Total
  <1>3. ASSUME NEW h \in Handlers, Touch(h), usage' # usage PROVE UsageWithinLimit'
    <2>1. usage \in Seq(Entries) /\ setup' = setup
      BY <1>3 DEF Safe, StoreTypeOK, Touch
    <2>2. PICK job : Accounts(job) /\ usage' = Append(Without(usage, Place(job)), usage[Place(job)])
      BY <1>3 DEF Touch
    <2>3. Total(usage') = Total(usage)
      BY <2>1, <2>2, TouchIs
    <2>4. Total(usage') <= setup'.session
      BY <2>1, <2>3 DEF UsageWithinLimit
    <2> QED
      BY <2>4 DEF UsageWithinLimit, Total
  <1>4. setup' = setup
    BY DEF StoreNext, allVars, storeVars, QueueStep, ExecuteStep, MakeDirectory, ReportPhase, Publish, Raise, CheckSize, Clean, ReturnResult,
           FinishJob, EvictStep, Record, EvictVictim, UnlinkVictim, RmdirVictim, Ask, ServeStep, ExportStep, CheckFile, Touch,
           UnlinkRoot, RmdirRoot
  <1>5. usage' = usage \/ (\E t \in Threads : Record(t)) \/ \E h \in Handlers : Touch(h)
    BY DEF StoreNext, allVars, storeVars, QueueStep, ExecuteStep, MakeDirectory, ReportPhase, Publish, Raise, CheckSize, Clean, ReturnResult,
           FinishJob, EvictStep, EvictVictim, UnlinkVictim, RmdirVictim, Ask, ServeStep, ExportStep, CheckFile,
           UnlinkRoot, RmdirRoot
  <1> QED
    BY <1>1, <1>2, <1>3, <1>4, <1>5

\* Before any request the invariant holds: no directory, no entry, everyone idle (Api.__init__).
THEOREM InitGInv == StoreInit => IInv /\ GInv
  <1> SUFFICES ASSUME StoreInit PROVE IInv /\ GInv
    OBVIOUS
  <1>1. IInv
    BY InitIInv DEF StoreInit
  <1>2. /\ setup \in Setups /\ usage = <<>> /\ local = [t \in Threads |-> Idle] /\ exportLock = None /\ root = "up"
        /\ disk = [d \in Objects |-> {}] /\ pc = "get"
    BY DEF StoreInit, Init
  <1>3. Idle.at = "idle" /\ Idle.victims = <<>> /\ Idle \in Locals
    BY IdleIsLocal DEF Idle
  <1>4. StoreTypeOK
    <2>1. usage \in Seq(Entries)
      BY <1>2, EmptySeq
    <2>2. local \in [Threads -> Locals] /\ \A t \in Threads : local[t] = Idle
      BY <1>2, <1>3
    <2> QED
      BY <1>2, <1>3, <2>1, <2>2 DEF StoreTypeOK, Evicting
  <1>5. Working /\ Locked /\ Sized /\ Asked
    BY <1>2, <1>3, WorkerIsNoHandler DEF Working, Locked, Locking, Sized, Asked, W
  <1>6. Made
    BY DEF StoreInit, Init, Made
  <1>7. UsageWithinLimit
    <2>1. setup.session \in Nat
      BY <1>2, ResultStoreAssumption DEF ResultStoreAssumption
    <2>2. Total(usage) = 0
      BY <1>2, TotalOfNone
    <2> QED
      BY <2>1, <2>2 DEF UsageWithinLimit
  <1> QED
    BY <1>1, <1>4, <1>5, <1>6, <1>7 DEF GInv

\* Every step keeps the invariants of the queue and of the store.
LEMMA StepGInv == IInv /\ GInv /\ [StoreNext]_allVars => IInv' /\ GInv' /\ [Next]_vars
  <1> SUFFICES ASSUME IInv, GInv, [StoreNext]_allVars PROVE IInv' /\ GInv' /\ [Next]_vars
    OBVIOUS
  <1>1. Safe /\ Made /\ Asked /\ UsageWithinLimit
    BY DEF GInv, Safe
  <1>2. [Next]_vars
    BY <1>1, StoreStepIsStep
  <1>3. IInv' /\ Made'
    BY <1>1, <1>2, StepIInv, MadeStep
  <1>4. Safe' /\ Asked' /\ UsageWithinLimit'
    BY <1>1, SafeStep, AskedStep, LimitStep
  <1> QED
    BY <1>2, <1>3, <1>4 DEF GInv, Safe

\* The queue's invariant and the store's hold throughout: above all, only the export lock's holder is in
\* _export's with block, and the worker is where the queue believes it to be (_export, _execute).
THEOREM StoreInvariance == StoreSpec => [](IInv /\ GInv)
  BY InitGInv, StepGInv, PTL DEF StoreSpec

\* The worker, the handlers and whoever evicts drive the job queue by its own operations only, so
\* all that is proved of it holds in the app (Api on JobQueue).
THEOREM QueueKept == StoreSpec => Spec
  <1>1. StoreInit => Init
    BY DEF StoreInit
  <1> QED
    BY <1>1, InitGInv, StepGInv, PTL DEF StoreSpec, Spec

\* What is accounted never exceeds the session limit, with any number of handlers, of any sizes (_record).
THEOREM LimitKept == StoreSpec => []UsageWithinLimit
  <1>1. GInv => UsageWithinLimit
    BY DEF GInv
  <1> QED
    BY <1>1, StoreInvariance, PTL

----------------------------------------------------------------------------
(* The accounting while no directory that is removed is built in: frames.  *)

\* A victim has a place in somebody's list.
LEMMA VictimsAre ==
  /\ \A v : v \in Victims <=> \E t \in Threads : \E i \in DOMAIN local[t].victims : v = local[t].victims[i]
  /\ \A v : v \in Victims' <=> \E t \in Threads : \E i \in DOMAIN local'[t].victims : v = local'[t].victims[i]
  <1>1. \A v : v \in Victims <=> \E t \in Threads : \E i \in DOMAIN local[t].victims : v = local[t].victims[i]
    BY DEF Victims
  <1>2. \A v : v \in Victims' <=> \E t \in Threads : \E i \in DOMAIN local'[t].victims : v = local'[t].victims[i]
    BY DEF Victims
  <1> QED
    BY <1>1, <1>2

\* An accounted directory has an entry.
LEMMA AccountedAre ==
  /\ \A d : d \in Accounted <=> \E i \in DOMAIN usage : d = usage[i].dir
  /\ \A d : d \in Accounted' <=> \E i \in DOMAIN usage' : d = usage'[i].dir
  BY DEF Accounted

\* What follows from the types for the worker.
LEMMA Typed ==
  ASSUME StoreTypeOK
  PROVE  /\ \A i \in DOMAIN usage : usage[i] \in Entries /\ usage[i].dir \in Objects
         /\ \A t \in Threads : \A i \in DOMAIN local[t].victims : local[t].victims[i] \in Objects
         /\ \A d \in Objects : d[1] \in Jobs /\ d = <<d[1], d[2]>>
  <1>1. \A i \in DOMAIN usage : usage[i] \in Entries
    BY LenProperties, ElementOfSeq DEF StoreTypeOK
  <1>2. ASSUME NEW t \in Threads PROVE \A i \in DOMAIN local[t].victims : local[t].victims[i] \in Objects
    <2>1. local[t].victims \in Seq(Objects)
      BY DEF StoreTypeOK, Locals
    <2> QED
      BY <2>1, LenProperties, ElementOfSeq
  <1>3. \A d \in Objects : d[1] \in Jobs /\ d = <<d[1], d[2]>>
    BY DEF Objects
  <1> QED
    BY <1>1, <1>2, <1>3 DEF Entries

\* Who is done stays done, under its directory.
LEMMA DoneStays ==
  ASSUME Lasting, NEW d \in Objects
  PROVE  Done(d)' <=> Done(d)
  <1>1. d[1] \in Jobs
    BY DEF Objects
  <1> QED
    BY <1>1 DEF Lasting, Done

\* Nothing is accounted or evicted.
LEMMA Frame ==
  ASSUME StoreTypeOK, Evicted, Kept, Lasting, usage' = usage,
         \A t \in Threads : /\ local'[t].victims = local[t].victims
                            /\ (local'[t].at = "evict" <=> local[t].at = "evict")
  PROVE  Evicted' /\ Kept' /\ Accounted' = Accounted /\ Victims' = Victims
  <1>1. Accounted' = Accounted
    BY DEF Accounted
  <1>2. \A v : v \in Victims' <=> v \in Victims
    BY VictimsAre
  <1>3. \A t \in Threads : \A i : Awaiting(t, i)' <=> Awaiting(t, i)
    BY DEF Awaiting
  <1>4. Kept'
    BY <1>1, <1>3, ZenonT(60) DEF Kept, Lasting
  <1>5. \A t \in Threads : \A i \in DOMAIN local[t].victims : Awaiting(t, i) => Done(local[t].victims[i])'
    BY Typed, DoneStays DEF Evicted
  <1>6. Evicted'
    BY <1>1, <1>2, <1>3, <1>5 DEF Evicted
  <1>7. Victims' = Victims
    BY <1>2
  <1> QED
    BY <1>1, <1>4, <1>6, <1>7

\* What only the worker sees: its place in run_fn and its fresh directory x.
LEMMA WorkerFrame ==
  ASSUME StoreTypeOK, Exact, Lasting, usage' = usage, disk' \in [Objects -> SUBSET Files],
         \A h \in Handlers : local'[h] = local[h],
         W'.victims = W.victims, W'.at = "evict" <=> W.at = "evict", W'.at = "rmdir" <=> W.at = "rmdir",
         NEW x, \A d \in Objects : d # x => disk'[d] = disk[d],
         \/ disk' = disk
         \/ /\ x \notin Accounted /\ x \notin Victims /\ \A h \in Handlers : local[h].at \in Building => local[h].dir # x
            /\ disk'[x] = {} \/ x = W'.dir,
         W.at # "idle" => W'.at # "idle" /\ W'.dir = W.dir,
         W'.at = "idle" => W'.dir = None, W'.at # "idle" => (W'.dir \in Accounted <=> Finishing'),
         Ran'
  PROVE  Exact'
  <1>0. Entered /\ Evicted /\ Stored /\ Doomed /\ Ran /\ Builders /\ Kept /\ Owned
    BY DEF Exact
  <1>1. \A t \in Threads : /\ local'[t].victims = local[t].victims
                           /\ (local'[t].at = "evict" <=> local[t].at = "evict")
                           /\ (local'[t].at = "rmdir" <=> local[t].at = "rmdir")
    BY DEF W, Threads
  <1>2. Evicted' /\ Kept' /\ Accounted' = Accounted /\ Victims' = Victims
    BY <1>0, <1>1, Frame
  <1>3. Entered'
    <2>1. \A i \in DOMAIN usage : Done(usage[i].dir)' \/ (W'.at # "idle" /\ usage[i].dir = W'.dir)
      BY <1>0, Typed, DoneStays DEF Entered
    <2> QED
      BY <1>0, <1>2, <2>1 DEF Entered
  <1>4. \A d \in Accounted \union Victims : d \in Objects => disk'[d] = disk[d]
    OBVIOUS
  <1>5. \A d : Packing(d)' <=> Packing(d)
    BY DEF Packing
  <1>6. Stored'
    <2>1. \A i \in DOMAIN usage : disk'[usage[i].dir] = disk[usage[i].dir]
      BY <1>4, Typed, AccountedAre
    <2> QED
      BY <1>0, <1>5, <2>1 DEF Stored
  <1>7. Doomed'
    <2>1. \A t \in Threads : \A i \in DOMAIN local[t].victims : disk'[local[t].victims[i]] = disk[local[t].victims[i]]
      BY <1>4, Typed, VictimsAre
    <2> QED
      BY <1>0, <1>1, <2>1 DEF Doomed
  <1>8. Builders'
    <2>1. \A h \in Handlers : local[h].at \in Building => disk'[local[h].dir] = disk[local[h].dir]
      BY WorkerIsNoHandler DEF StoreTypeOK, Building
    <2> QED
      BY <1>0, <1>2, <2>1 DEF Builders, Building
  <1>9. Owned'
    <2> SUFFICES ASSUME NEW d \in Objects, disk'[d] # {} PROVE d \in Accounted \/ d \in Victims \/ d = W'.dir
      BY <1>2 DEF Owned
    <2>1. CASE d = x /\ disk' # disk
      BY <2>1
    <2>2. CASE disk'[d] = disk[d]
      <3>1. d \in Accounted \/ d \in Victims \/ d = W.dir
        BY <1>0, <2>2 DEF Owned
      <3>2. d = W.dir => W.at # "idle"
        BY <1>0, NoneIsNoObject DEF Entered
      <3> QED
        BY <3>1, <3>2
    <2> QED
      BY <2>1, <2>2
  <1> QED
    BY <1>2, <1>3, <1>6, <1>7, <1>8, <1>9 DEF Exact

----------------------------------------------------------------------------
(* The accounting: the queue's steps and the worker's.                     *)

\* The running object's directory is the worker's alone.
LEMMA OwnDirectory ==
  ASSUME IInv, GInv, pc = "run"
  PROVE  /\ held \in Objects /\ ~Done(held) /\ jobs[held[1]].state = "running"
         /\ \A h \in Handlers : local[h].at # "idle" => local[h].dir # held
  <1>1. held \in Objects /\ ~Past(held) /\ ~Done(held)
    BY RunningIsNotPast
  <1>2. jobs[held[1]].state = "running"
    <2>1. PICK j \in Jobs : held = Object(j) /\ jobs[j].state = "running"
      BY DEF IInv, NoJobLost
    <2> QED
      BY <2>1 DEF Object
  <1>3. \A h \in Handlers : local[h].at # "idle" => Past(local[h].dir)
    BY DEF GInv, Asked
  <1> QED
    BY <1>1, <1>2, <1>3

\* A fresh directory is not accounted, nor is another of its job.
LEMMA NotAccounted ==
  ASSUME IInv, GInv, Entered, pc = "run", W.at = "idle" \/ ~Finishing
  PROVE  held \notin Accounted /\ \A i \in DOMAIN usage : usage[i].dir[1] # held[1]
  <1>1. held \in Objects /\ jobs[held[1]].state = "running"
    BY OwnDirectory
  <1>2. StoreTypeOK /\ (W.at # "idle" => W.dir = held)
    BY DEF GInv, Working
  <1>3. held \notin Accounted
    <2>1. ASSUME NEW i \in DOMAIN usage, usage[i].dir = held PROVE FALSE
      <3>1. ~Done(usage[i].dir)
        BY <1>1, <2>1 DEF Done
      <3>2. W.at # "idle" /\ W.dir = held /\ W.dir \in Accounted
        BY <1>2, <2>1, <3>1, AccountedAre DEF Entered
      <3> QED
        BY <3>2 DEF Entered
    <2> QED
      BY <2>1, AccountedAre
  <1>4. ASSUME NEW i \in DOMAIN usage, usage[i].dir[1] = held[1] PROVE FALSE
    <2>1. ~Done(usage[i].dir)
      BY <1>1, <1>4 DEF Done
    <2>2. usage[i].dir = held
      BY <1>2, <2>1 DEF Entered
    <2> QED
      BY <1>3, <2>2, AccountedAre
  <1> QED
    BY <1>3, <1>4

\* The queue's own steps make nothing done.
LEMMA QueueStepExact == ASSUME IInv, GInv, Exact, QueueStep PROVE Exact'
  <1>0. StoreTypeOK /\ Working /\ Entered /\ Ran
    BY DEF GInv, Exact
  <1>1. usage' = usage /\ disk' = disk /\ local' = local /\ W' = W
    BY DEF QueueStep, storeVars, W
  <1>2. [Next]_vars
    BY DEF QueueStep, Next
  <1>3. Lasting
    <2> SUFFICES ASSUME NEW j \in Jobs
                 PROVE  /\ jobs'[j].state = "done" <=> jobs[j].state = "done"
                        /\ jobs[j].state = "done" => jobs'[j].path = jobs[j].path
      BY DEF Lasting
    <2>1. ~Finish
      <3>1. Finish => pc = "run" /\ pc' = "get"
        BY DEF Finish
      <3> QED
        BY <3>1 DEF QueueStep, Submit, Queue, Get, Begin, Start, Abandon, Close, PutNone, Join
    <2>2. ~Evict(j)
      <3>1. ASSUME Evict(j) PROVE jobs'[j].state = "evicted" /\ jobs[j].state = "done" /\ pending' = pending /\ pc' = pc /\ closing' = closing
        BY <3>1 DEF Evict, IInv, TypeOK
      <3>2. ASSUME NEW k \in Jobs, Submit(k), Evict(j) PROVE FALSE
        <4>1. pending' # pending
          BY <3>2, AppendProperties DEF Submit, Queue, IInv, TypeOK
        <4> QED
          BY <3>1, <3>2, <4>1
      <3>3. ASSUME NEW c \in Closers, Close(c) \/ PutNone(c) \/ Join(c), Evict(j) PROVE FALSE
        BY <3>1, <3>3 DEF Close, PutNone, Join
      <3>4. ASSUME Get \/ Begin, Evict(j) PROVE FALSE
        BY <3>1, <3>4 DEF Get, Begin, Start, Abandon
      <3> QED
        BY <3>2, <3>3, <3>4 DEF QueueStep
    <2> QED
      BY <1>2, <2>1, <2>2, JobsMove
  <1>4. W.at # "idle" => outcome' = outcome
    BY <1>0 DEF Working, QueueStep, Submit, Queue, Get, Begin, Start, Abandon, Close, PutNone, Join
  <1>5. Ran'
    BY <1>0, <1>1, <1>4 DEF Ran
  <1>6. W'.at # "idle" => (W'.dir \in Accounted <=> Finishing')
    BY <1>0, <1>1, <1>4 DEF Entered, Finishing
  <1>7. W'.at = "idle" => W'.dir = None
    BY <1>0, <1>1 DEF Entered
  <1>8. disk' \in [Objects -> SUBSET Files]
    BY <1>0, <1>1 DEF StoreTypeOK
  <1> QED
    BY <1>0, <1>1, <1>3, <1>5, <1>6, <1>7, <1>8, WorkerFrame

\* A report changes the phase only.
LEMMA ReportLasts == ASSUME IInv, NEW p \in Phases, Report(p) PROVE Lasting
  <1> SUFFICES ASSUME NEW j \in Jobs
               PROVE  /\ jobs'[j].state = "done" <=> jobs[j].state = "done"
                      /\ jobs[j].state = "done" => jobs'[j].path = jobs[j].path
    BY DEF Lasting
  <1>1. jobs[j] \in Records
    BY DEF IInv, TypeOK
  <1>2. jobs'[j] = jobs[j] \/ jobs'[j] = [jobs[j] EXCEPT !.phase = p]
    <2>1. current[1] \in Jobs
      BY NoneIsNoObject DEF IInv, TypeOK, Report, Objects
    <2> QED
      BY <2>1 DEF IInv, TypeOK, Report
  <1> QED
    BY <1>1, <1>2 DEF Records

\* The worker moves to place p, and its directory may become what files says.
LEMMA WorkerGoes ==
  ASSUME IInv, GInv, Exact, Apart, Lasting, usage' = usage, W.at \in {"run", "size", "clean"},
         NEW p \in {"run", "size", "record", "clean", "end"}, W'.at = p, W'.dir = W.dir, W'.victims = W.victims,
         \A h \in Handlers : local'[h] = local[h],
         disk' \in [Objects -> SUBSET Files], \A d \in Objects : d # W.dir => disk'[d] = disk[d],
         p = "end" => outcome' # "done",
         Ran'
  PROVE  Exact'
  <1>0. StoreTypeOK /\ Working /\ Entered
    BY DEF GInv, Exact
  <1>1. pc = "run" /\ W.dir = held /\ ~Finishing
    BY <1>0 DEF Working, Finishing
  <1>2. held \notin Accounted /\ \A h \in Handlers : local[h].at # "idle" => local[h].dir # held
    BY <1>0, <1>1, NotAccounted, OwnDirectory
  <1>3. held \notin Victims
    BY <1>1 DEF Apart
  <1>4. ~Finishing' /\ Accounted' = Accounted
    BY DEF Finishing, Accounted
  <1>5. /\ W'.at = "evict" <=> W.at = "evict"
        /\ W'.at = "rmdir" <=> W.at = "rmdir"
        /\ W.at # "idle" /\ W'.at # "idle" /\ "idle" \notin Building
    BY DEF Building
  <1> QED
    BY <1>0, <1>1, <1>2, <1>3, <1>4, <1>5, WorkerFrame

\* What Goto leaves of a thread.
LEMMA Going ==
  ASSUME StoreTypeOK, NEW t \in Threads, NEW p \in Places, Goto(t, p)
  PROVE  /\ local'[t].at = p /\ local'[t].dir = local[t].dir /\ local'[t].victims = local[t].victims
         /\ local'[t].size = local[t].size /\ local'[t].whole = local[t].whole
         /\ \A u \in Threads \ {t} : local'[u] = local[u]
  <1>1. local[t] \in Locals /\ local'[t] = [local[t] EXCEPT !.at = p] /\ \A u \in Threads \ {t} : local'[u] = local[u]
    BY Went DEF StoreTypeOK
  <1> QED
    BY <1>1 DEF Locals

\* The worker's steps in run_fn.
LEMMA ExecuteStepExact ==
  ASSUME IInv, GInv, Exact, Apart, Apart', GInv', ExecuteStep PROVE Exact'
  <1>0. /\ StoreTypeOK /\ Working /\ Entered /\ Ran /\ StoreTypeOK'
        /\ disk \in [Objects -> SUBSET Files] /\ disk' \in [Objects -> SUBSET Files]
        /\ W \in Locals /\ W' \in Locals
    BY WorkerIsNoHandler DEF GInv, Exact, StoreTypeOK, W
  <1>1. ASSUME jobs' = jobs PROVE Lasting
    BY <1>1 DEF Lasting
  <1>2. ASSUME NEW p \in Places, Goto(Worker, p)
        PROVE  /\ W'.at = p /\ W'.dir = W.dir /\ W'.victims = W.victims /\ W'.size = W.size
               /\ \A h \in Handlers : local'[h] = local[h]
    BY <1>0, <1>2, WorkerIsNoHandler, Going DEF W
  <1>3. CASE MakeDirectory
    <2>1. /\ pc = "run" /\ W.at = "idle" /\ usage' = usage /\ disk' = [disk EXCEPT ![held] = {"dir"}] /\ jobs' = jobs
          /\ local' = [local EXCEPT ![Worker] = [Idle EXCEPT !.at = "run", !.dir = held]]
      BY <1>3 DEF MakeDirectory, At, W, Put, vars
    <2>2. W'.at = "run" /\ W'.dir = held /\ W'.victims = <<>> /\ \A h \in Handlers : local'[h] = local[h]
      BY <1>0, <2>1, WorkerIsNoHandler DEF W, Idle, StoreTypeOK
    <2>3. W.victims = <<>>
      BY <1>0, <2>1, WorkerIsNoHandler DEF StoreTypeOK, W, Evicting
    <2>4. held \in Objects /\ held \notin Accounted /\ \A h \in Handlers : local[h].at # "idle" => local[h].dir # held
      BY <1>0, <2>1, NotAccounted, OwnDirectory
    <2>5. held \notin Victims
      <3>1. held \notin Victims'
        BY <2>2 DEF Apart
      <3>2. \A t \in Threads : local'[t].victims = local[t].victims
        BY <2>2, <2>3 DEF Threads, W
      <3> QED
        BY <3>1, <3>2, VictimsAre
    <2>6. disk'[held] = {"dir"} /\ \A d \in Objects : d # held => disk'[d] = disk[d]
      BY <1>0, <2>1, <2>4
    <2>7. Ran' /\ ~Finishing' /\ Accounted' = Accounted
      BY <2>1, <2>2, <2>6 DEF Ran, Finishing, Accounted
    <2>8. "idle" \notin Building /\ Lasting
      BY <1>1, <2>1 DEF Building
    <2> QED
      BY <1>0, <2>1, <2>2, <2>3, <2>4, <2>5, <2>6, <2>7, <2>8, WorkerFrame
  <1>4. ASSUME NEW p \in Phases, ReportPhase(p) PROVE Exact'
    <2>1. /\ W.at = "run" /\ Report(p) /\ Goto(Worker, IF closed THEN "clean" ELSE "run")
          /\ usage' = usage /\ disk' = disk
      BY <1>4 DEF ReportPhase, At, W
    <2>2. Lasting
      BY <2>1, ReportLasts
    <2>3. PICK q \in {"run", "clean"} : Goto(Worker, q)
      BY <2>1
    <2>4. /\ W'.at = q /\ W'.dir = W.dir /\ W'.victims = W.victims /\ W'.size = W.size
          /\ \A h \in Handlers : local'[h] = local[h]
      BY <1>2, <2>3 DEF Places
    <2>5. Ran'
      BY <1>0, <2>1, <2>4 DEF Ran
    <2> QED
      BY <1>0, <2>1, <2>2, <2>4, <2>5, WorkerGoes
  <1>5. CASE Publish
    <2>1. W.at = "run" /\ Goto(Worker, "size") /\ usage' = usage /\ jobs' = jobs /\ disk' = [disk EXCEPT ![W.dir] = {"dir", "result"}]
      BY <1>5 DEF Publish, At, W, Put, vars
    <2>2. /\ W'.at = "size" /\ W'.dir = W.dir /\ W'.victims = W.victims
          /\ \A h \in Handlers : local'[h] = local[h]
      BY <1>2, <2>1 DEF Places
    <2>3. W.dir \in Objects
      BY <1>0, <2>1, WorkerIsNoHandler DEF StoreTypeOK, W
    <2>4. disk'[W.dir] = Plain /\ \A d \in Objects : d # W.dir => disk'[d] = disk[d]
      BY <1>0, <2>1, <2>3 DEF Plain
    <2>5. Ran'
      BY <2>2, <2>4 DEF Ran
    <2> QED
      BY <1>0, <1>1, <2>1, <2>2, <2>4, <2>5, WorkerGoes
  <1>6. ASSUME NEW o \in {"invalid", "unexpected"}, Raise(o) PROVE Exact'
    <2>1. W.at \in {"run", "size"} /\ Goto(Worker, "clean") /\ usage' = usage /\ jobs' = jobs /\ disk' = disk
      BY <1>6 DEF Raise, Return, At, W
    <2>2. /\ W'.at = "clean" /\ W'.dir = W.dir /\ W'.victims = W.victims
          /\ \A h \in Handlers : local'[h] = local[h]
      BY <1>2, <2>1 DEF Places
    <2>3. Ran'
      BY <2>2 DEF Ran
    <2> QED
      BY <1>0, <1>1, <2>1, <2>2, <2>3, WorkerGoes
  <1>7. CASE CheckSize
    <2>1. W.at = "size" /\ usage' = usage /\ disk' = disk /\ jobs' = jobs
      BY <1>7 DEF CheckSize, Return, At, W, vars
    <2>2. CASE Goto(Worker, "clean")
      <3>1. /\ W'.at = "clean" /\ W'.dir = W.dir /\ W'.victims = W.victims
            /\ \A h \in Handlers : local'[h] = local[h]
        BY <1>2, <2>2 DEF Places
      <3>2. Ran'
        BY <3>1 DEF Ran
      <3> QED
        BY <1>0, <1>1, <2>1, <3>1, <3>2, WorkerGoes
    <2>3. CASE local' = [local EXCEPT ![Worker].at = "record", ![Worker].size = Bytes(W.dir)]
      <3> DEFINE n == Bytes(W.dir)
      <3>1. n = ResultSize[W.dir[1]]
        <4>1. disk[W.dir] = {"dir", "result"} /\ W.dir \in Objects /\ W.dir[1] \in Jobs
          BY <1>0, <2>1, WorkerIsNoHandler DEF Ran, Plain, StoreTypeOK, W, Objects
        <4>2. ResultSize[W.dir[1]] \in Nat
          BY <4>1, ResultStoreAssumption DEF ResultStoreAssumption
        <4> QED
          BY <4>1, <4>2 DEF Bytes
      <3> HIDE DEF n
      <3>2. /\ W'.at = "record" /\ W'.dir = W.dir /\ W'.victims = W.victims /\ W'.size = n
            /\ \A h \in Handlers : local'[h] = local[h]
        BY <1>0, <2>3, WorkerIsNoHandler DEF W, StoreTypeOK, Locals, n
      <3>3. Ran'
        BY <1>0, <2>1, <3>1, <3>2 DEF Ran
      <3> QED
        BY <1>0, <1>1, <2>1, <3>2, <3>3, WorkerGoes
    <2> QED
      BY <1>7, <2>2, <2>3 DEF CheckSize, W
  <1>8. CASE Clean
    <2>1. W.at = "clean" /\ Goto(Worker, "end") /\ usage' = usage /\ jobs' = jobs /\ disk' = [disk EXCEPT ![W.dir] = {}] /\ outcome' = outcome
      BY <1>8 DEF Clean, At, W, Put, vars
    <2>2. /\ W'.at = "end" /\ W'.dir = W.dir /\ W'.victims = W.victims
          /\ \A h \in Handlers : local'[h] = local[h]
      BY <1>2, <2>1 DEF Places
    <2>3. W.dir \in Objects /\ outcome' # "done"
      BY <1>0, <2>1, WorkerIsNoHandler DEF StoreTypeOK, W, Working
    <2>4. disk'[W.dir] = {} /\ \A d \in Objects : d # W.dir => disk'[d] = disk[d]
      BY <1>0, <2>1, <2>3
    <2>5. Ran'
      BY <2>2, <2>4 DEF Ran
    <2> QED
      BY <1>0, <1>1, <2>1, <2>2, <2>3, <2>4, <2>5, WorkerGoes
  <1>9. CASE ReturnResult
    <2>1. W.at = "return" /\ Goto(Worker, "end") /\ usage' = usage /\ jobs' = jobs /\ disk' = disk /\ outcome' = "done"
      BY <1>9 DEF ReturnResult, Return, At, W
    <2>2. /\ W'.at = "end" /\ W'.dir = W.dir /\ W'.victims = W.victims
          /\ \A h \in Handlers : local'[h] = local[h]
      BY <1>2, <2>1 DEF Places
    <2>3. Ran' /\ Finishing' /\ Finishing /\ Accounted' = Accounted /\ W.dir \in Accounted
      BY <1>0, <2>1, <2>2 DEF Ran, Finishing, Accounted, Entered
    <2> QED
      BY <1>0, <1>1, <2>1, <2>2, <2>3, WorkerFrame
  <1>10. CASE FinishJob
    <2>1. /\ W.at = "end" /\ Finish /\ usage' = usage /\ disk' = disk /\ local' = [local EXCEPT ![Worker] = Idle]
          /\ pc = "run" /\ W.dir = held
      BY <1>0, <1>10 DEF FinishJob, At, W, Working
    <2>2. W' = Idle /\ W'.at = "idle" /\ W'.dir = None /\ W'.victims = <<>> /\ \A h \in Handlers : local'[h] = local[h]
      BY <1>0, <2>1, WorkerIsNoHandler DEF W, Idle, StoreTypeOK
    <2>3. W.victims = <<>>
      BY <1>0, <2>1, WorkerIsNoHandler DEF StoreTypeOK, W, Evicting
    <2>4. \A t \in Threads : /\ local'[t].victims = local[t].victims
                             /\ (local'[t].at = "evict" <=> local[t].at = "evict")
                             /\ (local'[t].at = "rmdir" <=> local[t].at = "rmdir")
      BY <2>1, <2>2, <2>3 DEF Threads, W
    <2>5. /\ held \in Objects /\ held[1] \in Jobs /\ held = <<held[1], held[2]>> /\ jobs[held[1]].state = "running"
          /\ ~Done(held) /\ \A h \in Handlers : local[h].at # "idle" => local[h].dir # held
      BY <1>0, <2>1, OwnDirectory, Typed
    <2>6. /\ \A j \in Jobs : j # held[1] => jobs'[j] = jobs[j]
          /\ jobs'[held[1]].state = "done" <=> outcome = "done"
          /\ jobs'[held[1]].state = "done" => jobs'[held[1]].path = held[2]
      <3>1. \A j \in Jobs : j # held[1] => jobs'[j] = jobs[j]
        BY <2>1, <2>5 DEF Finish, IInv, TypeOK
      <3>2. jobs'[held[1]] = Settled(jobs[held[1]], held) /\ jobs[held[1]] \in Records
        BY <2>1, <2>5 DEF Finish, IInv, TypeOK
      <3> QED
        BY <3>1, <3>2 DEF Settled, Records
    <2>7. \A d \in Objects : Done(d) => Done(d)'
      <3> SUFFICES ASSUME NEW d \in Objects, Done(d) PROVE Done(d)'
        OBVIOUS
      <3>1. d[1] \in Jobs /\ d[1] # held[1]
        BY <1>0, <2>5, Typed DEF Done
      <3> QED
        BY <2>6, <3>1 DEF Done
    <2>a. PICK o \in Objects : o = held
      BY <2>5
    <2>8. outcome = "done" => o \in Accounted /\ Done(o)'
      BY <1>0, <2>1, <2>6, <2>a DEF Entered, Finishing, Done
    <2>9. outcome # "done" => held \notin Accounted /\ disk[held] = {}
      BY <1>0, <2>1 DEF Entered, Finishing, Ran
    <2>10. Accounted' = Accounted /\ Victims' = Victims
      <3>1. \A v : v \in Victims' <=> v \in Victims
        BY <2>4, VictimsAre
      <3> QED
        BY <2>1, <3>1 DEF Accounted
    <2>11. Entered'
      <3>1. ASSUME NEW i \in DOMAIN usage PROVE Done(usage[i].dir)'
        <4>1. PICK d \in Objects : d = usage[i].dir
          BY <1>0, Typed
        <4>2. Done(d) \/ d = o
          BY <1>0, <2>1, <2>a, <4>1 DEF Entered
        <4>3. d \in Accounted
          BY <4>1, AccountedAre
        <4>4. Done(d)'
          BY <2>7, <2>8, <2>9, <2>a, <4>2, <4>3
        <4> QED
          BY <2>1, <4>1, <4>4 DEF Done
      <3> QED
        BY <1>0, <2>1, <2>2, <3>1 DEF Entered
    <2>12. \A t \in Threads : \A i : Awaiting(t, i)' <=> Awaiting(t, i)
      BY <2>4 DEF Awaiting
    <2>13. Evicted'
      <3>1. ASSUME NEW t \in Threads, NEW i \in DOMAIN local[t].victims, Awaiting(t, i) PROVE Done(local[t].victims[i])'
        <4>1. PICK d \in Objects : d = local[t].victims[i]
          BY <1>0, Typed
        <4>2. Done(d)'
          BY <2>7, <3>1, <4>1 DEF Exact, Evicted
        <4> QED
          BY <2>4, <4>1, <4>2 DEF Done
      <3> QED
        BY <2>4, <2>10, <2>12, <3>1 DEF Exact, Evicted
    <2>14. Kept'
      <3> SUFFICES ASSUME NEW j \in Jobs, jobs'[j].state = "done"
                   PROVE  \/ <<j, jobs'[j].path>> \in Accounted
                          \/ \E t \in Threads : \E i \in DOMAIN local[t].victims :
                               Awaiting(t, i) /\ local[t].victims[i] = <<j, jobs'[j].path>>
        BY <2>4, <2>10, <2>12 DEF Kept
      <3>1. CASE j = held[1]
        BY <2>5, <2>6, <2>8, <2>a, <3>1
      <3>2. CASE j # held[1]
        BY <2>6, <3>2 DEF Exact, Kept
      <3> QED
        BY <3>1, <3>2
    <2>15. Stored'
      <3>1. \A d : Packing(d)' <=> Packing(d)
        BY <2>2 DEF Packing
      <3> QED
        BY <2>1, <2>2, <3>1 DEF Exact, Stored
    <2>16. Doomed' /\ Ran'
      BY <2>1, <2>2, <2>4 DEF Exact, Doomed, Ran
    <2>17. Builders'
      BY <2>1, <2>2, <2>10 DEF Exact, Builders
    <2>18. Owned'
      BY <2>1, <2>8, <2>9, <2>10, <2>a DEF Exact, Owned
    <2> QED
      BY <2>11, <2>13, <2>14, <2>15, <2>16, <2>17, <2>18 DEF Exact
  <1> QED
    BY <1>3, <1>4, <1>5, <1>6, <1>7, <1>8, <1>9, <1>10 DEF ExecuteStep

----------------------------------------------------------------------------
(* The accounting: an eviction's steps.                                    *)

\* Thread t stays with its victims: nothing that is accounted, built or run is told by its place.
LEMMA Aside ==
  ASSUME StoreTypeOK, Exact, NEW t \in Threads, \A u \in Threads \ {t} : local'[u] = local[u],
         local[t].at \in Evicting, local'[t].at \in Evicting \union {After(t)}, local'[t].dir = local[t].dir,
         usage' = usage, outcome' = outcome,
         \A d \in Objects : \/ d \in Accounted \/ d = W.dir
                            \/ \E h \in Handlers : local[h].at \in Building /\ local[h].dir = d
                            => disk'[d] = disk[d]
  PROVE  /\ Stored' /\ Builders' /\ Ran' /\ Accounted' = Accounted
         /\ W'.dir = W.dir /\ (W'.at # "idle" <=> W.at # "idle") /\ (Finishing' <=> Finishing)
  <1>0. local'[t].at \notin Building /\ local[t].at \notin Building
    BY DEF After, Evicting, Building
  <1>1. \A h \in Handlers : local[h].at \in Building \/ local'[h].at \in Building => local'[h] = local[h]
    BY <1>0, WorkerIsNoHandler
  <1>2. /\ W'.dir = W.dir
        /\ W' = W \/ (W.at \in Evicting /\ W'.at \in Evicting \union {"return"})
    BY WorkerIsNoHandler DEF W, After
  <1>3. (W'.at # "idle" <=> W.at # "idle") /\ (Finishing' <=> Finishing)
    BY <1>2 DEF Finishing, Evicting
  <1>4. Accounted' = Accounted
    BY DEF Accounted
  <1>5. \A d : Packing(d)' <=> Packing(d)
    BY <1>1 DEF Packing, Building
  <1>6. Stored'
    <2>1. \A i \in DOMAIN usage : disk'[usage[i].dir] = disk[usage[i].dir]
      BY Typed, AccountedAre
    <2>2. \A h \in Handlers : local[h].at = "record" => local'[h] = local[h]
      BY <1>1 DEF Building
    <2> QED
      BY <1>5, <2>1, <2>2 DEF Exact, Stored
  <1>7. Builders'
    <2>1. \A h \in Handlers : local[h].at \in Building => disk'[local[h].dir] = disk[local[h].dir]
      BY WorkerIsNoHandler DEF StoreTypeOK, Building
    <2>2. \A h \in Handlers : local'[h].at \in Building =>
            local'[h] = local[h] /\ disk'[local[h].dir] = disk[local[h].dir]
      BY <1>1, <2>1
    <2> QED
      BY <1>4, <2>2 DEF Exact, Builders, Building
  <1>8. Ran'
    <2>1. W.at # "idle" => W.dir \in Objects
      BY WorkerIsNoHandler DEF StoreTypeOK, W
    <2>2. W.at # "idle" => disk'[W.dir] = disk[W.dir]
      BY <2>1
    <2> QED
      BY <1>2, <2>2 DEF Exact, Ran, Evicting
  <1> QED
    BY <1>2, <1>3, <1>4, <1>6, <1>7, <1>8

\* jobs.evict: the victim's job is no longer done.
LEMMA EvictVictimExact ==
  ASSUME IInv, GInv, Exact, NEW t \in Threads, EvictVictim(t)
  PROVE  Exact'
  <1>0. StoreTypeOK /\ Entered /\ Evicted /\ Doomed /\ Kept /\ Owned
    BY DEF GInv, Exact
  <1>1. /\ local[t].at = "evict" /\ Goto(t, "unlink") /\ usage' = usage /\ disk' = disk /\ outcome' = outcome
    BY DEF EvictVictim, At, Evict, vars
  <1>2. /\ local'[t].at = "unlink" /\ local'[t].dir = local[t].dir /\ local'[t].victims = local[t].victims
        /\ \A u \in Threads \ {t} : local'[u] = local[u]
    <2>1. "unlink" \in Places
      BY DEF Places
    <2> QED
      BY <1>0, <1>1, <2>1, Going
  <1>3. PICK v \in Objects : v = local[t].victims[1] /\ v = Head(local[t].victims) /\ 1 \in DOMAIN local[t].victims
    BY <1>0, <1>1, VictimsTyped DEF Evicting
  <1>4. Done(v) /\ v \in Victims
    BY <1>0, <1>1, <1>3, VictimsAre DEF Evicted, Awaiting
  <1>5. v[1] \in Jobs /\ v = <<v[1], v[2]>>
    BY <1>0, Typed
  <1>6. /\ \A j \in Jobs : j # v[1] => jobs'[j] = jobs[j]
        /\ jobs'[v[1]].state = "evicted"
    <2>1. Evict(v[1])
      BY <1>3, <1>4 DEF EvictVictim, Done
    <2>2. jobs[v[1]] \in Records /\ jobs'[v[1]] = [jobs[v[1]] EXCEPT !.state = "evicted", !.path = 0]
      BY <1>5, <2>1 DEF Evict, IInv, TypeOK
    <2>3. \A j \in Jobs : j # v[1] => jobs'[j] = jobs[j]
      BY <1>5, <2>1 DEF Evict, IInv, TypeOK
    <2> QED
      BY <2>2, <2>3 DEF Records
  <1>7. \A d \in Objects : Done(d) /\ d # v => Done(d)'
    <2> SUFFICES ASSUME NEW d \in Objects, Done(d), d # v PROVE Done(d)'
      OBVIOUS
    <2>1. d[1] \in Jobs /\ d = <<d[1], d[2]>>
      BY <1>0, Typed
    <2>2. d[1] # v[1]
      BY <1>4, <1>5, <2>1 DEF Done
    <2> QED
      BY <1>6, <2>1, <2>2 DEF Done
  <1>8. /\ Stored' /\ Builders' /\ Ran' /\ Accounted' = Accounted
        /\ W'.dir = W.dir /\ (W'.at # "idle" <=> W.at # "idle") /\ (Finishing' <=> Finishing)
    BY <1>0, <1>1, <1>2, Aside DEF Evicting
  <1>9. Victims' = Victims
    <2>1. \A u \in Threads : local'[u].victims = local[u].victims
      BY <1>2
    <2>2. \A x : x \in Victims' <=> x \in Victims
      BY <2>1, VictimsAre
    <2> QED
      BY <2>2
  <1>10. Entered'
    <2>1. ASSUME NEW i \in DOMAIN usage PROVE Done(usage[i].dir)' \/ (W.at # "idle" /\ usage[i].dir = W.dir)
      <3>1. PICK d \in Objects : d = usage[i].dir
        BY <1>0, Typed
      <3>2. d # v
        BY <1>0, <1>4, <3>1, AccountedAre DEF Evicted
      <3>3. Done(d) => Done(d)'
        BY <1>7, <3>2
      <3>4. Done(d) \/ (W.at # "idle" /\ d = W.dir)
        BY <1>0, <3>1 DEF Entered
      <3> QED
        BY <1>1, <3>1, <3>3, <3>4 DEF Done
    <2> QED
      BY <1>0, <1>1, <1>8, <2>1 DEF Entered
  <1>11. \A u \in Threads : \A i \in DOMAIN local[u].victims :
           Awaiting(u, i)' <=> Awaiting(u, i) /\ local[u].victims[i] # v
    <2>1. ASSUME NEW u \in Threads, NEW i \in DOMAIN local[u].victims
          PROVE  (Awaiting(u, i)' <=> Awaiting(u, i) /\ local[u].victims[i] # v)
      <3>1. local[u].victims[i] = v <=> u = t /\ i = 1
        BY <1>0, <1>3 DEF Evicted
      <3>2. i \in Nat \ {0}
        <4>1. local[u].victims \in Seq(Objects)
          BY <1>0 DEF StoreTypeOK, Locals
        <4> QED
          BY <4>1, LenProperties
      <3>3. CASE u = t
        <4>1. Awaiting(t, i)' <=> i > 1
          BY <1>2, <3>3 DEF Awaiting
        <4>2. Awaiting(t, i)
          BY <1>1, <3>3 DEF Awaiting
        <4> QED
          BY <3>1, <3>2, <3>3, <4>1, <4>2
      <3>4. CASE u # t
        <4>1. Awaiting(u, i)' <=> Awaiting(u, i)
          BY <1>2, <3>4 DEF Awaiting
        <4> QED
          BY <3>1, <3>4, <4>1
      <3> QED
        BY <3>3, <3>4
    <2> QED
      BY <2>1
  <1>12. \A u \in Threads : local'[u].victims = local[u].victims
    BY <1>2
  <1>13. Evicted'
    <2>1. ASSUME NEW u \in Threads, NEW i \in DOMAIN local[u].victims, Awaiting(u, i)' PROVE Done(local[u].victims[i])'
      <3>1. PICK d \in Objects : d = local[u].victims[i]
        BY <1>0, Typed
      <3>2. Awaiting(u, i) /\ d # v
        BY <1>11, <2>1, <3>1
      <3>3. Done(d)
        BY <1>0, <3>1, <3>2 DEF Evicted
      <3>4. Done(d)'
        BY <1>7, <3>2, <3>3
      <3> QED
        BY <1>12, <3>1, <3>4 DEF Done
    <2> QED
      BY <1>0, <1>8, <1>9, <1>12, <2>1 DEF Evicted
  <1>14. Kept'
    <2> SUFFICES ASSUME NEW j \in Jobs, jobs'[j].state = "done"
                 PROVE  \/ <<j, jobs'[j].path>> \in Accounted
                        \/ \E u \in Threads : \E i \in DOMAIN local[u].victims :
                             Awaiting(u, i)' /\ local[u].victims[i] = <<j, jobs'[j].path>>
      BY <1>8, <1>12 DEF Kept
    <2>1. j # v[1] /\ jobs'[j] = jobs[j]
      BY <1>6
    <2>2. <<j, jobs[j].path>> # v
      BY <1>5, <2>1
    <2> QED
      BY <1>0, <1>11, <2>1, <2>2 DEF Kept
  <1>15. Doomed'
    <2>1. \A u \in Threads : local[u].at = "rmdir" <=> local'[u].at = "rmdir"
      BY <1>1, <1>2
    <2> QED
      BY <1>0, <1>1, <1>12, <2>1 DEF Doomed
  <1>16. Owned'
    BY <1>0, <1>1, <1>8, <1>9 DEF Owned
  <1> QED
    BY <1>8, <1>10, <1>13, <1>14, <1>15, <1>16 DEF Exact

\* A victim's directory is nobody's else.
LEMMA VictimApart ==
  ASSUME StoreTypeOK, Evicted, Apart, NEW v \in Victims
  PROVE  \A d : \/ d \in Accounted \/ d = W.dir
                \/ \E h \in Handlers : local[h].at \in Building /\ local[h].dir = d
                => d # v
  BY DEF Evicted, Apart

\* The victim's files are unlinked.
LEMMA UnlinkVictimExact ==
  ASSUME IInv, GInv, Exact, Apart, NEW t \in Threads, UnlinkVictim(t)
  PROVE  Exact'
  <1>0. StoreTypeOK /\ Entered /\ Evicted /\ Doomed /\ Kept /\ Owned
    BY DEF GInv, Exact
  <1>1. PICK v \in Objects : v = local[t].victims[1] /\ v = Head(local[t].victims) /\ 1 \in DOMAIN local[t].victims
    BY <1>0, VictimsTyped DEF Evicting, UnlinkVictim, At
  <1>2. /\ local[t].at = "unlink" /\ Goto(t, "rmdir") /\ usage' = usage /\ outcome' = outcome /\ jobs' = jobs
        /\ disk' = [disk EXCEPT ![v] = disk[v] \intersect {"dir"}]
    BY <1>1 DEF UnlinkVictim, At, Put, vars
  <1>3. /\ local'[t].at = "rmdir" /\ local'[t].dir = local[t].dir /\ local'[t].victims = local[t].victims
        /\ \A u \in Threads \ {t} : local'[u] = local[u]
    <2>1. "rmdir" \in Places
      BY DEF Places
    <2> QED
      BY <1>0, <1>2, <2>1, Going
  <1>4. v \in Victims
    BY <1>1, VictimsAre
  <1>5. disk'[v] = {"dir"} /\ disk[v] # {} /\ \A d \in Objects : d # v => disk'[d] = disk[d]
    <2>1. disk[v] \in {Plain, Started, Zipped}
      BY <1>0, <1>1, <1>2 DEF Doomed
    <2>2. disk[v] \intersect {"dir"} = {"dir"} /\ disk[v] # {}
      BY <2>1 DEF Plain, Started, Zipped
    <2> QED
      BY <1>0, <1>2, <2>2 DEF StoreTypeOK
  <1>6. /\ Stored' /\ Builders' /\ Ran' /\ Accounted' = Accounted
        /\ W'.dir = W.dir /\ (W'.at # "idle" <=> W.at # "idle") /\ (Finishing' <=> Finishing)
    <2>1. \A d \in Objects : \/ d \in Accounted \/ d = W.dir
                             \/ \E h \in Handlers : local[h].at \in Building /\ local[h].dir = d
                             => disk'[d] = disk[d]
      BY <1>0, <1>4, <1>5, VictimApart
    <2>2. local[t].at \in Evicting /\ local'[t].at \in Evicting \union {After(t)}
      BY <1>2, <1>3 DEF Evicting
    <2> QED
      BY <1>0, <1>2, <1>3, <2>1, <2>2, Aside
  <1>7. Evicted' /\ Kept' /\ Victims' = Victims
    <2>1. Lasting
      BY <1>2 DEF Lasting
    <2>2. \A u \in Threads : /\ local'[u].victims = local[u].victims
                             /\ (local'[u].at = "evict" <=> local[u].at = "evict")
      BY <1>2, <1>3
    <2> QED
      BY <1>0, <1>2, <2>1, <2>2, Frame
  <1>8. Entered'
    BY <1>0, <1>2, <1>6 DEF Entered, Done
  <1>9. Doomed'
    <2> SUFFICES ASSUME NEW u \in Threads, NEW i \in DOMAIN local[u].victims
                 PROVE  IF local'[u].at = "rmdir" /\ i = 1 THEN disk'[local[u].victims[i]] = {"dir"}
                        ELSE disk'[local[u].victims[i]] \in {Plain, Started, Zipped}
      BY <1>3 DEF Doomed
    <2>1. local[u].victims[i] \in Objects /\ (local[u].victims[i] = v <=> u = t /\ i = 1)
      BY <1>0, <1>1, Typed DEF Evicted
    <2>2. CASE u = t /\ i = 1
      BY <1>1, <1>3, <1>5, <2>2
    <2>3. CASE ~(u = t /\ i = 1)
      <3>1. disk'[local[u].victims[i]] = disk[local[u].victims[i]]
        BY <1>5, <2>1, <2>3
      <3>2. local'[u].at = "rmdir" /\ i = 1 <=> local[u].at = "rmdir" /\ i = 1
        BY <1>2, <1>3, <2>3
      <3> QED
        BY <1>0, <3>1, <3>2 DEF Doomed
    <2> QED
      BY <2>2, <2>3
  <1>10. Owned'
    BY <1>0, <1>5, <1>6, <1>7 DEF Owned
  <1> QED
    BY <1>6, <1>7, <1>8, <1>9, <1>10 DEF Exact

\* The victim's directory is removed: nobody has created a file in it.
LEMMA RmdirVictimExact ==
  ASSUME IInv, GInv, Exact, Apart, NEW t \in Threads, RmdirVictim(t)
  PROVE  Exact'
  <1>0. StoreTypeOK /\ Entered /\ Evicted /\ Doomed /\ Kept /\ Owned /\ local \in [Threads -> Locals]
    BY DEF GInv, Exact, StoreTypeOK
  <1> DEFINE vs == local[t].victims
             n == Len(vs)
  <1>1. local[t].at = "rmdir" /\ local[t].at \in Evicting
    BY DEF RmdirVictim, At, Evicting
  <1>2. /\ n \in Nat \ {0} /\ DOMAIN vs = 1..n /\ DOMAIN Tail(vs) = 1..(n - 1)
        /\ \A i \in 1..(n - 1) : Tail(vs)[i] = vs[i + 1]
        /\ Head(vs) = vs[1] /\ Head(vs) \in Objects
    BY <1>0, <1>1, VictimsTyped
  <1>3. PICK v \in Objects : v = vs[1] /\ v = Head(vs) /\ 1 \in DOMAIN vs
    BY <1>2
  <1>4. /\ usage' = usage /\ outcome' = outcome /\ jobs' = jobs
        /\ disk' = [disk EXCEPT ![v] = IF disk[v] = {"dir"} THEN {} ELSE disk[v]]
        /\ local' = [local EXCEPT ![t].victims = Tail(@), ![t].at = IF n = 1 THEN After(t) ELSE "evict"]
    BY <1>3 DEF RmdirVictim, Put, vars
  <1>5. /\ local'[t].at = IF n = 1 THEN After(t) ELSE "evict"
        /\ local'[t].dir = local[t].dir /\ local'[t].victims = Tail(vs)
        /\ \A u \in Threads \ {t} : local'[u] = local[u]
    BY <1>0, <1>4 DEF Locals
  <1>6. v \in Victims
    BY <1>3, VictimsAre
  <1>7. disk'[v] = {} /\ \A d \in Objects : d # v => disk'[d] = disk[d]
    <2>1. disk[v] = {"dir"}
      BY <1>0, <1>1, <1>3 DEF Doomed
    <2> QED
      BY <1>0, <1>4, <2>1 DEF StoreTypeOK
  <1>8. /\ Stored' /\ Builders' /\ Ran' /\ Accounted' = Accounted
        /\ W'.dir = W.dir /\ (W'.at # "idle" <=> W.at # "idle") /\ (Finishing' <=> Finishing)
    <2>1. \A d \in Objects : \/ d \in Accounted \/ d = W.dir
                             \/ \E h \in Handlers : local[h].at \in Building /\ local[h].dir = d
                             => disk'[d] = disk[d]
      BY <1>0, <1>6, <1>7, VictimApart
    <2>2. local'[t].at \in Evicting \union {After(t)}
      BY <1>5 DEF Evicting
    <2> QED
      BY <1>0, <1>1, <1>4, <1>5, <2>1, <2>2, Aside
  <1>a. PICK m \in Nat : n = m + 1
    <2>1. n \in Nat \ {0}
      BY <1>2
    <2> HIDE DEF n
    <2>2. n - 1 \in Nat /\ n = (n - 1) + 1
      BY <2>1
    <2> QED
      BY <2>2
  <1>b. /\ DOMAIN local[t].victims = 1..(m + 1) /\ DOMAIN local'[t].victims = 1..m
        /\ \A i \in 1..m : local'[t].victims[i] = local[t].victims[i + 1]
        /\ m # 0 => local'[t].at = "evict"
    <2>1. 1..(n - 1) = 1..m /\ (n = 1 <=> m = 0)
      BY <1>a
    <2> HIDE DEF n
    <2>2. vs = local[t].victims
      OBVIOUS
    <2> HIDE DEF vs
    <2> QED
      BY <1>2, <1>5, <1>a, <2>1, <2>2
  <1> HIDE DEF n
  \* The victims that are left, at their new places.
  <1> DEFINE Old(u, i) == IF u = t THEN i + 1 ELSE i
  <1>9. ASSUME NEW u \in Threads, NEW i \in DOMAIN local'[u].victims
        PROVE  /\ Old(u, i) \in DOMAIN local[u].victims /\ local'[u].victims[i] = local[u].victims[Old(u, i)]
               /\ ~(u = t /\ Old(u, i) = 1) /\ (Awaiting(u, i)' => Awaiting(u, Old(u, i)))
               /\ (local'[u].at = "rmdir" /\ i = 1 => u # t /\ local[u].at = "rmdir")
    <2>1. CASE u = t
      <3>1. i \in 1..m /\ i + 1 \in 1..(m + 1) /\ i + 1 > 1
        BY <1>b, <2>1
      <3>2. local'[u].at # "rmdir"
        BY <1>5, <2>1 DEF After
      <3>3. Old(u, i) = i + 1 /\ Old(u, i) # 1
        BY <2>1, <3>1
      <3> QED
        BY <1>b, <2>1, <3>1, <3>2, <3>3 DEF Awaiting
    <2>2. CASE u # t
      BY <1>5, <2>2 DEF Awaiting
    <2> QED
      BY <2>1, <2>2
  <1>10. ASSUME NEW u \in Threads, NEW i \in DOMAIN local[u].victims, ~(u = t /\ i = 1)
         PROVE  \E k \in DOMAIN local'[u].victims : Old(u, k) = i /\ (Awaiting(u, i) => Awaiting(u, k)')
    <2>1. CASE u = t
      <3>1. i \in 2..(m + 1)
        BY <1>b, <1>10, <2>1
      <3>2. i - 1 \in DOMAIN local'[t].victims /\ (i - 1) + 1 = i /\ m # 0
        BY <1>b, <3>1
      <3>3. Awaiting(t, i - 1)'
        BY <1>b, <3>2 DEF Awaiting
      <3> QED
        BY <2>1, <3>2, <3>3
    <2>2. CASE u # t
      BY <1>5, <2>2 DEF Awaiting
    <2> QED
      BY <2>1, <2>2
  <1>11. \A x : x \in Victims' <=> x \in Victims /\ x # v
    <2>1. ASSUME NEW x \in Victims' PROVE x \in Victims /\ x # v
      <3>1. PICK u \in Threads : \E i \in DOMAIN local'[u].victims : x = local'[u].victims[i]
        BY VictimsAre
      <3>2. PICK i \in DOMAIN local'[u].victims : x = local'[u].victims[i]
        BY <3>1
      <3>3. Old(u, i) \in DOMAIN local[u].victims /\ x = local[u].victims[Old(u, i)] /\ ~(u = t /\ Old(u, i) = 1)
        BY <1>9, <3>2
      <3> HIDE DEF Old
      <3>4. x # v
        BY <1>0, <1>3, <3>3 DEF Evicted
      <3> QED
        BY <3>3, <3>4, VictimsAre
    <2>2. ASSUME NEW x \in Victims, x # v PROVE x \in Victims'
      <3>1. PICK u \in Threads : \E i \in DOMAIN local[u].victims : x = local[u].victims[i]
        BY <2>2, VictimsAre
      <3>2. PICK i \in DOMAIN local[u].victims : x = local[u].victims[i]
        BY <3>1
      <3>3. ~(u = t /\ i = 1)
        BY <1>3, <2>2, <3>2
      <3>4. PICK k \in DOMAIN local'[u].victims : Old(u, k) = i
        BY <1>10, <3>3
      <3>5. local'[u].victims[k] = x
        BY <1>9, <3>2, <3>4
      <3> QED
        BY <3>4, <3>5, VictimsAre
    <2> QED
      BY <2>1, <2>2
  <1>12. Entered'
    BY <1>0, <1>4, <1>8 DEF Entered, Done
  <1>13. Evicted'
    <2>1. ASSUME NEW u \in Threads, NEW w \in Threads, NEW i \in DOMAIN local'[u].victims, NEW k \in DOMAIN local'[w].victims,
                 local'[u].victims[i] = local'[w].victims[k]
          PROVE  u = w /\ i = k
      <3>1. Old(u, i) \in DOMAIN local[u].victims /\ local'[u].victims[i] = local[u].victims[Old(u, i)]
        BY <1>9
      <3>2. Old(w, k) \in DOMAIN local[w].victims /\ local'[w].victims[k] = local[w].victims[Old(w, k)]
        BY <1>9
      <3>3. u = w /\ Old(u, i) = Old(w, k)
        <4>1. \A a \in DOMAIN local[u].victims, b \in DOMAIN local[w].victims :
                local[u].victims[a] = local[w].victims[b] => u = w /\ a = b
          BY <1>0 DEF Evicted
        <4> HIDE DEF Old
        <4> QED
          BY <2>1, <3>1, <3>2, <4>1
      <3>4. u = t => i \in 1..m /\ k \in 1..m
        BY <1>b, <3>3
      <3>5. CASE u = t
        <4>1. i + 1 = k + 1 /\ i \in Int /\ k \in Int
          BY <3>3, <3>4, <3>5
        <4> QED
          BY <3>3, <4>1
      <3>6. CASE u # t
        BY <3>3, <3>6
      <3> QED
        BY <3>5, <3>6
    <2>2. \A x \in Victims' : x \notin Accounted'
      BY <1>0, <1>8, <1>11 DEF Evicted
    <2>3. ASSUME NEW u \in Threads, NEW i \in DOMAIN local'[u].victims, Awaiting(u, i)' PROVE Done(local[u].victims[i])'
      <3>1. /\ Old(u, i) \in DOMAIN local[u].victims /\ local'[u].victims[i] = local[u].victims[Old(u, i)]
            /\ Awaiting(u, Old(u, i))
        BY <1>9, <2>3
      <3> HIDE DEF Old
      <3>2. Done(local[u].victims[Old(u, i)])
        BY <1>0, <3>1 DEF Evicted
      <3> QED
        BY <1>4, <3>1, <3>2 DEF Done
    <2> QED
      BY <2>1, <2>2, <2>3 DEF Evicted
  <1>14. Kept'
    <2> SUFFICES ASSUME NEW j \in Jobs, jobs[j].state = "done", <<j, jobs[j].path>> \notin Accounted
                 PROVE  \E u \in Threads : \E i \in DOMAIN local'[u].victims :
                          Awaiting(u, i)' /\ local'[u].victims[i] = <<j, jobs[j].path>>
      BY <1>4, <1>8, ZenonT(60) DEF Kept
    <2>1. PICK u \in Threads : \E i \in DOMAIN local[u].victims : Awaiting(u, i) /\ local[u].victims[i] = <<j, jobs[j].path>>
      BY <1>0 DEF Kept
    <2>2. PICK i \in DOMAIN local[u].victims : Awaiting(u, i) /\ local[u].victims[i] = <<j, jobs[j].path>>
      BY <2>1
    <2>3. ~(u = t /\ i = 1)
      BY <1>1, <2>2 DEF Awaiting
    <2>4. PICK k \in DOMAIN local'[u].victims : Old(u, k) = i /\ Awaiting(u, k)'
      BY <1>10, <2>2, <2>3
    <2>5. local'[u].victims[k] = <<j, jobs[j].path>>
      BY <1>9, <2>2, <2>4
    <2> QED
      BY <2>4, <2>5
  <1>15. Doomed'
    <2> SUFFICES ASSUME NEW u \in Threads, NEW i \in DOMAIN local'[u].victims
                 PROVE  IF local'[u].at = "rmdir" /\ i = 1 THEN disk'[local'[u].victims[i]] = {"dir"}
                        ELSE disk'[local'[u].victims[i]] \in {Plain, Started, Zipped}
      BY DEF Doomed
    <2>1. /\ Old(u, i) \in DOMAIN local[u].victims /\ local'[u].victims[i] = local[u].victims[Old(u, i)]
          /\ ~(u = t /\ Old(u, i) = 1) /\ (local'[u].at = "rmdir" /\ i = 1 => u # t /\ local[u].at = "rmdir")
      BY <1>9
    <2>2. disk'[local'[u].victims[i]] = disk[local[u].victims[Old(u, i)]]
      <3> HIDE DEF Old
      <3>1. local[u].victims[Old(u, i)] \in Objects /\ local[u].victims[Old(u, i)] # v
        BY <1>0, <1>3, <2>1, Typed DEF Evicted
      <3> QED
        BY <1>7, <2>1, <3>1
    <2>3. local'[u].at = "rmdir" /\ i = 1 <=> local[u].at = "rmdir" /\ Old(u, i) = 1
      <3>1. CASE u = t
        BY <2>1, <3>1
      <3>2. CASE u # t
        BY <1>5, <3>2
      <3> QED
        BY <3>1, <3>2
    <2>4. IF local[u].at = "rmdir" /\ Old(u, i) = 1 THEN disk[local[u].victims[Old(u, i)]] = {"dir"}
          ELSE disk[local[u].victims[Old(u, i)]] \in {Plain, Started, Zipped}
      <3> HIDE DEF Old
      <3> QED
        BY <1>0, <2>1 DEF Doomed
    <2> QED
      BY <2>2, <2>3, <2>4
  <1>16. Owned'
    BY <1>0, <1>7, <1>8, <1>11 DEF Owned
  <1> QED
    BY <1>8, <1>12, <1>13, <1>14, <1>15, <1>16 DEF Exact

----------------------------------------------------------------------------
(* The accounting: _record.                                                *)

\* _record enters one directory and takes out the least recently used ones.
LEMMA RecordExact ==
  ASSUME IInv, GInv, GInv', Exact, Apart, Apart', NEW t \in Threads, Record(t)
  PROVE  Exact'
  <1>0. /\ StoreTypeOK /\ Working /\ Locked /\ local \in [Threads -> Locals]
        /\ Entered /\ Evicted /\ Stored /\ Doomed /\ Ran /\ Builders /\ Kept /\ Owned
    BY DEF GInv, Exact, StoreTypeOK
  <1>1. PICK e, vs : Recording(t, e, vs)
    BY <1>0, RecordIs DEF GInv, Safe
  <1>2. /\ local[t].at = "record" /\ jobs' = jobs /\ outcome' = outcome /\ disk' = disk /\ pc' = pc /\ held' = held
        /\ local[t].victims = <<>> /\ local[t].dir \in Objects
    BY <1>0 DEF Record, At, vars, StoreTypeOK, Evicting
  <1>3. /\ local'[t].at = IF vs = <<>> THEN After(t) ELSE "evict"
        /\ local'[t].dir = local[t].dir /\ local'[t].victims = vs
        /\ \A u \in Threads \ {t} : local'[u] = local[u]
    <2>1. local' = [local EXCEPT ![t].at = IF vs = <<>> THEN After(t) ELSE "evict", ![t].victims = vs]
      BY <1>1 DEF Recording
    <2> QED
      BY <1>0, <2>1 DEF Locals
  <1>4. e.dir = local[t].dir /\ e.size = local[t].size
    BY <1>1 DEF Recording
  <1>5. OnePerJob(usage)
    BY <1>0 DEF Entered, OnePerJob
  <1>6. /\ \E i \in DOMAIN usage' : usage'[i] = e
        /\ \A i \in DOMAIN usage' : usage'[i] = e \/ \E k \in DOMAIN usage : usage'[i] = usage[k]
        /\ \A i \in DOMAIN vs : \E k \in DOMAIN usage : vs[i] = usage[k].dir
        /\ \A k \in DOMAIN usage : usage[k].dir[1] # e.dir[1] =>
             (\E i \in DOMAIN usage' : usage'[i] = usage[k]) \/ \E i \in DOMAIN vs : vs[i] = usage[k].dir
        /\ OnePerJob(usage')
        /\ \A i \in DOMAIN usage' : usage'[i] = e \/ usage'[i].dir[1] # e.dir[1]
        /\ \A i \in DOMAIN vs : vs[i][1] # e.dir[1]
        /\ \A i, k \in DOMAIN vs : vs[i] = vs[k] => i = k
        /\ \A i \in DOMAIN vs, k \in DOMAIN usage' : vs[i] # usage'[k].dir
    BY <1>1, <1>5 DEF Recording
  \* What is known of the entry, by who makes it.
  <1>7. t = Worker => pc = "run" /\ W.at = "record" /\ W.dir = held /\ ~Finishing /\ e.dir = W.dir /\ e.size = W.size
    BY <1>0, <1>2, <1>4 DEF Working, Finishing, W
  <1>8. t # Worker => t \in Handlers /\ W' = W /\ e.dir \in Accounted /\ disk[e.dir] = Zipped /\ exportLock = t
    BY <1>0, <1>2, <1>3, <1>4, WorkerIsNoHandler DEF Builders, Threads, W, Locked, Locking
  <1>9. \A k \in DOMAIN usage : usage[k].dir[1] = e.dir[1] => usage[k].dir = e.dir
    <2>1. CASE t = Worker
      BY <1>0, <1>7, <2>1, NotAccounted
    <2>2. CASE t # Worker
      <3>1. PICK m \in DOMAIN usage : usage[m].dir = e.dir
        BY <1>8, <2>2, AccountedAre
      <3> QED
        BY <1>5, <3>1 DEF OnePerJob
    <2> QED
      BY <2>1, <2>2
  <1>10. e.dir \notin Victims
    <2>1. CASE t = Worker
      BY <1>7, <2>1 DEF Apart
    <2>2. CASE t # Worker
      BY <1>2, <1>4, <1>8, <2>2 DEF Apart, Building
    <2> QED
      BY <2>1, <2>2
  <1>11. /\ e.size = ResultSize[e.dir[1]] + (IF "zip" \in disk[e.dir] THEN ExportSize[e.dir[1]] ELSE 0)
         /\ disk[e.dir] \in {Plain, Started, Zipped}
    <2>1. CASE t = Worker
      <3>1. disk[e.dir] = Plain /\ e.size = ResultSize[e.dir[1]]
        BY <1>0, <1>7, <2>1 DEF Ran
      <3>2. ResultSize[e.dir[1]] \in Nat
        <4>1. e.dir[1] \in Jobs
          BY <1>2, <1>4 DEF Objects
        <4> QED
          BY <4>1, ResultStoreAssumption DEF ResultStoreAssumption
      <3>3. "zip" \notin Plain
        BY DEF Plain
      <3> QED
        BY <3>1, <3>2, <3>3
    <2>2. CASE t # Worker
      <3>1. disk[e.dir] = Zipped /\ e.size = ResultSize[e.dir[1]] + ExportSize[e.dir[1]]
        BY <1>0, <1>2, <1>4, <1>8, <2>2 DEF Builders
      <3> QED
        BY <3>1 DEF Zipped
    <2> QED
      BY <2>1, <2>2
  <1>12. ~Packing(e.dir)
    <2>1. CASE t = Worker
      <3>1. \A h \in Handlers : local[h].at # "idle" => local[h].dir # held
        BY <1>7, <2>1, OwnDirectory
      <3> QED
        BY <1>7, <2>1, <3>1 DEF Packing
    <2>2. CASE t # Worker
      BY <1>0, <1>2, <1>8, <2>2 DEF Packing, Locked, Locking
    <2> QED
      BY <2>1, <2>2
  \* What is accounted and evicted now.
  <1>13. \A d \in Accounted' : d = e.dir \/ d \in Accounted
    BY <1>6, AccountedAre
  <1>14. \A d \in Accounted : d \in Accounted' \/ \E i \in DOMAIN vs : vs[i] = d
    <2> SUFFICES ASSUME NEW k \in DOMAIN usage
                 PROVE  usage[k].dir \in Accounted' \/ \E i \in DOMAIN vs : vs[i] = usage[k].dir
      BY AccountedAre
    <2>1. CASE usage[k].dir[1] = e.dir[1]
      <3>1. usage[k].dir = e.dir
        BY <1>9, <2>1
      <3> QED
        BY <1>6, <3>1, AccountedAre
    <2>2. CASE usage[k].dir[1] # e.dir[1]
      BY <1>6, <2>2, AccountedAre
    <2> QED
      BY <2>1, <2>2
  <1>15. e.dir \in Accounted'
    BY <1>6, AccountedAre
  <1>16. \A i \in DOMAIN vs : vs[i] \in Accounted /\ vs[i] # e.dir /\ vs[i] \notin Accounted'
    BY <1>6, AccountedAre
  <1>17. \A v : v \in Victims' <=> v \in Victims \/ \E i \in DOMAIN vs : v = vs[i]
    <2>1. \A i : i \notin DOMAIN local[t].victims
      BY <1>2
    <2>2. \A v : (\E u \in Threads : \E i \in DOMAIN local'[u].victims : v = local'[u].victims[i])
               <=> (\E u \in Threads : \E i \in DOMAIN local[u].victims : v = local[u].victims[i]) \/ \E i \in DOMAIN vs : v = vs[i]
      BY <1>3, <2>1
    <2> QED
      BY <2>2, VictimsAre
  <1>18. \A i \in DOMAIN vs : vs[i] # W.dir
    <2>1. W'.dir = W.dir
      BY <1>3, WorkerIsNoHandler DEF W
    <2> QED
      BY <1>17, <2>1 DEF Apart
  <1>19. \A h \in Handlers : local'[h].at \in Building => h # t /\ local'[h] = local[h]
    BY <1>3 DEF After, Building, Threads
  <1>20. \A h \in Handlers, i \in DOMAIN vs : local'[h].at \in Building => local[h].dir # vs[i]
    BY <1>17, <1>19 DEF Apart
  <1>21. \A d : Packing(d)' <=> Packing(d)
    <2>1. \A h \in Handlers : local'[h].at \in {"copy", "replace"} <=> local[h].at \in {"copy", "replace"}
      BY <1>2, <1>3 DEF After, Threads
    <2>2. \A h \in Handlers : local'[h].dir = local[h].dir
      BY <1>3 DEF Threads
    <2> QED
      BY <2>1, <2>2 DEF Packing
  <1>22. W'.dir = W.dir /\ (W'.at # "idle" <=> W.at # "idle") /\ (W.at = "idle" => W' = W)
    BY <1>2, <1>3, WorkerIsNoHandler DEF W, After
  <1>23. Entered'
    <2>1. ASSUME NEW i \in DOMAIN usage' PROVE Done(usage'[i].dir) \/ (W.at # "idle" /\ usage'[i].dir = W.dir)
      <3>1. usage'[i].dir = e.dir \/ usage'[i].dir \in Accounted
        BY <1>13, AccountedAre
      <3>2. CASE usage'[i].dir \in Accounted
        BY <1>0, <3>2, AccountedAre DEF Entered
      <3>3. CASE usage'[i].dir = e.dir /\ t = Worker
        BY <1>7, <3>3
      <3>4. CASE usage'[i].dir = e.dir /\ t # Worker
        BY <1>8, <3>2, <3>4
      <3> QED
        BY <3>1, <3>2, <3>3, <3>4
    <2>2. \A i \in DOMAIN usage' : Done(usage[i].dir)' \/ (W'.at # "idle" /\ usage'[i].dir = W'.dir)
      BY <1>2, <1>22, <2>1 DEF Done
    <2>3. W'.at # "idle" => (W'.dir \in Accounted' <=> Finishing')
      <3>1. CASE t = Worker
        <4>1. Finishing'
          BY <1>3, <3>1, WorkerIsNoHandler DEF Finishing, W, After
        <4> QED
          BY <1>7, <1>15, <1>22, <3>1, <4>1
      <3>2. CASE t # Worker
        <4>1. Finishing' <=> Finishing
          BY <1>2, <1>8, <3>2 DEF Finishing
        <4>2. W.dir \in Accounted' <=> W.dir \in Accounted
          BY <1>8, <1>13, <1>14, <1>18, <3>2
        <4> QED
          BY <1>0, <1>8, <3>2, <4>1, <4>2 DEF Entered
      <3> QED
        BY <3>1, <3>2
    <2>4. W'.at = "idle" => W'.dir = None
      BY <1>0, <1>22 DEF Entered
    <2>5. \A i, k \in DOMAIN usage' : usage'[i].dir[1] = usage'[k].dir[1] => i = k
      BY <1>6 DEF OnePerJob
    <2> QED
      BY <2>2, <2>3, <2>4, <2>5 DEF Entered
  <1>24. Evicted'
    <2>1. ASSUME NEW u \in Threads, NEW w \in Threads, NEW i \in DOMAIN local'[u].victims, NEW k \in DOMAIN local'[w].victims,
                 local'[u].victims[i] = local'[w].victims[k]
          PROVE  u = w /\ i = k
      <3>1. CASE u = t /\ w = t
        BY <1>3, <1>6, <2>1, <3>1
      <3>2. CASE u # t /\ w # t
        BY <1>0, <1>3, <2>1, <3>2 DEF Evicted
      <3>3. \A x \in Threads \ {t} : \A m \in DOMAIN local[x].victims : local[x].victims[m] \notin Accounted
        BY <1>0, VictimsAre DEF Evicted
      <3>4. CASE u = t /\ w # t
        BY <1>3, <1>16, <2>1, <3>3, <3>4
      <3>5. CASE u # t /\ w = t
        BY <1>3, <1>16, <2>1, <3>3, <3>5
      <3> QED
        BY <3>1, <3>2, <3>4, <3>5
    <2>2. \A v \in Victims' : v \notin Accounted'
      BY <1>0, <1>10, <1>13, <1>16, <1>17 DEF Evicted
    <2>3. ASSUME NEW u \in Threads, NEW i \in DOMAIN local'[u].victims, Awaiting(u, i)' PROVE Done(local'[u].victims[i])
      <3>1. CASE u = t
        <4>1. vs[i] \in Accounted /\ vs[i] # W.dir
          BY <1>3, <1>16, <1>18, <3>1
        <4> QED
          BY <1>0, <1>3, <3>1, <4>1, AccountedAre DEF Entered
      <3>2. CASE u # t
        <4>1. Awaiting(u, i) /\ local'[u] = local[u]
          BY <1>3, <2>3, <3>2 DEF Awaiting
        <4> QED
          BY <1>0, <4>1 DEF Evicted
      <3> QED
        BY <3>1, <3>2
    <2>4. \A u \in Threads : \A i \in DOMAIN local'[u].victims : Awaiting(u, i)' => Done(local[u].victims[i])'
      BY <1>2, <2>3 DEF Done
    <2> QED
      BY <2>1, <2>2, <2>4 DEF Evicted
  <1>25. Stored'
    <2> SUFFICES ASSUME NEW i \in DOMAIN usage'
                 PROVE  LET d == usage'[i].dir
                        IN /\ disk[d] \in (IF Packing(d) THEN {Started} ELSE {Plain, Started, Zipped})
                           /\ \/ usage'[i].size = ResultSize[d[1]] + (IF "zip" \in disk[d] THEN ExportSize[d[1]] ELSE 0)
                              \/ \E h \in Handlers : local'[h].at = "record" /\ local'[h].dir = d
      BY <1>2, <1>21 DEF Stored, Packing
    <2>1. CASE usage'[i] = e
      BY <1>11, <1>12, <2>1
    <2>2. CASE usage'[i] # e
      <3>1. PICK k \in DOMAIN usage : usage'[i] = usage[k] /\ usage[k].dir # e.dir
        BY <1>6, <2>2
      <3>2. \A h \in Handlers : local[h].at = "record" /\ local[h].dir = usage[k].dir => local'[h] = local[h]
        BY <1>3, <1>4, <3>1 DEF Threads
      <3>3. LET d == usage[k].dir
            IN /\ disk[d] \in (IF Packing(d) THEN {Started} ELSE {Plain, Started, Zipped})
               /\ \/ usage[k].size = ResultSize[d[1]] + (IF "zip" \in disk[d] THEN ExportSize[d[1]] ELSE 0)
                  \/ \E h \in Handlers : local[h].at = "record" /\ local[h].dir = d
        BY <1>0 DEF Stored
      <3> QED
        BY <3>1, <3>2, <3>3
    <2> QED
      BY <2>1, <2>2
  <1>26. Doomed'
    <2> SUFFICES ASSUME NEW u \in Threads, NEW i \in DOMAIN local'[u].victims
                 PROVE  IF local'[u].at = "rmdir" /\ i = 1 THEN disk[local'[u].victims[i]] = {"dir"}
                        ELSE disk[local'[u].victims[i]] \in {Plain, Started, Zipped}
      BY <1>2 DEF Doomed
    <2>1. CASE u # t
      BY <1>0, <1>3, <2>1, ZenonT(60) DEF Doomed
    <2>2. CASE u = t
      <3>1. local'[t].at # "rmdir" /\ local'[t].victims[i] = vs[i] /\ i \in DOMAIN vs
        BY <1>3, <2>2 DEF After
      <3>2. PICK k \in DOMAIN usage : vs[i] = usage[k].dir
        BY <1>6, <3>1
      <3>3. ~Packing(vs[i])
        <4>1. ASSUME NEW h \in Handlers, local[h].at \in {"copy", "replace"}, local[h].dir = vs[i] PROVE FALSE
          <5>1. h # t
            BY <1>2, <4>1
          <5>2. local'[h].at \in Building
            BY <1>3, <4>1, <5>1 DEF Threads, Building
          <5> QED
            BY <1>20, <3>1, <4>1, <5>2
        <4> QED
          BY <4>1 DEF Packing
      <3> QED
        BY <1>0, <2>2, <3>1, <3>2, <3>3 DEF Stored
    <2> QED
      BY <2>1, <2>2
  <1>27. Ran'
    <2>1. CASE t = Worker
      <3>1. W'.at \in {"return", "evict"}
        BY <1>3, <2>1 DEF W, After
      <3> QED
        BY <3>1 DEF Ran
    <2>2. CASE t # Worker
      BY <1>0, <1>2, <1>8, <2>2 DEF Ran
    <2> QED
      BY <2>1, <2>2
  <1>28. Builders'
    <2>1. ASSUME NEW h \in Handlers, local'[h].at \in Building
          PROVE  local'[h] = local[h] /\ (local[h].dir \in Accounted => local[h].dir \in Accounted')
      BY <1>14, <1>19, <1>20, <2>1
    <2> QED
      BY <1>0, <1>2, <2>1 DEF Builders, Building
  <1>29. Kept'
    <2> SUFFICES ASSUME NEW j \in Jobs, jobs[j].state = "done"
                 PROVE  \/ <<j, jobs[j].path>> \in Accounted'
                        \/ \E u \in Threads : \E i \in DOMAIN local'[u].victims :
                             Awaiting(u, i)' /\ local'[u].victims[i] = <<j, jobs[j].path>>
      BY <1>2 DEF Kept
    <2>1. CASE <<j, jobs[j].path>> \in Accounted /\ <<j, jobs[j].path>> \notin Accounted'
      <3>1. PICK i \in DOMAIN vs : vs[i] = <<j, jobs[j].path>>
        BY <1>14, <2>1
      <3>2. vs # <<>>
        BY <3>1
      <3>3. Awaiting(t, i)'
        BY <1>3, <3>1, <3>2 DEF Awaiting
      <3> QED
        BY <1>3, <3>1, <3>3
    <2>2. CASE <<j, jobs[j].path>> \notin Accounted
      <3>1. PICK u \in Threads : \E i \in DOMAIN local[u].victims : Awaiting(u, i) /\ local[u].victims[i] = <<j, jobs[j].path>>
        BY <1>0, <2>2 DEF Kept
      <3>2. u # t
        BY <1>2, <3>1
      <3>3. local'[u] = local[u] /\ \A i : Awaiting(u, i)' <=> Awaiting(u, i)
        BY <1>3, <3>2 DEF Awaiting
      <3> QED
        BY <3>1, <3>3
    <2> QED
      BY <2>1, <2>2
  <1>30. Owned'
    BY <1>0, <1>2, <1>14, <1>17, <1>22 DEF Owned
  <1> QED
    BY <1>23, <1>24, <1>25, <1>26, <1>27, <1>28, <1>29, <1>30 DEF Exact

----------------------------------------------------------------------------
(* The accounting: handlers.                                               *)

\* The entries stay, in whatever order.
SameEntries ==
  /\ \A i \in DOMAIN usage' : \E k \in DOMAIN usage : usage'[i] = usage[k]
  /\ \A k \in DOMAIN usage : \E i \in DOMAIN usage' : usage'[i] = usage[k]
  /\ OnePerJob(usage')

\* The entries stay if usage does.
LEMMA UnchangedEntries == ASSUME Entered, usage' = usage PROVE SameEntries
  <1>1. OnePerJob(usage)
    BY DEF Entered, OnePerJob
  <1> QED
    BY <1>1 DEF SameEntries, OnePerJob

\* A handler moves, not into an eviction nor out of one.
ServeMoves(h) ==
  /\ \A u \in Threads \ {h} : local'[u] = local[u]
  /\ local[h].at \notin Evicting /\ local'[h].at \notin Evicting
  /\ local[h].victims = <<>> /\ local'[h].victims = <<>>
  /\ jobs' = jobs /\ outcome' = outcome
  /\ SameEntries

\* A handler's move that keeps every directory and every entry.
LEMMA ServeFrame ==
  ASSUME StoreTypeOK, Exact, NEW h \in Handlers, ServeMoves(h)
  PROVE  /\ Entered' /\ Evicted' /\ Kept' /\ W' = W
         /\ \A d : d \in Accounted' <=> d \in Accounted
         /\ \A d : d \in Victims' <=> d \in Victims
  <1>1. \A d : d \in Accounted' <=> d \in Accounted
    <2>1. \A d : (\E i \in DOMAIN usage' : d = usage'[i].dir) <=> (\E i \in DOMAIN usage : d = usage[i].dir)
      BY DEF ServeMoves, SameEntries
    <2> QED
      BY <2>1, AccountedAre
  <1>2. W' = W
    BY WorkerIsNoHandler DEF ServeMoves, W
  <1>3. \A t \in Threads : /\ local'[t].victims = local[t].victims
                           /\ (local'[t].at = "evict" <=> local[t].at = "evict")
    BY DEF ServeMoves, Evicting
  <1>4. \A d : d \in Victims' <=> d \in Victims
    BY <1>3, VictimsAre
  <1>5. \A t \in Threads : \A i : Awaiting(t, i)' <=> Awaiting(t, i)
    BY <1>3 DEF Awaiting
  <1>6. Entered'
    <2>1. \A i \in DOMAIN usage' : Done(usage'[i].dir) \/ (W.at # "idle" /\ usage'[i].dir = W.dir)
      BY DEF ServeMoves, SameEntries, Exact, Entered
    <2>2. \A i \in DOMAIN usage' : Done(usage[i].dir)' \/ (W'.at # "idle" /\ usage'[i].dir = W'.dir)
      BY <1>2, <2>1 DEF ServeMoves, Done
    <2>3. \A i, k \in DOMAIN usage' : usage'[i].dir[1] = usage'[k].dir[1] => i = k
      BY DEF ServeMoves, SameEntries, OnePerJob
    <2>4. W'.at # "idle" => (W'.dir \in Accounted' <=> Finishing')
      BY <1>1, <1>2 DEF ServeMoves, Exact, Entered, Finishing
    <2>5. W'.at = "idle" => W'.dir = None
      BY <1>2 DEF Exact, Entered
    <2> QED
      BY <2>2, <2>3, <2>4, <2>5 DEF Entered
  <1>7. Evicted'
    <2>1. \A t \in Threads : \A i \in DOMAIN local[t].victims : Awaiting(t, i) => Done(local[t].victims[i])'
      BY <1>3 DEF ServeMoves, Exact, Evicted, Done
    <2> QED
      BY <1>1, <1>3, <1>4, <1>5, <2>1 DEF Exact, Evicted
  <1>8. Kept'
    BY <1>1, <1>3, <1>5 DEF ServeMoves, Exact, Kept
  <1> QED
    BY <1>1, <1>2, <1>4, <1>6, <1>7, <1>8

\* A handler that builds nothing before or after.
LEMMA ServeQuiet ==
  ASSUME StoreTypeOK, Exact, NEW h \in Handlers, ServeMoves(h), disk' = disk,
         local[h].at \notin Building, local'[h].at \notin Building
  PROVE  Exact'
  <1>1. /\ Entered' /\ Evicted' /\ Kept' /\ W' = W
        /\ \A d : d \in Accounted' <=> d \in Accounted
        /\ \A d : d \in Victims' <=> d \in Victims
    BY ServeFrame
  <1>2. \A k \in Handlers : /\ (local'[k].at \in Building <=> local[k].at \in Building)
                            /\ (local'[k].at \in Building => local'[k] = local[k])
    BY DEF ServeMoves, Threads
  <1>3. \A d : Packing(d)' <=> Packing(d)
    BY <1>2 DEF Packing, Building
  <1>4. Stored'
    <2> SUFFICES ASSUME NEW i \in DOMAIN usage'
                 PROVE  LET d == usage'[i].dir
                        IN /\ disk[d] \in (IF Packing(d) THEN {Started} ELSE {Plain, Started, Zipped})
                           /\ \/ usage'[i].size = ResultSize[d[1]] + (IF "zip" \in disk[d] THEN ExportSize[d[1]] ELSE 0)
                              \/ \E k \in Handlers : local'[k].at = "record" /\ local'[k].dir = d
      BY <1>3 DEF Stored, Packing
    <2>1. PICK m \in DOMAIN usage : usage'[i] = usage[m]
      BY DEF ServeMoves, SameEntries
    <2>2. \A k \in Handlers : local[k].at = "record" => local'[k] = local[k]
      BY <1>2 DEF Building
    <2> QED
      BY <2>1, <2>2 DEF Exact, Stored
  <1>5. Doomed'
    <2>1. \A t \in Threads : local'[t].victims = local[t].victims /\ (local'[t].at = "rmdir" <=> local[t].at = "rmdir")
      BY DEF ServeMoves, Evicting
    <2> QED
      BY <2>1 DEF Exact, Doomed
  <1>6. Ran'
    BY <1>1 DEF Exact, Ran, ServeMoves
  <1>7. Builders'
    BY <1>1, <1>2 DEF Exact, Builders, Building
  <1>8. Owned'
    BY <1>1 DEF Exact, Owned
  <1> QED
    BY <1>1, <1>4, <1>5, <1>6, <1>7, <1>8 DEF Exact

\* The one handler that builds, in directory d.
LEMMA BuilderFrame ==
  ASSUME StoreTypeOK, Exact, NEW h \in Handlers, ServeMoves(h), usage' = usage,
         \A k \in Handlers \ {h} : local[k].at \notin Building,
         NEW d \in Objects, d = local[h].dir, local'[h].at \in Building => local'[h].dir = d,
         d \notin Victims, d # W.dir, \A x \in Objects : x # d => disk'[x] = disk[x],
         \A i \in DOMAIN usage : usage[i].dir = d =>
           /\ disk'[d] \in (IF local'[h].at \in {"copy", "replace"} THEN {Started} ELSE {Plain, Started, Zipped})
           /\ \/ usage[i].size = ResultSize[d[1]] + (IF "zip" \in disk'[d] THEN ExportSize[d[1]] ELSE 0)
              \/ local'[h].at = "record",
         local'[h].at = "create" => disk'[d] = {} \/ (d \in Accounted /\ local'[h].whole /\ disk'[d] \in {Plain, Started}),
         local'[h].at \in {"copy", "replace"} => d \in Accounted /\ local'[h].whole,
         local'[h].at = "record" =>
           d \in Accounted /\ disk'[d] = Zipped /\ local'[h].size = ResultSize[d[1]] + ExportSize[d[1]],
         disk'[d] # {} => d \in Accounted
  PROVE  Exact'
  <1>1. /\ Entered' /\ Evicted' /\ Kept' /\ W' = W
        /\ \A x : x \in Accounted' <=> x \in Accounted
        /\ \A x : x \in Victims' <=> x \in Victims
    BY ServeFrame
  <1>2. \A k \in Handlers \ {h} : local'[k] = local[k] /\ local'[k].at \notin Building
    BY DEF ServeMoves, Threads
  <1>3. Stored'
    <2> SUFFICES ASSUME NEW i \in DOMAIN usage, NEW c \in Objects, c = usage[i].dir
                 PROVE  /\ disk'[c] \in (IF Packing(c)' THEN {Started} ELSE {Plain, Started, Zipped})
                        /\ \/ usage[i].size = ResultSize[c[1]] + (IF "zip" \in disk'[c] THEN ExportSize[c[1]] ELSE 0)
                           \/ \E k \in Handlers : local'[k].at = "record" /\ local'[k].dir = c
      BY Typed DEF Stored, Packing
    <2>1. CASE c = d
      <3>1. Packing(c)' <=> local'[h].at \in {"copy", "replace"}
        BY <1>2, <2>1 DEF Packing, Building
      <3>2. local'[h].at = "record" => local'[h].dir = c
        BY <2>1 DEF Building
      <3> QED
        BY <2>1, <3>1, <3>2
    <2>2. CASE c # d
      <3>1. ~Packing(c)' /\ ~Packing(c)
        BY <1>2, <2>2 DEF Packing, Building
      <3>2. \A k \in Handlers : ~(local[k].at = "record" /\ local[k].dir = c)
        BY <2>2 DEF Building
      <3>3. disk'[c] = disk[c]
        BY <2>2
      <3> QED
        BY <3>1, <3>2, <3>3 DEF Exact, Stored
    <2> QED
      BY <2>1, <2>2
  <1>4. Doomed'
    <2>1. \A t \in Threads : local'[t].victims = local[t].victims /\ (local'[t].at = "rmdir" <=> local[t].at = "rmdir")
      BY DEF ServeMoves, Evicting
    <2>2. \A t \in Threads : \A i \in DOMAIN local[t].victims : disk'[local[t].victims[i]] = disk[local[t].victims[i]]
      BY Typed, VictimsAre
    <2> QED
      BY <2>1, <2>2 DEF Exact, Doomed
  <1>5. Ran'
    <2>1. W.at # "idle" => W.dir \in Objects
      BY WorkerIsNoHandler DEF StoreTypeOK, W
    <2>2. W.at # "idle" => disk'[W.dir] = disk[W.dir]
      BY <2>1
    <2> QED
      BY <1>1, <2>2 DEF Exact, Ran, ServeMoves
  <1>6. Builders'
    <2> SUFFICES ASSUME NEW k \in Handlers, local'[k].at \in Building
                 PROVE  LET c == local'[k].dir IN
                        /\ local'[k].at = "create" => disk'[c] = {} \/ (c \in Accounted /\ local'[k].whole /\ disk'[c] \in {Plain, Started})
                        /\ local'[k].at \in {"copy", "replace"} => c \in Accounted /\ local'[k].whole
                        /\ local'[k].at = "record" => c \in Accounted /\ disk'[c] = Zipped
                                                      /\ local'[k].size = ResultSize[c[1]] + ExportSize[c[1]]
      BY <1>1 DEF Builders, Building
    <2>1. k = h
      BY <1>2
    <2> QED
      BY <2>1
  <1>7. Owned'
    <2> SUFFICES ASSUME NEW x \in Objects, disk'[x] # {} PROVE x \in Accounted \/ x \in Victims \/ x = W.dir
      BY <1>1 DEF Owned
    <2>1. CASE x = d
      BY <2>1
    <2>2. CASE x # d
      BY <2>2 DEF Exact, Owned
    <2> QED
      BY <2>1, <2>2
  <1> QED
    BY <1>1, <1>3, <1>4, <1>5, <1>6, <1>7 DEF Exact

\* A touched entry is put last.
LEMMA TouchSame ==
  ASSUME StoreTypeOK, Entered, NEW job, Accounts(job), usage' = Append(Without(usage, Place(job)), usage[Place(job)])
  PROVE  SameEntries
  <1> DEFINE p == Place(job)
             s == Without(usage, p)
             e == usage[p]
  <1>0. usage \in Seq(Entries) /\ OnePerJob(usage)
    BY DEF StoreTypeOK, Entered, OnePerJob
  <1>1. /\ p \in 1..Len(usage) /\ e.dir[1] = job /\ s \in Seq(Entries)
        /\ \A i \in DOMAIN s : \E k \in DOMAIN usage : s[i] = usage[k]
        /\ \A k \in DOMAIN usage : usage[k].dir[1] # job => \E i \in DOMAIN s : s[i] = usage[k]
        /\ OnePerJob(s) /\ \A i \in DOMAIN s : s[i].dir[1] # job
    BY <1>0, PoppedIs
  <1>2. e \in Entries /\ p \in DOMAIN usage
    BY <1>0, <1>1, ElementOfSeq, LenProperties
  <1>3. usage' = Append(s, e)
    OBVIOUS
  <1>4. \A k \in DOMAIN usage : usage[k].dir[1] = job => usage[k] = e
    BY <1>0, <1>1, <1>2 DEF OnePerJob
  <1>5. \E k \in DOMAIN usage : e = usage[k]
    BY <1>2
  <1> HIDE DEF s, e
  <1>6. /\ Len(s) + 1 \in DOMAIN usage' /\ usage'[Len(s) + 1] = e
        /\ \A i \in DOMAIN usage' : usage'[i] = e \/ (i \in DOMAIN s /\ usage'[i] = s[i])
        /\ \A i \in DOMAIN s : i \in DOMAIN usage' /\ usage'[i] = s[i]
        /\ OnePerJob(usage')
    <2>1. /\ Append(s, e) \in Seq(Entries) /\ Len(Append(s, e)) = Len(s) + 1 /\ Append(s, e)[Len(s) + 1] = e
          /\ \A i \in DOMAIN Append(s, e) : Append(s, e)[i] = e \/ (i \in DOMAIN s /\ Append(s, e)[i] = s[i])
          /\ \A i \in DOMAIN s : i \in DOMAIN Append(s, e) /\ Append(s, e)[i] = s[i]
          /\ OnePerJob(Append(s, e))
      <3>1. \A i \in DOMAIN s : s[i].dir[1] # e.dir[1]
        BY <1>1
      <3> HIDE DEF p
      <3>2. s \in Seq(Entries) /\ OnePerJob(s) /\ e \in Entries
        BY <1>1, <1>2
      <3> QED
        BY <3>1, <3>2, PutLast
    <2>2. Len(s) + 1 \in DOMAIN Append(s, e)
      BY <1>1, <2>1, LenProperties
    <2> QED
      BY <1>3, <2>1, <2>2
  <1>7. ASSUME NEW i \in DOMAIN usage' PROVE \E k \in DOMAIN usage : usage'[i] = usage[k]
    <2>1. CASE usage'[i] = e
      BY <1>5, <2>1
    <2>2. CASE i \in DOMAIN s /\ usage'[i] = s[i]
      BY <1>1, <2>2
    <2> QED
      BY <1>6, <2>1, <2>2
  <1>8. ASSUME NEW k \in DOMAIN usage PROVE \E i \in DOMAIN usage' : usage'[i] = usage[k]
    <2>1. CASE usage[k].dir[1] = job
      BY <1>4, <1>6, <2>1
    <2>2. CASE usage[k].dir[1] # job
      <3>1. PICK i \in DOMAIN s : s[i] = usage[k]
        BY <1>1, <2>2
      <3> QED
        BY <1>6, <3>1
    <2> QED
      BY <2>1, <2>2
  <1> QED
    BY <1>6, <1>7, <1>8 DEF SameEntries

\* A builder's directory is accounted if anything of it is there.
LEMMA BuiltIn ==
  ASSUME IInv, GInv, Exact, NEW h \in Handlers, local[h].at # "idle", local[h].dir \notin Victims
  PROVE  /\ local[h].dir \in Objects /\ local[h].dir # W.dir
         /\ disk[local[h].dir] # {} => local[h].dir \in Accounted
  <1>1. local[h].dir \in Objects
    BY WorkerIsNoHandler DEF GInv, StoreTypeOK
  <1>2. local[h].dir # W.dir
    <2>1. CASE W.at = "idle"
      BY <1>1, <2>1, NoneIsNoObject DEF Exact, Entered
    <2>2. CASE W.at # "idle"
      BY <2>2, OwnDirectory DEF GInv, Working
    <2> QED
      BY <2>1, <2>2
  <1> QED
    BY <1>1, <1>2 DEF Exact, Owned

\* The steps of _export.
LEMMA ExportStepExact ==
  ASSUME IInv, GInv, Exact, Apart, Apart', NEW h \in Handlers, ExportStep(h)
  PROVE  Exact'
  <1>0. /\ StoreTypeOK /\ Locked /\ Entered /\ Stored /\ Builders /\ local \in [Threads -> Locals] /\ h \in Threads
        /\ local[h] \in Locals /\ disk \in [Objects -> SUBSET Files]
    BY WorkerIsNoHandler DEF GInv, Exact, StoreTypeOK
  <1>1. usage' = usage /\ jobs' = jobs /\ outcome' = outcome /\ SameEntries
    <2>1. usage' = usage /\ jobs' = jobs /\ outcome' = outcome
      BY DEF ExportStep, vars
    <2> QED
      BY <1>0, <2>1, UnchangedEntries
  <1>2. local[h].at \in {"lock", "create", "copy", "replace", "unlock"}
    BY DEF ExportStep, LockExport, CreatePartial, CopyResult, ReplaceArchive, FailExport, UnlockExport, At
  <1>3. local[h].victims = <<>> /\ local[h].at \notin Evicting /\ local[h].at # "idle"
    BY <1>0, <1>2 DEF StoreTypeOK, Evicting
  <1>4. (local[h].at = "lock" => exportLock = None) => exportLock \in {h, None}
    BY <1>0, <1>2 DEF Locked, Locking
  <1>5. exportLock \in {h, None}
    BY <1>4 DEF ExportStep, LockExport, CreatePartial, CopyResult, ReplaceArchive, FailExport, UnlockExport, At
  <1>6. \A k \in Handlers \ {h} : local[k].at \notin Building
    BY <1>0, <1>5, WorkerIsNoHandler DEF Locked, Locking, Building
  <1>7. PICK d \in Objects : d = local[h].dir
    BY <1>0, <1>3 DEF StoreTypeOK
  <1>8. d[1] \in Jobs /\ ResultSize[d[1]] \in Nat /\ ExportSize[d[1]] \in Nat
    BY ResultStoreAssumption DEF ResultStoreAssumption, Objects
  \* Before the step: what an entry of d says.
  <1>9. ASSUME NEW i \in DOMAIN usage, usage[i].dir = d
        PROVE  /\ disk[d] \in (IF local[h].at \in {"copy", "replace"} THEN {Started} ELSE {Plain, Started, Zipped})
               /\ usage[i].size = ResultSize[d[1]] + (IF "zip" \in disk[d] THEN ExportSize[d[1]] ELSE 0)
    <2>1. Packing(d) <=> local[h].at \in {"copy", "replace"}
      BY <1>6, <1>7 DEF Packing, Building
    <2>2. \A k \in Handlers : local[k].at # "record"
      BY <1>2, <1>6 DEF Building
    <2> QED
      BY <1>0, <1>9, <2>1, <2>2 DEF Stored
  <1>10. ASSUME NEW p \in Places \ Evicting, NEW l \in Locals, local' = [local EXCEPT ![h] = l], l.at = p, l.victims = <<>>
         PROVE  ServeMoves(h) /\ local'[h] = l
    BY <1>0, <1>1, <1>3, <1>10 DEF ServeMoves
  <1>11. ASSUME NEW p \in Places \ Evicting, Goto(h, p)
         PROVE  /\ ServeMoves(h) /\ local'[h].at = p /\ local'[h].dir = d /\ local'[h].whole = local[h].whole
    <2>1. /\ local'[h].at = p /\ local'[h].dir = d /\ local'[h].whole = local[h].whole /\ local'[h].victims = <<>>
          /\ \A u \in Threads \ {h} : local'[u] = local[u]
      BY <1>0, <1>3, <1>7, <1>11, Going
    <2> QED
      BY <1>1, <1>3, <2>1 DEF ServeMoves
  <1>12. ASSUME Abort(h) PROVE ServeMoves(h) /\ local'[h].at = "idle"
    <2>1. local' = [local EXCEPT ![h] = Idle] /\ Idle.at = "idle" /\ Idle.victims = <<>> /\ "idle" \in Places \ Evicting
      BY <1>12 DEF Abort, Idle, Places, Evicting
    <2> QED
      BY <1>10, <2>1, IdleIsLocal
  \* A builder's directory is no victim: now, or, if it becomes one by this step, then.
  <1>13. ASSUME ServeMoves(h), local[h].at \in Building \/ (local'[h].at \in Building /\ local'[h].dir = d)
         PROVE  d \notin Victims /\ d # W.dir /\ (disk[d] # {} => d \in Accounted)
    <2>1. \A x : x \in Victims' <=> x \in Victims
      BY <1>0, <1>13, ServeFrame
    <2>2. d \notin Victims
      BY <1>7, <1>13, <2>1 DEF Apart
    <2> QED
      BY <1>3, <1>7, <2>2, BuiltIn
  <1>14. d \in Accounted => \E i \in DOMAIN usage : usage[i].dir = d
    BY AccountedAre
  <1>15. CASE LockExport(h)
    <2> DEFINE p == IF disk[d] \intersect Archives # {} THEN "unlock" ELSE "create"
               b == "result" \in disk[d]
               l == [local[h] EXCEPT !.at = p, !.whole = b]
    <2>1. local[h].at = "lock" /\ disk' = disk /\ local' = [local EXCEPT ![h] = l]
      BY <1>0, <1>7, <1>15 DEF LockExport, At
    <2>2. p \in Places \ Evicting /\ b \in BOOLEAN
      BY DEF Places, Evicting
    <2>3. l \in Locals
      <3> HIDE DEF p, b
      <3> QED
        BY <1>0, <2>2, LocalMoved
    <2>4. l.at = p /\ l.victims = <<>> /\ l.dir = d /\ l.whole = b
      BY <1>0, <1>3, <1>7 DEF Locals
    <2>5. ServeMoves(h) /\ local'[h] = l
      <3> HIDE DEF l, p
      <3> QED
        BY <1>10, <2>1, <2>2, <2>3, <2>4
    <2>6. CASE disk[d] \intersect Archives # {}
      <3>1. local[h].at \notin Building /\ local'[h].at \notin Building
        BY <2>1, <2>4, <2>5, <2>6 DEF Building
      <3> QED
        BY <1>0, <2>1, <2>5, <3>1, ServeQuiet
    <2>7. CASE disk[d] \intersect Archives = {}
      <3>1. local'[h].at = "create" /\ local'[h].dir = d /\ (local'[h].whole <=> "result" \in disk[d])
        BY <2>4, <2>5, <2>7
      <3>2. d \notin Victims /\ d # W.dir /\ (disk[d] # {} => d \in Accounted)
        BY <1>13, <2>5, <3>1 DEF Building
      <3>3. disk[d] # {} => disk[d] \in {Plain, Started}
        <4>1. disk[d] # {} => disk[d] \in {Plain, Started, Zipped}
          BY <1>9, <1>14, <2>1, <3>2
        <4> QED
          BY <2>7, <4>1 DEF Zipped, Archives
      <3>4. disk[d] = {} \/ (d \in Accounted /\ local'[h].whole /\ disk[d] \in {Plain, Started})
        BY <3>1, <3>2, <3>3 DEF Plain, Started
      <3>5. \A i \in DOMAIN usage : usage[i].dir = d =>
              disk[d] \in {Plain, Started, Zipped} /\ usage[i].size = ResultSize[d[1]] + (IF "zip" \in disk[d] THEN ExportSize[d[1]] ELSE 0)
        BY <1>9, <2>1
      <3> HIDE DEF l, p, b
      <3> QED
        BY <1>0, <1>1, <1>6, <1>7, <2>1, <2>5, <3>1, <3>2, <3>4, <3>5, BuilderFrame
    <2> QED
      BY <2>6, <2>7
  <1>16. ASSUME Abort(h), local[h].at \in Building, disk'[d] \in {Plain, Started, Zipped, {}}, "zip" \in disk'[d] <=> "zip" \in disk[d],
                disk[d] = {} <=> disk'[d] = {}, \A x \in Objects : x # d => disk'[x] = disk[x]
         PROVE  Exact'
    <2>1. ServeMoves(h) /\ local'[h].at = "idle"
      BY <1>12, <1>16
    <2>2. d \notin Victims /\ d # W.dir /\ (disk[d] # {} => d \in Accounted)
      BY <1>13, <1>16, <2>1
    <2>3. \A i \in DOMAIN usage : usage[i].dir = d =>
            disk'[d] \in {Plain, Started, Zipped} /\ usage[i].size = ResultSize[d[1]] + (IF "zip" \in disk'[d] THEN ExportSize[d[1]] ELSE 0)
      <3>1. Plain # {} /\ Zipped # {} /\ Started # {}
        BY DEF Plain, Started, Zipped
      <3> QED
        BY <1>9, <1>16, <3>1
    <2>4. "idle" \notin Building
      BY DEF Building
    <2> QED
      BY <1>0, <1>1, <1>6, <1>7, <1>16, <2>1, <2>2, <2>3, <2>4, BuilderFrame
  <1>17. CASE CreatePartial(h)
    <2>1. local[h].at = "create" /\ local[h].at \in Building /\ (disk[d] = {} \/ (d \in Accounted /\ local[h].whole /\ disk[d] \in {Plain, Started}))
      BY <1>0, <1>7, <1>17 DEF CreatePartial, At, Building, Builders
    <2>2. CASE disk[d] = {}
      <3>1. Abort(h) /\ disk' = disk
        BY <1>7, <1>17, <2>2 DEF CreatePartial
      <3> QED
        BY <1>16, <2>1, <2>2, <3>1
    <2>3. CASE disk[d] # {}
      <3>1. /\ d \in Accounted /\ local[h].whole
            /\ "dir" \in disk[d] /\ disk[d] \union {"partial"} = Started /\ "zip" \notin disk[d]
        BY <2>1, <2>3 DEF Plain, Started
      <3>2. disk' = [disk EXCEPT ![d] = disk[d] \union {"partial"}] /\ Goto(h, "copy")
        BY <1>7, <1>17, <3>1 DEF CreatePartial, Put
      <3>3. disk'[d] = Started /\ (\A x \in Objects : x # d => disk'[x] = disk[x])
            /\ "zip" \notin Started /\ "zip" \notin disk[d]
        BY <1>0, <3>1, <3>2 DEF Started
      <3>4. "copy" \in Places \ Evicting /\ "copy" \in Building
        BY DEF Places, Evicting, Building
      <3>5. ServeMoves(h) /\ local'[h].at = "copy" /\ local'[h].dir = d /\ local'[h].whole
        BY <1>11, <3>1, <3>2, <3>4
      <3>6. d \notin Victims /\ d # W.dir
        BY <1>13, <2>1, <3>5
      <3>7. \A i \in DOMAIN usage : usage[i].dir = d =>
              usage[i].size = ResultSize[d[1]] + (IF "zip" \in disk'[d] THEN ExportSize[d[1]] ELSE 0)
        BY <1>9, <3>3
      <3> QED
        BY <1>0, <1>1, <1>6, <1>7, <3>1, <3>3, <3>5, <3>6, <3>7, BuilderFrame
    <2> QED
      BY <2>2, <2>3
  \* While it copies and replaces, the result and the partial archive are there.
  <1>18. ASSUME local[h].at \in {"copy", "replace"}
         PROVE  local[h].at \in Building /\ d \in Accounted /\ local[h].whole /\ disk[d] = {"dir", "result", "partial"}
    <2>1. d \in Accounted /\ local[h].whole
      BY <1>0, <1>7, <1>18 DEF Builders
    <2>2. disk[d] = Started
      BY <1>9, <1>14, <1>18, <2>1
    <2> QED
      BY <1>18, <2>1, <2>2 DEF Started, Building
  <1>19. CASE CopyResult(h)
    <2>1. local[h].at = "copy"
      BY <1>19 DEF CopyResult, At
    <2>2. local[h].at \in Building /\ d \in Accounted /\ local[h].whole /\ disk[d] = {"dir", "result", "partial"}
      BY <1>18, <2>1
    <2>3. disk' = disk /\ Goto(h, "replace")
      BY <1>7, <1>19, <2>2 DEF CopyResult
    <2>4. "replace" \in Places \ Evicting
      BY DEF Places, Evicting
    <2>5. ServeMoves(h) /\ local'[h].at = "replace" /\ local'[h].dir = d /\ local'[h].whole
      BY <1>11, <2>2, <2>3, <2>4
    <2>6. d \notin Victims /\ d # W.dir
      BY <1>13, <2>2, <2>5
    <2>7. \A i \in DOMAIN usage : usage[i].dir = d =>
            /\ disk'[d] = Started
            /\ usage[i].size = ResultSize[d[1]] + (IF "zip" \in disk'[d] THEN ExportSize[d[1]] ELSE 0)
      BY <1>9, <2>1, <2>3
    <2> QED
      BY <1>0, <1>1, <1>6, <1>7, <2>2, <2>3, <2>5, <2>6, <2>7, BuilderFrame
  <1>20. CASE ReplaceArchive(h)
    <2>1. local[h].at = "replace"
      BY <1>20 DEF ReplaceArchive, At
    <2>2. local[h].at \in Building /\ d \in Accounted /\ local[h].whole /\ disk[d] = {"dir", "result", "partial"}
      BY <1>18, <2>1
    <2>3. CASE Bytes(d) <= setup.artifact
      <3> DEFINE n == Bytes(d)
                 l == [local[h] EXCEPT !.at = "record", !.size = n]
      <3>1. local' = [local EXCEPT ![h] = l] /\ disk' = [disk EXCEPT ![d] = (disk[d] \ {"partial"}) \union {"zip"}]
        BY <1>0, <1>7, <1>20, <2>2, <2>3 DEF ReplaceArchive, Put
      <3>2. n = ResultSize[d[1]] + ExportSize[d[1]] /\ n \in Nat
        BY <1>8, <2>2 DEF Bytes
      <3> HIDE DEF n
      <3>3. "record" \in Places \ Evicting /\ "record" \in Places
        BY DEF Places, Evicting
      <3>4. l \in Locals
        BY <1>0, <3>2, <3>3, LocalMoved
      <3>5. l.at = "record" /\ l.victims = <<>> /\ l.dir = d /\ l.size = n
        BY <1>0, <1>3, <1>7 DEF Locals
      <3> HIDE DEF l
      <3>6. ServeMoves(h) /\ local'[h] = l
        BY <1>10, <3>1, <3>3, <3>4, <3>5
      <3>7. disk'[d] = Zipped /\ \A x \in Objects : x # d => disk'[x] = disk[x]
        <4>1. (disk[d] \ {"partial"}) \union {"zip"} = Zipped
          BY <2>2 DEF Zipped
        <4> QED
          BY <1>0, <3>1, <4>1
      <3>8. d \notin Victims /\ d # W.dir
        BY <1>13, <2>2, <3>6
      <3> QED
        BY <1>0, <1>1, <1>6, <1>7, <2>2, <3>2, <3>5, <3>6, <3>7, <3>8, BuilderFrame
    <2>4. CASE ~(Bytes(d) <= setup.artifact)
      <3>1. disk' = [disk EXCEPT ![d] = disk[d] \ {"partial"}] /\ Abort(h)
        BY <1>7, <1>20, <2>4 DEF ReplaceArchive, Put
      <3>2. disk'[d] = Plain /\ (\A x \in Objects : x # d => disk'[x] = disk[x]) /\ "zip" \notin Plain /\ "zip" \notin disk[d]
            /\ disk[d] # {} /\ Plain # {}
        <4>1. disk[d] \ {"partial"} = Plain
          BY <2>2 DEF Plain
        <4>2. "zip" \notin Plain /\ "zip" \notin disk[d] /\ disk[d] # {} /\ Plain # {}
          BY <2>2 DEF Plain
        <4> QED
          BY <1>0, <3>1, <4>1, <4>2
      <3> QED
        BY <1>16, <2>2, <3>1, <3>2
    <2> QED
      BY <2>3, <2>4
  \* The directory is as the failed build left it, and its entry as it was.
  <1>21. CASE FailExport(h)
    <2>1. local[h].at \in {"create", "copy", "replace"} /\ local[h].at \in Building /\ Abort(h) /\ disk' = disk
      BY <1>21 DEF FailExport, Building
    <2>2. disk[d] \in {Plain, Started, Zipped, {}}
      <3>1. CASE local[h].at = "create"
        BY <1>0, <1>7, <3>1 DEF Builders
      <3>2. CASE local[h].at \in {"copy", "replace"}
        BY <1>18, <3>2 DEF Started
      <3> QED
        BY <2>1, <3>1, <3>2
    <2> QED
      BY <1>16, <2>1, <2>2
  <1>22. CASE UnlockExport(h)
    <2>1. local[h].at = "unlock" /\ disk' = disk /\ Goto(h, "check")
      BY <1>22 DEF UnlockExport, At
    <2>2. "check" \in Places \ Evicting
      BY DEF Places, Evicting
    <2>3. ServeMoves(h) /\ local'[h].at = "check"
      BY <1>11, <2>1, <2>2
    <2>4. local[h].at \notin Building /\ local'[h].at \notin Building
      BY <2>1, <2>3 DEF Building
    <2> QED
      BY <1>0, <2>1, <2>3, <2>4, ServeQuiet
  <1> QED
    BY <1>15, <1>17, <1>19, <1>20, <1>21, <1>22 DEF ExportStep

\* The steps of a handler.
LEMMA ServeStepExact ==
  ASSUME IInv, GInv, Exact, Apart, Apart', NEW h \in Handlers,
         ServeStep(h) \/ \E j \in Jobs, file \in {"result", "zip"} : Ask(h, j, file)
  PROVE  Exact'
  <1>0. StoreTypeOK /\ Entered /\ local \in [Threads -> Locals] /\ h \in Threads /\ local[h] \in Locals
    BY WorkerIsNoHandler DEF GInv, Exact, StoreTypeOK
  <1>1. ASSUME NEW l \in Locals, local' = [local EXCEPT ![h] = l], l.victims = <<>>, l.at \in {"idle", "lock", "check", "touch"},
               local[h].at \in {"idle", "check", "touch"}, disk' = disk, jobs' = jobs, outcome' = outcome, SameEntries
        PROVE  Exact'
    <2>1. local'[h] = l /\ \A u \in Threads \ {h} : local'[u] = local[u]
      BY <1>0, <1>1
    <2>2. /\ local[h].at \notin Evicting /\ local'[h].at \notin Evicting /\ local[h].at \notin Building /\ local'[h].at \notin Building
      BY <1>1, <2>1 DEF Evicting, Building
    <2>3. local[h].victims = <<>>
      BY <1>0, <2>2 DEF StoreTypeOK
    <2>4. ServeMoves(h)
      BY <1>1, <2>1, <2>2, <2>3 DEF ServeMoves
    <2> QED
      BY <1>0, <1>1, <2>2, <2>4, ServeQuiet
  <1>2. CASE ExportStep(h)
    BY <1>2, ExportStepExact
  <1>3. CASE CheckFile(h)
    <2>1. /\ local[h].at = "check" /\ disk' = disk /\ usage' = usage /\ jobs' = jobs /\ outcome' = outcome /\ SameEntries
      BY <1>0, <1>3, UnchangedEntries DEF CheckFile, At, vars
    <2>2. CASE local' = [local EXCEPT ![h] = [local[h] EXCEPT !.at = "touch"]]
      <3> DEFINE l == [local[h] EXCEPT !.at = "touch"]
      <3>1. l \in Locals
        <4>1. "touch" \in Places
          BY DEF Places
        <4> QED
          BY <1>0, <4>1, LocalMoved
      <3>2. l.at = "touch" /\ l.victims = <<>>
        BY <1>0, <2>1 DEF Locals, StoreTypeOK, Evicting
      <3> HIDE DEF l
      <3> QED
        BY <1>1, <2>1, <2>2, <3>1, <3>2 DEF l
    <2>3. CASE local' = [local EXCEPT ![h] = Idle]
      <3>1. Idle.at = "idle" /\ Idle.victims = <<>>
        BY DEF Idle
      <3> QED
        BY <1>1, <2>1, <2>3, <3>1, IdleIsLocal
    <2> QED
      BY <1>0, <1>3, <2>2, <2>3 DEF CheckFile
  <1>4. CASE Touch(h)
    <2>1. /\ local[h].at = "touch" /\ disk' = disk /\ jobs' = jobs /\ outcome' = outcome /\ local' = [local EXCEPT ![h] = Idle]
      BY <1>4 DEF Touch, At, vars
    <2>2. SameEntries
      <3>1. CASE usage' = usage
        BY <1>0, <3>1, UnchangedEntries
      <3>2. CASE usage' # usage
        <4>1. PICK job : Accounts(job) /\ usage' = Append(Without(usage, Place(job)), usage[Place(job)])
          BY <1>4, <3>2 DEF Touch
        <4> QED
          BY <1>0, <4>1, TouchSame
      <3> QED
        BY <3>1, <3>2
    <2>3. Idle.at = "idle" /\ Idle.victims = <<>>
      BY DEF Idle
    <2> QED
      BY <1>1, <2>1, <2>2, <2>3, IdleIsLocal
  <1>5. ASSUME NEW j \in Jobs, NEW file \in {"result", "zip"}, Ask(h, j, file) PROVE Exact'
    <2> DEFINE d == <<j, jobs[j].path>>
               p == IF file = "zip" THEN "lock" ELSE "check"
               l == [Idle EXCEPT !.at = p, !.dir = d, !.file = file]
    <2>1. /\ local[h].at = "idle" /\ local' = [local EXCEPT ![h] = l] /\ jobs[j].state = "done"
          /\ disk' = disk /\ usage' = usage /\ jobs' = jobs /\ outcome' = outcome /\ SameEntries
      BY <1>0, <1>5, UnchangedEntries DEF Ask, At, vars
    <2>2. d \in Objects
      <3>1. jobs[j] \in Records /\ jobs[j].path \in 1..jobs[j].made
        BY <2>1 DEF IInv, TypeOK, GInv, Made
      <3>2. jobs[j].path \in 1..MaxObjects
        BY <3>1, JobQueueAssumption DEF Records, JobQueueAssumption
      <3> QED
        BY <3>2 DEF Objects
    <2>3. p \in Places /\ p \in {"lock", "check"}
      BY DEF Places
    <2> HIDE DEF p, d
    <2>4. l \in Locals
      BY <2>2, <2>3, IdleIsLocal, LocalMoved
    <2>5. l.at = p /\ l.victims = <<>>
      BY DEF Idle
    <2> HIDE DEF l
    <2> QED
      BY <1>1, <2>1, <2>3, <2>4, <2>5
  <1> QED
    BY <1>2, <1>3, <1>4, <1>5 DEF ServeStep

----------------------------------------------------------------------------
(* The accounting, all steps, and what it says.                            *)

\* At first there is nothing to account.
LEMMA InitExact == StoreInit => Exact
  <1> SUFFICES ASSUME StoreInit PROVE Exact
    OBVIOUS
  <1>1. /\ usage = <<>> /\ \A t \in Threads : local[t] = Idle
        /\ \A d \in Objects : disk[d] = {}
        /\ \A j \in Jobs : jobs[j].state = "absent"
    BY DEF StoreInit, Init
  <1>2. Idle.at = "idle" /\ Idle.victims = <<>> /\ Idle.dir = None
    BY DEF Idle
  <1>3. W = Idle /\ \A h \in Handlers : local[h] = Idle
    BY <1>1, WorkerIsNoHandler DEF W
  <1>4. (\A i : i \notin DOMAIN usage) /\ (\A t \in Threads : \A i : i \notin DOMAIN local[t].victims)
    BY <1>1, <1>2
  <1>5. (\A d : d \notin Accounted) /\ (\A v : v \notin Victims)
    BY <1>4, VictimsAre, AccountedAre
  <1>6. Entered
    BY <1>2, <1>3, <1>4 DEF Entered
  <1>7. Evicted
    BY <1>4, <1>5 DEF Evicted
  <1>8. Stored /\ Doomed
    BY <1>4 DEF Stored, Doomed
  <1>9. Ran /\ Builders
    BY <1>2, <1>3 DEF Ran, Builders
  <1>10. Kept /\ Owned
    BY <1>1 DEF Kept, Owned
  <1> QED
    BY <1>6, <1>7, <1>8, <1>9, <1>10 DEF Exact

\* Every step but the removal of the root, by the thread that takes it.
LEMMA StepExact ==
  ASSUME IInv, GInv, GInv', Exact, Apart, Apart', [StoreNext]_allVars, root' = "up"
  PROVE  Exact'
  <1>1. CASE QueueStep
    BY <1>1, QueueStepExact
  <1>2. CASE ExecuteStep
    BY <1>2, ExecuteStepExact
  <1>3. ASSUME NEW t \in Threads, EvictStep(t) PROVE Exact'
    BY <1>3, RecordExact, EvictVictimExact, UnlinkVictimExact, RmdirVictimExact DEF EvictStep
  <1>4. ASSUME NEW h \in Handlers, ServeStep(h) \/ \E j \in Jobs, file \in {"result", "zip"} : Ask(h, j, file) PROVE Exact'
    BY <1>4, ServeStepExact
  <1>5. ~UnlinkRoot /\ ~RmdirRoot
    BY DEF UnlinkRoot, RmdirRoot
  <1>6. CASE UNCHANGED allVars
    <2>1. usage' = usage /\ disk' = disk /\ local' = local /\ jobs' = jobs /\ outcome' = outcome /\ W' = W
      BY <1>6 DEF allVars, vars, storeVars, W
    <2>2. Lasting
      BY <2>1 DEF Lasting
    <2>3. StoreTypeOK /\ Entered /\ Ran
      BY DEF GInv, Exact
    <2>4. Ran' /\ (W'.at = "idle" => W'.dir = None) /\ (W'.at # "idle" => (W'.dir \in Accounted <=> Finishing'))
      BY <2>1, <2>3 DEF Ran, Entered, Finishing
    <2>5. disk' \in [Objects -> SUBSET Files]
      BY <2>1, <2>3 DEF StoreTypeOK
    <2> QED
      BY <2>1, <2>2, <2>3, <2>4, <2>5, WorkerFrame
  <1> QED
    BY <1>1, <1>2, <1>3, <1>4, <1>5, <1>6 DEF StoreNext

\* The accounting is kept while nobody builds in what is removed.
LEMMA StepUInv == IInv /\ GInv /\ GInv' /\ UInv /\ Apart /\ Apart' /\ [StoreNext]_allVars => UInv'
  <1> SUFFICES ASSUME IInv, GInv, GInv', UInv, Apart, Apart', [StoreNext]_allVars, root' = "up" PROVE Exact'
    BY DEF UInv
  <1>1. root = "up"
    BY DEF StoreNext, allVars, storeVars, QueueStep, ExecuteStep, MakeDirectory, ReportPhase, Publish, Raise, CheckSize, Clean, ReturnResult,
           FinishJob, EvictStep, Record, EvictVictim, UnlinkVictim, RmdirVictim, Ask, ServeStep, ExportStep, CheckFile, Touch,
           UnlinkRoot, RmdirRoot
  <1> QED
    BY <1>1, StepExact DEF UInv

\* What the accounting says of a done job, of the disk and of an entry.
LEMMA Accounting == GInv /\ UInv => DoneHasResult /\ NoLeak /\ UsageIsExact
  <1> SUFFICES ASSUME GInv, Exact PROVE DoneHasResult /\ NoLeak /\ UsageIsExact
    BY DEF UInv, DoneHasResult, NoLeak, UsageIsExact
  <1>1. "result" \in Plain /\ "result" \in Started /\ "result" \in Zipped
    BY DEF Plain, Started, Zipped
  <1>2. DoneHasResult
    <2> SUFFICES ASSUME NEW j \in Jobs, jobs[j].state = "done" PROVE "result" \in disk[<<j, jobs[j].path>>]
      BY DEF DoneHasResult
    <2>1. CASE <<j, jobs[j].path>> \in Accounted
      <3>1. PICK i \in DOMAIN usage : usage[i].dir = <<j, jobs[j].path>>
        BY <2>1, AccountedAre
      <3> QED
        BY <1>1, <3>1 DEF Exact, Stored
    <2>2. ASSUME NEW t \in Threads, NEW i \in DOMAIN local[t].victims, Awaiting(t, i), local[t].victims[i] = <<j, jobs[j].path>>
          PROVE  "result" \in disk[<<j, jobs[j].path>>]
      <3>1. ~(local[t].at = "rmdir" /\ i = 1)
        BY <2>2 DEF Awaiting
      <3> QED
        BY <1>1, <2>2, <3>1 DEF Exact, Doomed
    <2> QED
      BY <2>1, <2>2 DEF Exact, Kept
  <1>3. NoLeak
    BY DEF NoLeak, Exact, Owned, W
  <1>4. UsageIsExact
    <2>1. ASSUME NEW i \in DOMAIN usage
          PROVE  LET dir == usage[i].dir
                     job == dir[1]
                 IN /\ dir = <<job, jobs[job].path>> \/ dir = local[Worker].dir
                    /\ \/ usage[i].size = Published(dir)
                       \/ exportLock # None /\ At(exportLock, "record") /\ local[exportLock].dir = dir
      <3>1. PICK d \in Objects : d = usage[i].dir
        BY Typed DEF GInv
      <3>2. d = <<d[1], d[2]>> /\ d[1] \in Jobs
        BY Typed DEF GInv
      <3>3. d = <<d[1], jobs[d[1]].path>> \/ d = local[Worker].dir
        BY <3>1, <3>2 DEF Exact, Entered, Done, W
      <3>4. ASSUME NEW h \in Handlers, local[h].at = "record", local[h].dir = d
            PROVE  exportLock # None /\ At(exportLock, "record") /\ local[exportLock].dir = d
        BY <3>4, WorkerIsNoHandler DEF GInv, Locked, Locking, At
      <3>5. CASE usage[i].size = ResultSize[d[1]] + (IF "zip" \in disk[d] THEN ExportSize[d[1]] ELSE 0)
        <4>1. ResultSize[d[1]] \in Nat /\ ExportSize[d[1]] \in Nat
          BY <3>2, ResultStoreAssumption DEF ResultStoreAssumption
        <4>2. "result" \in disk[d]
          BY <1>1, <3>1 DEF Exact, Stored
        <4>3. usage[i].size = Published(d)
          BY <3>5, <4>1, <4>2 DEF Published
        <4> QED
          BY <3>1, <3>3, <4>3
      <3>6. CASE \E h \in Handlers : local[h].at = "record" /\ local[h].dir = d
        <4>1. exportLock # None /\ At(exportLock, "record") /\ local[exportLock].dir = d
          BY <3>4, <3>6
        <4> QED
          BY <3>1, <3>3, <4>1
      <3> QED
        BY <3>1, <3>5, <3>6 DEF Exact, Stored
    <2> QED
      BY <2>1 DEF UsageIsExact, Exact, Entered
  <1> QED
    BY <1>2, <1>3, <1>4

----------------------------------------------------------------------------
(* A server that is asked for no archives.                                 *)

\* Only the worker evicts, so nothing is removed while it is built in.
LEMMA ApartIfQuiet ==
  ASSUME StoreTypeOK, Quiet, Silent, \A i \in DOMAIN W.victims : W.victims[i] # W.dir
  PROVE  Apart
  <1>1. \A h \in Handlers : local[h].at \notin Building /\ local[h].victims = <<>>
    BY WorkerIsNoHandler DEF StoreTypeOK, Silent, Building, Evicting
  <1>2. \A v \in Victims : \E i \in DOMAIN W.victims : v = W.victims[i]
    <2>1. \A h \in Handlers : \A i : i \notin DOMAIN local[h].victims
      BY <1>1
    <2> QED
      BY <2>1, VictimsAre DEF Threads, W
  <1> QED
    BY <1>1, <1>2 DEF Apart

\* What a step does to setup, disk and root: no step of a silent server that has removed its root adds a file.
LEMMA SilentStep ==
  ASSUME IInv, GInv, Silent, [StoreNext]_allVars
  PROVE  setup' = setup /\ Silent'
  <1>1. setup' = setup
    BY DEF StoreNext, allVars, storeVars, QueueStep, ExecuteStep, MakeDirectory, ReportPhase, Publish, Raise, CheckSize, Clean, ReturnResult,
           FinishJob, EvictStep, Record, EvictVictim, UnlinkVictim, RmdirVictim, Ask, ServeStep, ExportStep, CheckFile, Touch,
           UnlinkRoot, RmdirRoot
  <1>2. ASSUME Quiet, NEW h \in Handlers PROVE local'[h].at \in {"idle", "check", "touch"}
    <2>0. local \in [Threads -> Locals] /\ h \in Threads /\ h # Worker /\ local[h].at \in {"idle", "check", "touch"} /\ local[h] \in Locals
      BY <1>2, WorkerIsNoHandler DEF GInv, StoreTypeOK, Silent
    <2>1. CASE local'[h] = local[h]
      BY <2>0, <2>1
    <2>2. ASSUME NEW k \in Handlers, NEW j \in Jobs, NEW file \in {"result", "zip"}, Ask(k, j, file)
          PROVE  local'[h].at \in {"idle", "check", "touch"}
      <3>1. file # "zip"
        BY <1>2, <2>2 DEF Ask, Quiet
      <3>2. local' = [local EXCEPT ![k] = [Idle EXCEPT !.at = "check", !.dir = <<j, jobs[j].path>>, !.file = file]]
        BY <2>2, <3>1 DEF Ask
      <3> QED
        BY <2>0, <3>2 DEF Idle
    <2>3. ASSUME NEW t \in Threads, EvictStep(t) PROVE local'[h] = local[h]
      <3>1. t # h
        BY <2>0, <2>3 DEF EvictStep, Record, EvictVictim, UnlinkVictim, RmdirVictim, At
      <3> QED
        BY <2>0, <2>3, <3>1 DEF EvictStep, Record, EvictVictim, UnlinkVictim, RmdirVictim, Goto
    <2>4. ASSUME NEW k \in Handlers, ServeStep(k) PROVE local'[h].at \in {"idle", "check", "touch"}
      <3>1. local[k].at \in {"idle", "check", "touch"}
        BY <1>2 DEF Silent
      <3>2. CheckFile(k) \/ Touch(k)
        BY <2>4, <3>1 DEF ServeStep, ExportStep, LockExport, CreatePartial, CopyResult, ReplaceArchive, FailExport, UnlockExport, At
      <3>3. CASE k # h
        BY <2>0, <2>1, <3>2, <3>3 DEF CheckFile, Touch
      <3>4. CASE k = h
        <4>1. CASE local' = [local EXCEPT ![h] = [@ EXCEPT !.at = "touch"]]
          BY <2>0, <4>1 DEF Locals
        <4>2. CASE local' = [local EXCEPT ![h] = Idle]
          BY <2>0, <4>2 DEF Idle
        <4> QED
          BY <2>0, <3>2, <3>4, <4>1, <4>2 DEF CheckFile, Touch
      <3> QED
        BY <3>3, <3>4
    <2>5. CASE ExecuteStep
      BY <2>0, <2>1, <2>5 DEF ExecuteStep, MakeDirectory, ReportPhase, Publish, Raise, CheckSize, Clean, ReturnResult, FinishJob, Goto
    <2>6. CASE QueueStep \/ UnlinkRoot \/ RmdirRoot \/ UNCHANGED allVars
      BY <2>1, <2>6 DEF QueueStep, UnlinkRoot, RmdirRoot, allVars, storeVars
    <2> QED
      BY <2>1, <2>2, <2>3, <2>4, <2>5, <2>6 DEF StoreNext
  <1> QED
    BY <1>1, <1>2 DEF Silent, Quiet

\* The root is removed after the worker has stopped, and stopping is final.
LEMMA StoppedStep == ASSUME IInv, GInv, CloseIsFinal, Stopped, [StoreNext]_allVars PROVE Stopped'
  <1>1. pc = "stopped" => pc' = "stopped"
    <2>1. [Next]_vars
      BY StepGInv
    <2> QED
      BY <2>1 DEF Next, Submit, Queue, Evict, Get, Begin, Start, Abandon, Finish, Report, Return, Close, PutNone, Join, vars
  <1>2. UnlinkRoot => pc = "stopped"
    BY DEF UnlinkRoot, CloseIsFinal
  <1>3. root' = root \/ UnlinkRoot \/ RmdirRoot
    BY DEF StoreNext, allVars, storeVars, QueueStep, ExecuteStep, MakeDirectory, ReportPhase, Publish, Raise, CheckSize, Clean, ReturnResult,
           FinishJob, EvictStep, Record, EvictVictim, UnlinkVictim, RmdirVictim, Ask, ServeStep, ExportStep, CheckFile, Touch
  <1>4. RmdirRoot => root # "up"
    BY DEF RmdirRoot
  <1> QED
    BY <1>1, <1>2, <1>3, <1>4 DEF Stopped

\* Once the root is removed nothing is written: the worker has stopped, and handlers only read.
LEMMA EmptiedStep ==
  ASSUME IInv, GInv, Silent, Stopped, Emptied, [StoreNext]_allVars, Quiet
  PROVE  /\ root' = "unlinked" => \A d \in Objects : disk'[d] \subseteq {"dir"}
         /\ root' = "removed" => \A d \in Objects : disk'[d] = {}
  <1>0. disk \in [Objects -> SUBSET Files] /\ root \in {"up", "unlinked", "removed"}
    BY DEF GInv, StoreTypeOK
  <1>1. CASE UnlinkRoot
    BY <1>0, <1>1 DEF UnlinkRoot
  <1>2. CASE RmdirRoot
    BY <1>0, <1>2 DEF RmdirRoot, Emptied
  <1>3. CASE ~UnlinkRoot /\ ~RmdirRoot /\ root = "up"
    <2>1. root' = "up"
      BY <1>3 DEF StoreNext, allVars, storeVars, QueueStep, ExecuteStep, MakeDirectory, ReportPhase, Publish, Raise, CheckSize, Clean, ReturnResult,
           FinishJob, EvictStep, Record, EvictVictim, UnlinkVictim, RmdirVictim, Ask, ServeStep, ExportStep, CheckFile, Touch
    <2> QED
      BY <2>1
  <1>4. CASE ~UnlinkRoot /\ ~RmdirRoot /\ root # "up"
    <2>1. pc = "stopped" /\ W.at = "idle"
      BY <1>4 DEF Stopped, GInv, Working
    <2>2. \A h \in Handlers : local[h].at \in {"idle", "check", "touch"}
      BY DEF Silent
    <2>3. ~ExecuteStep
      BY <2>1 DEF ExecuteStep, MakeDirectory, ReportPhase, Publish, Raise, CheckSize, Clean, ReturnResult, FinishJob, At, W
    <2>4. \A t \in Threads : ~EvictStep(t)
      BY <2>1, <2>2 DEF EvictStep, Record, EvictVictim, UnlinkVictim, RmdirVictim, At, W, Threads
    <2>5. \A h \in Handlers : ~ExportStep(h)
      BY <2>2 DEF ExportStep, LockExport, CreatePartial, CopyResult, ReplaceArchive, FailExport, UnlockExport, At
    <2>6. disk' = disk /\ root' = root
      BY <1>4, <2>3, <2>4, <2>5 DEF StoreNext, allVars, storeVars, QueueStep, Ask, ServeStep, CheckFile, Touch
    <2> QED
      BY <2>6 DEF Emptied
  <1> QED
    BY <1>1, <1>2, <1>3, <1>4

\* The worker never evicts the directory it has just recorded.
LEMMA WorkerApart ==
  ASSUME IInv, GInv, GInv', Quiet, Silent, Stopped', Apart, UInv, [StoreNext]_allVars
  PROVE  \A i \in DOMAIN W'.victims : W'.victims[i] # W'.dir
  <1> SUFFICES ASSUME NEW i \in DOMAIN W'.victims PROVE W'.victims[i] # W'.dir
    OBVIOUS
  <1>0. local \in [Threads -> Locals] /\ Worker \in Threads /\ W \in Locals /\ StoreTypeOK
    BY WorkerIsNoHandler DEF GInv, StoreTypeOK, W
  <1>1. W'.at \in Evicting
    <2>1. W'.victims # <<>>
      OBVIOUS
    <2> QED
      BY <2>1, WorkerIsNoHandler DEF GInv, StoreTypeOK, W
  <1>2. root' = "up"
    BY <1>1 DEF GInv, Working, Stopped, Evicting
  <1>3. root = "up"
    BY <1>2 DEF StoreNext, allVars, storeVars, QueueStep, ExecuteStep, MakeDirectory, ReportPhase, Publish, Raise, CheckSize, Clean, ReturnResult,
           FinishJob, EvictStep, Record, EvictVictim, UnlinkVictim, RmdirVictim, Ask, ServeStep, ExportStep, CheckFile, Touch,
           UnlinkRoot, RmdirRoot
  <1>4. \A k \in DOMAIN W.victims : W.victims[k] # W.dir
    BY WorkerIsNoHandler, VictimsAre DEF Apart, W
  <1>5. CASE W' = W
    BY <1>4, <1>5
  <1>6. CASE Record(Worker)
    <2>1. PICK e, vs : Recording(Worker, e, vs)
      BY <1>0, <1>6, RecordIs DEF GInv, Safe
    <2>2. OnePerJob(usage)
      BY <1>3 DEF UInv, Exact, Entered, OnePerJob
    <2>3. e.dir = W.dir /\ \A k \in DOMAIN vs : vs[k][1] # e.dir[1]
      BY <2>1, <2>2 DEF Recording, W
    <2>4. W'.victims = vs /\ W'.dir = W.dir
      <3>1. local' = [local EXCEPT ![Worker].at = IF vs = <<>> THEN After(Worker) ELSE "evict", ![Worker].victims = vs]
        BY <2>1 DEF Recording
      <3> QED
        BY <1>0, <3>1 DEF Locals, W
    <2> QED
      BY <2>3, <2>4
  <1>7. CASE EvictVictim(Worker) \/ UnlinkVictim(Worker)
    <2>1. PICK p \in Places : Goto(Worker, p)
      BY <1>7 DEF EvictVictim, UnlinkVictim, Places
    <2>2. W'.victims = W.victims /\ W'.dir = W.dir
      BY <1>0, <2>1, Going DEF W
    <2> QED
      BY <1>4, <2>2
  <1>8. CASE RmdirVictim(Worker)
    <2>1. W.at = "rmdir"
      BY <1>8 DEF RmdirVictim, At, W
    <2>2. /\ Len(W.victims) \in Nat \ {0} /\ DOMAIN W.victims = 1..Len(W.victims)
          /\ DOMAIN Tail(W.victims) = 1..(Len(W.victims) - 1)
          /\ \A k \in 1..(Len(W.victims) - 1) : Tail(W.victims)[k] = W.victims[k + 1]
      BY <1>0, <2>1, VictimsTyped DEF W, Evicting
    <2>3. W'.victims = Tail(W.victims) /\ W'.dir = W.dir
      <3>1. local' = [local EXCEPT ![Worker].victims = Tail(@),
                                   ![Worker].at = IF Len(local[Worker].victims) = 1 THEN After(Worker) ELSE "evict"]
        BY <1>8 DEF RmdirVictim
      <3> QED
        BY <1>0, <3>1 DEF Locals, W
    <2>4. i \in 1..(Len(W.victims) - 1) /\ i + 1 \in 1..Len(W.victims)
      BY <2>2, <2>3
    <2> QED
      BY <1>4, <2>2, <2>3, <2>4
  <1>9. CASE ExecuteStep
    <2>1. W'.at \in {"run", "clean", "size", "record", "end", "idle"}
      <3>1. ASSUME NEW p \in Places, Goto(Worker, p) PROVE W'.at = p
        BY <1>0, <3>1, Going DEF W
      <3>2. CASE MakeDirectory \/ FinishJob
        <4>1. CASE local' = [local EXCEPT ![Worker] = [Idle EXCEPT !.at = "run", !.dir = held]]
          <5>1. W' = [Idle EXCEPT !.at = "run", !.dir = held]
            BY <1>0, <4>1 DEF W
          <5> QED
            BY <5>1 DEF Idle
        <4>2. CASE local' = [local EXCEPT ![Worker] = Idle]
          <5>1. W' = Idle
            BY <1>0, <4>2 DEF W
          <5> QED
            BY <5>1 DEF Idle
        <4> QED
          BY <3>2, <4>1, <4>2 DEF MakeDirectory, FinishJob
      <3>3. CASE CheckSize
        BY <1>0, <3>1, <3>3 DEF CheckSize, W, Locals, Places
      <3>4. CASE (\E p \in Phases : ReportPhase(p)) \/ Publish \/ (\E o \in {"invalid", "unexpected"} : Raise(o)) \/ Clean \/ ReturnResult
        BY <3>1, <3>4 DEF ReportPhase, Publish, Raise, Clean, ReturnResult, Places
      <3> QED
        BY <1>9, <3>2, <3>3, <3>4 DEF ExecuteStep
    <2> QED
      BY <1>1, <2>1 DEF Evicting
  <1>10. ASSUME NEW h \in Handlers, EvictStep(h) \/ ServeStep(h) \/ \E j \in Jobs, file \in {"result", "zip"} : Ask(h, j, file)
         PROVE  W' = W
    BY <1>0, <1>10, WorkerIsNoHandler DEF EvictStep, Record, EvictVictim, UnlinkVictim, RmdirVictim, ServeStep, ExportStep, LockExport,
       CreatePartial, CopyResult, ReplaceArchive, FailExport, UnlockExport, CheckFile, Touch, Ask, Goto, Abort, W
  <1>11. CASE QueueStep \/ UnlinkRoot \/ RmdirRoot \/ UNCHANGED allVars
    BY <1>5, <1>11 DEF QueueStep, UnlinkRoot, RmdirRoot, allVars, storeVars, W
  <1> QED
    BY <1>5, <1>6, <1>7, <1>8, <1>9, <1>10, <1>11 DEF StoreNext, EvictStep, Threads

\* Nothing is removed or built at first.
LEMMA InitQInv == StoreInit => QInv
  <1> SUFFICES ASSUME StoreInit PROVE QInv
    OBVIOUS
  <1>1. GInv
    BY InitGInv
  <1>2. root = "up" /\ \A t \in Threads : local[t] = Idle
    BY DEF StoreInit
  <1>3. Idle.at = "idle" /\ Idle.victims = <<>>
    BY DEF Idle
  <1>4. Silent /\ Stopped /\ Emptied
    BY <1>2, <1>3, WorkerIsNoHandler DEF Silent, Stopped, Emptied
  <1>5. Quiet => Apart
    <2>1. \A i : i \notin DOMAIN W.victims
      BY <1>2, <1>3, WorkerIsNoHandler DEF W
    <2> QED
      BY <1>1, <1>4, <2>1, ApartIfQuiet DEF GInv
  <1> QED
    BY <1>4, <1>5 DEF QInv

QuietInv == QInv /\ (Quiet => UInv)

\* Every step of a server that is asked for no archives.
LEMMA StepQuiet == IInv /\ GInv /\ GInv' /\ CloseIsFinal /\ QuietInv /\ [StoreNext]_allVars => QuietInv'
  <1> SUFFICES ASSUME IInv, GInv, GInv', CloseIsFinal, QuietInv, [StoreNext]_allVars PROVE QuietInv'
    OBVIOUS
  <1>1. Silent /\ Stopped /\ Emptied /\ (Quiet => Apart /\ UInv)
    BY DEF QuietInv, QInv
  <1>2. setup' = setup /\ Silent' /\ Stopped' /\ (Quiet' <=> Quiet)
    BY <1>1, SilentStep, StoppedStep DEF Quiet
  <1>3. Emptied'
    BY <1>1, <1>2, EmptiedStep DEF Emptied
  <1>4. Quiet => Apart'
    <2> SUFFICES ASSUME Quiet PROVE Apart'
      OBVIOUS
    <2>1. StoreTypeOK' /\ Quiet' /\ Silent'
      BY <1>2 DEF GInv
    <2>2. \A i \in DOMAIN W'.victims : W'.victims[i] # W'.dir
      BY <1>1, <1>2, WorkerApart
    <2>3. (StoreTypeOK /\ Quiet /\ Silent /\ (\A i \in DOMAIN W.victims : W.victims[i] # W.dir) => Apart)'
      BY ApartIfQuiet, PTL
    <2> QED
      BY <2>1, <2>2, <2>3
  <1>5. Quiet => UInv'
    BY <1>1, <1>4, StepUInv
  <1> QED
    BY <1>2, <1>3, <1>4, <1>5 DEF QuietInv, QInv

----------------------------------------------------------------------------
(* The theorems.                                                           *)

\* As long as no directory is removed that a thread still builds in, the accounting is exact (_record, _export).
THEOREM ApartInvariance == StoreSpec /\ []Apart => []UInv
  <1>1. StoreInit => UInv
    BY InitExact DEF UInv
  <1> QED
    BY <1>1, StoreInvariance, StepUInv, PTL DEF StoreSpec

\* A server that is asked for no archives never removes a directory that a thread builds in, so that its
\* accounting is exact, and its handlers write nothing once the root is removed (_record, close).
THEOREM QuietInvariance == StoreSpec => []QuietInv
  <1>1. StoreInit => QuietInv
    BY InitExact, InitQInv DEF QuietInv, UInv
  <1>2. StoreSpec => []CloseIsFinal
    BY QueueKept, ClosedForGood, PTL
  <1> QED
    BY <1>1, <1>2, StoreInvariance, StepQuiet, PTL DEF StoreSpec

\* A done job has its result on disk, unless an archive is built in a directory that is being removed
\* (or the worker's is evicted by another thread), which a server that is asked for no archives never does
\* (_record, evict and _export).
THEOREM DoneStaysOnDisk ==
  /\ StoreSpec /\ []Apart => []DoneHasResult
  /\ StoreSpec => [](Quiet => DoneHasResult)
  <1>1. GInv /\ UInv => DoneHasResult
    BY Accounting
  <1>2. GInv /\ QuietInv => (Quiet => DoneHasResult)
    BY Accounting DEF QuietInv
  <1> QED
    BY <1>1, <1>2, ApartInvariance, QuietInvariance, StoreInvariance, PTL

\* On the same terms no directory escapes the session limit: each is accounted, about to be removed, or
\* the worker's own.
THEOREM NothingLeaks ==
  /\ StoreSpec /\ []Apart => []NoLeak
  /\ StoreSpec => [](Quiet => NoLeak)
  <1>1. GInv /\ UInv => NoLeak
    BY Accounting
  <1>2. GInv /\ QuietInv => (Quiet => NoLeak)
    BY Accounting DEF QuietInv
  <1> QED
    BY <1>1, <1>2, ApartInvariance, QuietInvariance, StoreInvariance, PTL

\* On the same terms usage_bytes is what the finished jobs' directories hold.
THEOREM UsageStaysExact ==
  /\ StoreSpec /\ []Apart => []UsageIsExact
  /\ StoreSpec => [](Quiet => UsageIsExact)
  <1>1. GInv /\ UInv => UsageIsExact
    BY Accounting
  <1>2. GInv /\ QuietInv => (Quiet => UsageIsExact)
    BY Accounting DEF QuietInv
  <1> QED
    BY <1>1, <1>2, ApartInvariance, QuietInvariance, StoreInvariance, PTL

\* A server that is asked for no archives leaves nothing behind when close returns (Api.close).
THEOREM ClosedEmpty == StoreSpec => [](Quiet => CloseRemovesResults)
  <1>1. QuietInv => (Quiet => CloseRemovesResults)
    BY DEF QuietInv, QInv, Emptied, CloseRemovesResults
  <1> QED
    BY <1>1, QuietInvariance, PTL
=============================================================================
