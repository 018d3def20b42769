--------------------------- MODULE JobQueueProofs ---------------------------
(***************************************************************************)
(* What holds of the job queue for every set of ids, phases and closing    *)
(* threads and every bound.  NoJobLost and TypeOK are inductive together   *)
(* once it is known that the worker holds an object between Get and Finish *)
(* (Holding); the other theorems follow from IInv.  That the queue         *)
(* implements JobBoard also needs to know where the poison pill is (Pill). *)
(***************************************************************************)
EXTENDS JobQueue, SequenceTheorems, TLAPS

Holding == pc \in {"got", "run"} => held # None

IInv == TypeOK /\ Holding /\ NoJobLost

\* None is no object, so the poison pill is told from a job.
LEMMA NoneIsNoObject == None \notin Objects /\ Objects \subseteq Jobs \X Nat
  BY JobQueueAssumption DEF Objects, JobQueueAssumption

\* What Evict and a failed run write into a record leaves it one.
LEMMA Rewritten ==
  ASSUME NEW r \in Records, NEW s \in States, NEW e \in (Outcomes \ {"done"}) \union {"none"},
         NEW n \in 0..MaxObjects
  PROVE  /\ [r EXCEPT !.state = s, !.path = n] \in Records
         /\ [r EXCEPT !.state = s, !.error = e, !.path = n] \in Records
  BY DEF Records

THEOREM InitIInv == Init => IInv
  <1> SUFFICES ASSUME Init PROVE IInv
    OBVIOUS
  <1> USE JobQueueAssumption DEF JobQueueAssumption
  <1>1. TypeOK
    <2>1. \A j \in Jobs : jobs[j] \in Records
      BY DEF Init, Records, States, Outcomes
    <2>2. jobs \in [Jobs -> Records]
      BY <2>1 DEF Init
    <2>3. pending \in Seq(Objects \union {None})
      BY DEF Init
    <2>4. closing \in [Closers -> {"idle", "put", "join", "joined", "skipped"}]
      BY DEF Init
    <2> QED
      BY <2>2, <2>3, <2>4 DEF Init, TypeOK
  <1>2. Holding
    BY DEF Init, Holding
  <1>3. NoJobLost
    BY NoneIsNoObject DEF Init, NoJobLost, Object, Objects, Taken, Lined
  <1> QED
    BY <1>1, <1>2, <1>3 DEF IInv

----------------------------------------------------------------------------
(* TypeOK and Holding, an action at a time.                                *)

LEMMA TypeStep == TypeOK /\ Holding /\ [Next]_vars => TypeOK' /\ Holding'
  <1> SUFFICES ASSUME TypeOK, Holding, [Next]_vars PROVE TypeOK' /\ Holding'
    OBVIOUS
  <1> USE NoneIsNoObject, JobQueueAssumption DEF JobQueueAssumption
  <1>1. ASSUME NEW j \in Jobs, Submit(j) PROVE TypeOK' /\ Holding'
    <2>0. jobs[j].made \in 0..MaxObjects /\ jobs[j].made < MaxObjects
      BY <1>1 DEF TypeOK, Records, Submit, Queue
    <2>1. jobs[j].made + 1 \in 1..MaxObjects /\ <<j, jobs[j].made + 1>> \in Objects
      BY <2>0 DEF Objects
    <2>2. pending' \in Seq(Objects \union {None})
      BY <1>1, <2>1, AppendProperties DEF TypeOK, Submit, Queue
    <2>3. jobs' \in [Jobs -> Records]
      BY <1>1, <2>1 DEF TypeOK, Submit, Queue, Records, States, Outcomes
    <2> QED
      BY <1>1, <2>2, <2>3 DEF TypeOK, Holding, Submit, Queue
  <1>2. ASSUME NEW j \in Jobs, Evict(j) PROVE TypeOK' /\ Holding'
    <2>0. jobs[j] \in Records
      BY DEF TypeOK
    <2>1. [jobs[j] EXCEPT !.state = "evicted", !.path = 0] \in Records
      <3>1. "evicted" \in States /\ 0 \in 0..MaxObjects
        BY DEF States
      <3> QED
        BY <2>0, <3>1, Rewritten
    <2>2. jobs' \in [Jobs -> Records]
      BY <1>2, <2>1 DEF Evict, TypeOK
    <2> QED
      BY <1>2, <2>2 DEF TypeOK, Holding, Evict
  <1>3. CASE Get
    <2>1. Head(pending) \in Objects \union {None} /\ Tail(pending) \in Seq(Objects \union {None})
      BY <1>3, HeadTailProperties DEF TypeOK, Get
    <2> QED
      BY <1>3, <2>1 DEF TypeOK, Holding, Get
  <1>4. CASE Start
    <2>1. held \in Objects /\ held[1] \in Jobs
      BY <1>4 DEF Start, TypeOK, Holding, Objects
    <2>2. jobs[held[1]] \in Records
      BY <2>1 DEF TypeOK
    <2>3. [jobs[held[1]] EXCEPT !.state = "running", !.phase = None, !.error = "none"] \in Records
      BY <2>2 DEF Records, States, Outcomes
    <2>4. jobs' \in [Jobs -> Records]
      BY <1>4, <2>1, <2>3 DEF Start, TypeOK
    <2> QED
      BY <1>4, <2>1, <2>4 DEF Start, TypeOK, Holding
  <1>5. CASE Abandon
    BY <1>5 DEF Abandon, TypeOK, Holding
  <1>6. ASSUME NEW p \in Phases, Report(p) PROVE TypeOK' /\ Holding'
    <2>1. current \in Objects /\ current[1] \in Jobs
      BY <1>6 DEF Report, TypeOK, Objects
    <2>0. jobs[current[1]] \in Records
      BY <2>1 DEF TypeOK
    <2>2. [jobs[current[1]] EXCEPT !.phase = p] \in Records
      BY <2>0 DEF Records
    <2>3. jobs' \in [Jobs -> Records] /\ outcome' \in Outcomes \union {"none"}
      BY <1>6, <2>1, <2>2 DEF Report, TypeOK, Outcomes
    <2> QED
      BY <1>6, <2>1, <2>3 DEF Report, TypeOK, Holding
  <1>7. ASSUME NEW o \in Outcomes \ {"cancelled"}, Return(o) PROVE TypeOK' /\ Holding'
    BY <1>7 DEF Return, TypeOK, Holding
  <1>8. CASE Finish
    <2>1. held \in Objects /\ held[1] \in Jobs /\ held[2] \in 0..MaxObjects
      BY <1>8 DEF Finish, TypeOK, Holding, Objects
    <2>2. jobs[held[1]] \in Records /\ outcome \in Outcomes
      BY <1>8, <2>1 DEF Finish, TypeOK
    <2>3. Settled(jobs[held[1]], held) \in Records
      <3>1. CASE outcome = "done"
        BY <2>1, <2>2, <3>1 DEF Settled, Records, States
      <3>2. CASE outcome # "done"
        <4>1. outcome \in (Outcomes \ {"done"}) \union {"none"}
          BY <2>2, <3>2
        <4>2. [jobs[held[1]] EXCEPT !.state = "failed", !.error = outcome, !.path = 0] \in Records
          <5>1. "failed" \in States /\ 0 \in 0..MaxObjects
            BY DEF States
          <5> QED
            BY <2>2, <4>1, <5>1, Rewritten
        <4> QED
          BY <3>2, <4>2 DEF Settled
      <3> QED
        BY <3>1, <3>2
    <2>4. jobs' \in [Jobs -> Records]
      BY <1>8, <2>1, <2>3 DEF Finish, TypeOK
    <2> QED
      BY <1>8, <2>4 DEF Finish, TypeOK, Holding
  <1>9. ASSUME NEW c \in Closers, Close(c) PROVE TypeOK' /\ Holding'
    BY <1>9 DEF Close, TypeOK, Holding
  <1>10. ASSUME NEW c \in Closers, PutNone(c) PROVE TypeOK' /\ Holding'
    <2>1. pending' \in Seq(Objects \union {None})
      BY <1>10, AppendProperties DEF TypeOK, PutNone
    <2> QED
      BY <1>10, <2>1 DEF PutNone, TypeOK, Holding
  <1>11. ASSUME NEW c \in Closers, Join(c) PROVE TypeOK' /\ Holding'
    BY <1>11 DEF Join, TypeOK, Holding
  <1>12. CASE UNCHANGED vars
    BY <1>12 DEF vars, TypeOK, Holding
  <1> QED
    BY <1>1, <1>2, <1>3, <1>4, <1>5, <1>6, <1>7, <1>8, <1>9, <1>10, <1>11, <1>12
    DEF Next, Begin

----------------------------------------------------------------------------
(* NoJobLost, an action at a time.                                         *)

\* What is in a sequence t after Append to s, and in s before t is taken as its Tail.
Extended(s, t, x) ==
  /\ \A y : (\E i \in DOMAIN t : t[i] = y) <=> y = x \/ \E i \in DOMAIN s : s[i] = y
  /\ \A i \in DOMAIN t : i \in DOMAIN s \/ (t[i] = x /\ i = Len(s) + 1)
  /\ \A i \in DOMAIN s : i \in DOMAIN t /\ t[i] = s[i]

Shortened(s, t) ==
  /\ \A y : (\E i \in DOMAIN s : s[i] = y) <=> y = s[1] \/ \E i \in DOMAIN t : t[i] = y
  /\ \A i \in DOMAIN t : i + 1 \in DOMAIN s /\ t[i] = s[i + 1] /\ i \in Nat \ {0}
  /\ 1 \in DOMAIN s /\ Head(s) = s[1]

LEMMA AppendRange ==
  ASSUME NEW S, NEW s \in Seq(S), NEW x \in S, NEW t, t = Append(s, x)
  PROVE  Extended(s, t, x)
  BY AppendProperties DEF Extended

LEMMA TailRange ==
  ASSUME NEW S, NEW s \in Seq(S), s # <<>>, NEW t, t = Tail(s)
  PROVE  Shortened(s, t)
  <1>1. /\ Len(s) \in Nat \ {0} /\ DOMAIN s = 1..Len(s) /\ Head(s) = s[1]
        /\ DOMAIN t = 1..(Len(s) - 1)
        /\ \A i \in 1..(Len(s) - 1) : t[i] = s[i + 1]
    BY HeadTailProperties
  <1>2. \A i \in DOMAIN s : i = 1 \/ (i - 1 \in DOMAIN t /\ t[i - 1] = s[i])
    BY <1>1
  <1>3. \A i \in DOMAIN t : i + 1 \in DOMAIN s /\ t[i] = s[i + 1] /\ i \in Nat \ {0}
    BY <1>1
  <1>4. 1 \in DOMAIN s /\ Head(s) = s[1]
    BY <1>1
  <1>5. \A y : (\E i \in DOMAIN s : s[i] = y) => y = s[1] \/ \E i \in DOMAIN t : t[i] = y
    BY <1>2
  <1>6. \A y : y = s[1] \/ (\E i \in DOMAIN t : t[i] = y) => \E i \in DOMAIN s : s[i] = y
    BY <1>3, <1>4
  <1> QED
    BY <1>3, <1>4, <1>5, <1>6 DEF Shortened

Distinct == \A i, k \in DOMAIN pending : pending[i] = pending[k] /\ pending[i] # None => i = k

\* An id's object is not None, whatever its number.
LEMMA ObjectIsNotNone == TypeOK => \A j \in Jobs : Object(j) # None /\ Object(j)[1] = j
  BY NoneIsNoObject, JobQueueAssumption DEF JobQueueAssumption, Object, TypeOK, Records

\* An action that neither queues, takes, begins nor ends a job keeps NoJobLost.
LEMMA Undisturbed ==
  ASSUME TypeOK, NoJobLost, Distinct', held' = held, current' = current, Taken' = Taken,
         (pc' = "run" <=> pc = "run"),
         \A o : o # None => (Lined(o)' <=> Lined(o)),
         \A j \in Jobs : jobs'[j].made = jobs[j].made,
         \A j \in Jobs : (jobs'[j].state = "queued" <=> jobs[j].state = "queued"),
         \A j \in Jobs : (jobs'[j].state = "running" <=> jobs[j].state = "running")
  PROVE  NoJobLost'
  <1>1. \A j \in Jobs : Object(j)' = Object(j) /\ Object(j) # None
    BY ObjectIsNotNone DEF Object
  <1>2. \A o \in Objects : o[1] \in Jobs /\ o # None
    BY NoneIsNoObject DEF Objects
  <1>3. \A j \in Jobs : jobs'[j].state = "queued" <=> Taken' = Object(j)' \/ Lined(Object(j))'
    BY <1>1 DEF NoJobLost
  <1>4. \A o \in Objects : Taken' = o \/ Lined(o)' => o = Object(o[1])'
    BY <1>1, <1>2 DEF NoJobLost
  <1>5. Taken' # None => ~Lined(Taken)'
    BY DEF NoJobLost
  <1>6. \A j \in Jobs : jobs'[j].state = "running" <=> pc' = "run" /\ held' = Object(j)'
    BY <1>1 DEF NoJobLost
  <1>7. pc' = "run" => \E j \in Jobs : held' = Object(j)'
    BY <1>1 DEF NoJobLost
  <1>8. current' = IF pc' = "run" THEN held' ELSE None
    BY DEF NoJobLost
  <1> QED
    BY <1>3, <1>4, <1>5, <1>6, <1>7, <1>8 DEF NoJobLost, Distinct

LEMMA QuietStep ==
  ASSUME IInv, \/ \E j \in Jobs : Evict(j)
               \/ \E p \in Phases : Report(p)
               \/ \E o \in Outcomes : Return(o)
               \/ \E c \in Closers : Close(c) \/ Join(c)
               \/ Abandon
               \/ UNCHANGED vars
  PROVE  NoJobLost'
  <1>1. pending' = pending /\ held' = held /\ current' = current
    BY DEF Evict, Report, Return, Close, Join, Abandon, vars
  <1>2. (pc' = "run" <=> pc = "run") /\ Taken' = Taken
    BY DEF Evict, Report, Return, Close, Join, Abandon, vars, Taken
  <1>3. \A j \in Jobs : /\ jobs'[j].made = jobs[j].made
                       /\ (jobs'[j].state = "queued" <=> jobs[j].state = "queued")
                       /\ (jobs'[j].state = "running" <=> jobs[j].state = "running")
    <2> SUFFICES ASSUME NEW j \in Jobs
                 PROVE  /\ jobs'[j].made = jobs[j].made
                        /\ (jobs'[j].state = "queued" <=> jobs[j].state = "queued")
                        /\ (jobs'[j].state = "running" <=> jobs[j].state = "running")
      OBVIOUS
    <2>1. jobs[j] \in Records
      BY DEF IInv, TypeOK
    <2>2. ASSUME NEW k \in Jobs, Evict(k)
          PROVE  \/ jobs'[j] = jobs[j]
                 \/ /\ jobs[j].state = "done"
                    /\ jobs'[j] = [jobs[j] EXCEPT !.state = "evicted", !.path = 0]
      BY <2>2 DEF IInv, TypeOK, Evict
    <2>3. ASSUME NEW k \in Jobs, Evict(k)
          PROVE  /\ jobs'[j].made = jobs[j].made
                 /\ (jobs'[j].state = "queued" <=> jobs[j].state = "queued")
                 /\ (jobs'[j].state = "running" <=> jobs[j].state = "running")
      BY <2>1, <2>2, <2>3 DEF Records
    <2>4. ASSUME NEW p \in Phases, Report(p)
          PROVE  jobs'[j].made = jobs[j].made /\ jobs'[j].state = jobs[j].state
      <3>1. jobs'[j] = jobs[j] \/ jobs'[j] = [jobs[j] EXCEPT !.phase = p]
        <4>1. current[1] \in Jobs
          BY <2>4, NoneIsNoObject DEF IInv, TypeOK, Report, Objects
        <4> QED
          BY <2>4, <4>1 DEF IInv, TypeOK, Report
      <3> QED
        BY <2>1, <3>1 DEF Records
    <2>5. jobs' = jobs \/ (\E k \in Jobs : Evict(k)) \/ \E p \in Phases : Report(p)
      BY DEF Return, Close, Join, Abandon, vars
    <2> QED
      BY <2>3, <2>4, <2>5
  <1>4. Distinct' /\ \A o : Lined(o)' <=> Lined(o)
    BY <1>1 DEF Distinct, Lined, IInv, NoJobLost
  <1> QED
    BY <1>1, <1>2, <1>3, <1>4, Undisturbed DEF IInv

LEMMA PutNoneStep == ASSUME IInv, NEW c \in Closers, PutNone(c) PROVE NoJobLost'
  <1>1. /\ pending \in Seq(Objects \union {None}) /\ None \in Objects \union {None}
        /\ pending' = Append(pending, None)
    BY DEF IInv, TypeOK, PutNone
  <1>2. Extended(pending, pending', None)
    BY <1>1, AppendRange
  <1>3. \A o : o # None => (Lined(o)' <=> Lined(o))
    BY <1>2 DEF Lined, Extended
  <1>4. Distinct'
    BY <1>2 DEF IInv, NoJobLost, Distinct, Extended
  <1>5. /\ held' = held /\ current' = current /\ pc' = pc /\ jobs' = jobs
        /\ Taken' = Taken
    BY DEF PutNone, Taken
  <1> QED
    BY <1>3, <1>4, <1>5, Undisturbed DEF IInv

\* The submitted id has no object in the FIFO or with the worker, so the fresh one is its only one.
LEMMA SubmitStep == ASSUME IInv, NEW j \in Jobs, Submit(j) PROVE NoJobLost'
  <1> DEFINE o == <<j, jobs[j].made + 1>>
  <1>1. /\ jobs[j].made \in 0..MaxObjects /\ jobs[j].made < MaxObjects
        /\ jobs[j].state \notin {"queued", "running"}
    BY DEF IInv, TypeOK, Records, Submit, Submittable, Queue
  <1>2. o \in Objects /\ o # None
    BY <1>1, NoneIsNoObject, JobQueueAssumption DEF JobQueueAssumption, Objects
  <1>3. /\ pending' = Append(pending, o) /\ pending \in Seq(Objects \union {None})
        /\ held' = held /\ current' = current /\ pc' = pc /\ Taken' = Taken
    BY DEF IInv, TypeOK, Submit, Queue, Taken
  <1>4. /\ Object(j)' = o /\ jobs'[j].state = "queued"
        /\ \A k \in Jobs \ {j} : jobs'[k] = jobs[k] /\ Object(k)' = Object(k)
    BY DEF IInv, TypeOK, Submit, Queue, Object
  <1>5. \A x : x \in Objects /\ x[1] = j => Taken # x /\ ~Lined(x)
    BY <1>1 DEF IInv, NoJobLost
  <1> HIDE DEF o
  <1>a. Extended(pending, pending', o)
    <2>1. o \in Objects \union {None}
      BY <1>2
    <2> QED
      BY <1>3, <2>1, AppendRange
  <1>6. \A x : Lined(x)' <=> x = o \/ Lined(x)
    BY <1>a DEF Lined, Extended
  <1>7. Taken # o /\ ~Lined(o) /\ o[1] = j
    BY <1>2, <1>5 DEF o
  <1>8. \A k \in Jobs : Object(k)[1] = k /\ Object(k) # None
    BY ObjectIsNotNone DEF IInv
  <1>9. \A k \in Jobs : jobs'[k].state = "queued" <=> Taken' = Object(k)' \/ Lined(Object(k))'
    <2>1. ASSUME NEW k \in Jobs \ {j}
          PROVE  jobs'[k].state = "queued" <=> Taken' = Object(k)' \/ Lined(Object(k))'
      <3>1. Lined(Object(k))' <=> Lined(Object(k))
        BY <1>4, <1>6, <1>7, <1>8 DEF Lined
      <3> QED
        BY <1>3, <1>4, <3>1 DEF IInv, NoJobLost
    <2>2. Lined(Object(j))'
      BY <1>4, <1>6 DEF Lined
    <2> QED
      BY <1>4, <2>1, <2>2
  <1>10. \A x \in Objects : Taken' = x \/ Lined(x)' => x = Object(x[1])'
    <2> SUFFICES ASSUME NEW x \in Objects, Taken' = x \/ Lined(x)' PROVE x = Object(x[1])'
      OBVIOUS
    <2>1. CASE x = o
      BY <1>4, <1>7, <2>1
    <2>2. CASE x # o
      <3>1. Taken = x \/ Lined(x)
        BY <1>3, <1>6, <2>2
      <3>2. x[1] \in Jobs \ {j}
        BY <1>5, <3>1 DEF Objects
      <3> QED
        BY <1>4, <3>1, <3>2 DEF IInv, NoJobLost
    <2> QED
      BY <2>1, <2>2
  <1>11. Distinct'
    <2> SUFFICES ASSUME NEW i \in DOMAIN pending', NEW k \in DOMAIN pending',
                        pending'[i] = pending'[k], pending'[i] # None
                 PROVE  i = k
      BY DEF Distinct
    <2>1. CASE i \in DOMAIN pending /\ k \in DOMAIN pending
      BY <1>a, <2>1 DEF IInv, NoJobLost, Extended
    <2>2. \A n \in DOMAIN pending : pending'[n] # o
      BY <1>a, <1>7 DEF Lined, Extended
    <2> QED
      BY <1>a, <2>1, <2>2 DEF Extended
  <1>12. Taken' # None => ~Lined(Taken)'
    BY <1>3, <1>6, <1>7 DEF IInv, NoJobLost, Lined
  <1>13. \A k \in Jobs : jobs'[k].state = "running" <=> pc' = "run" /\ held' = Object(k)'
    <2>1. pc = "run" => \E k \in Jobs \ {j} : held = Object(k)
      BY <1>1 DEF IInv, NoJobLost
    <2>2. pc = "run" => held # o
      BY <1>7, <1>8, <2>1
    <2> QED
      BY <1>3, <1>4, <2>2 DEF IInv, NoJobLost
  <1>14. pc' = "run" => \E k \in Jobs : held' = Object(k)'
    BY <1>1, <1>3, <1>4 DEF IInv, NoJobLost
  <1>15. current' = IF pc' = "run" THEN held' ELSE None
    BY <1>3 DEF IInv, NoJobLost
  <1> QED
    BY <1>9, <1>10, <1>11, <1>12, <1>13, <1>14, <1>15 DEF NoJobLost, Distinct

\* The head of the FIFO becomes the object taken.
LEMMA GetStep == ASSUME IInv, Get PROVE NoJobLost'
  <1>1. /\ pending \in Seq(Objects \union {None}) /\ pending # <<>> /\ pending' = Tail(pending)
        /\ held' = Head(pending) /\ current' = current /\ jobs' = jobs
        /\ pc = "get" /\ pc' \in {"got", "stopped"}
    BY DEF IInv, TypeOK, Get
  <1>2. Taken = None /\ Taken' = Head(pending)
    BY <1>1 DEF Taken
  <1>a. Shortened(pending, pending')
    BY <1>1, TailRange
  <1>3. \A x : Lined(x) <=> x = Taken' \/ Lined(x)'
    BY <1>2, <1>a DEF Lined, Shortened
  <1>4. \A j \in Jobs : Object(j)' = Object(j) /\ Object(j) # None
    BY <1>1, ObjectIsNotNone DEF IInv, Object
  <1>5. \A j \in Jobs : jobs'[j].state = "queued" <=> Taken' = Object(j)' \/ Lined(Object(j))'
    <2>1. \A j \in Jobs : jobs[j].state = "queued" <=> Lined(Object(j))
      BY <1>2, <1>4 DEF IInv, NoJobLost
    <2>2. \A j \in Jobs : Lined(Object(j)) <=> Object(j) = Taken' \/ Lined(Object(j))'
      BY <1>3, <1>4 DEF Lined
    <2> QED
      BY <1>1, <1>4, <2>1, <2>2
  <1>6. \A x \in Objects : Taken' = x \/ Lined(x)' => x = Object(x[1])'
    BY <1>1, <1>3 DEF IInv, NoJobLost, Object
  <1>7. Distinct'
    BY <1>a DEF IInv, NoJobLost, Distinct, Shortened
  <1>8. Taken' # None => ~Lined(Taken)'
    <2> SUFFICES ASSUME Taken' # None, NEW i \in DOMAIN pending', pending'[i] = Taken'
                 PROVE  FALSE
      BY DEF Lined
    <2>1. /\ i + 1 \in DOMAIN pending /\ i + 1 # 1 /\ pending[i + 1] = pending[1]
          /\ 1 \in DOMAIN pending /\ pending[1] # None
      BY <1>2, <1>a DEF Shortened
    <2> QED
      BY <2>1 DEF IInv, NoJobLost
  <1>9. /\ \A j \in Jobs : jobs'[j].state = "running" <=> pc' = "run" /\ held' = Object(j)'
        /\ pc' # "run" /\ current' = None
    BY <1>1 DEF IInv, NoJobLost
  <1> QED
    BY <1>5, <1>6, <1>7, <1>8, <1>9 DEF NoJobLost, Distinct

\* The object taken is its id's object, and its id starts to run.
LEMMA StartStep == ASSUME IInv, Start PROVE NoJobLost'
  <1>1. /\ pc = "got" /\ pc' = "run" /\ held' = held /\ current' = held /\ pending' = pending
        /\ held \in Objects /\ held[1] \in Jobs /\ held # None
    BY NoneIsNoObject DEF IInv, TypeOK, Holding, Start, Objects
  <1>2. Taken = held /\ Taken' = None /\ held = Object(held[1])
    BY <1>1 DEF Taken, IInv, NoJobLost
  <1>3. \A j \in Jobs : jobs[j] \in Records /\ Object(j)[1] = j /\ Object(j) # None
    BY ObjectIsNotNone DEF IInv, TypeOK
  <1>4. jobs' = [jobs EXCEPT ![held[1]] =
          [jobs[held[1]] EXCEPT !.state = "running", !.phase = None, !.error = "none"]]
    BY <1>1 DEF Start, IInv, TypeOK
  <1>5. /\ jobs'[held[1]].state = "running" /\ jobs'[held[1]].made = jobs[held[1]].made
        /\ \A j \in Jobs \ {held[1]} : jobs'[j] = jobs[j]
    BY <1>1, <1>3, <1>4 DEF IInv, TypeOK, Records
  <1>6. \A j \in Jobs : Object(j)' = Object(j)
    BY <1>5 DEF Object
  <1>7. \A x : Lined(x)' <=> Lined(x)
    BY <1>1 DEF Lined
  <1>8. \A j \in Jobs : jobs'[j].state = "queued" <=> Taken' = Object(j)' \/ Lined(Object(j))'
    <2>1. ASSUME NEW j \in Jobs, j # held[1]
          PROVE  jobs'[j].state = "queued" <=> Lined(Object(j))
      BY <1>2, <1>3, <1>5, <2>1 DEF IInv, NoJobLost
    <2>2. ~Lined(Object(held[1]))
      BY <1>1, <1>2 DEF IInv, NoJobLost
    <2>3. \A j \in Jobs : Lined(Object(j))' <=> Lined(Object(j))
      BY <1>6, <1>7 DEF Lined
    <2> QED
      BY <1>2, <1>3, <1>5, <1>6, <2>1, <2>2, <2>3
  <1>9. \A x \in Objects : Taken' = x \/ Lined(x)' => x = Object(x[1])'
    BY <1>2, <1>6, <1>7, NoneIsNoObject DEF IInv, NoJobLost, Objects
  <1>10. Distinct' /\ Taken' = None
    BY <1>1, <1>2 DEF IInv, NoJobLost, Distinct
  <1>11. \A j \in Jobs : jobs'[j].state = "running" <=> pc' = "run" /\ held' = Object(j)'
    BY <1>1, <1>2, <1>3, <1>5, <1>6 DEF IInv, NoJobLost
  <1>12. \E j \in Jobs : held' = Object(j)'
    BY <1>1, <1>2, <1>6
  <1> QED
    BY <1>1, <1>8, <1>9, <1>10, <1>11, <1>12 DEF NoJobLost, Distinct

\* The running id ends, and nobody else's record is touched.
LEMMA FinishStep == ASSUME IInv, Finish PROVE NoJobLost'
  <1>1. /\ pc = "run" /\ pc' = "get" /\ current' = None /\ pending' = pending
        /\ held \in Objects /\ held[1] \in Jobs /\ outcome \in Outcomes
    BY NoneIsNoObject DEF IInv, TypeOK, Holding, Finish, Objects
  <1>2. Taken = None /\ Taken' = None
    BY <1>1 DEF Taken
  <1>3. held = Object(held[1]) /\ jobs[held[1]].state = "running"
    BY <1>1, ObjectIsNotNone DEF IInv, NoJobLost
  <1>4. /\ jobs'[held[1]] = Settled(jobs[held[1]], held)
        /\ \A j \in Jobs \ {held[1]} : jobs'[j] = jobs[j]
    BY <1>1 DEF Finish, IInv, TypeOK
  <1>5. /\ Settled(jobs[held[1]], held).state \in {"done", "failed"}
        /\ Settled(jobs[held[1]], held).made = jobs[held[1]].made
    <2>1. jobs[held[1]] \in Records
      BY <1>1 DEF IInv, TypeOK
    <2> QED
      BY <2>1 DEF Settled, Records
  <1>6. \A j \in Jobs : Object(j)' = Object(j) /\ (Lined(Object(j))' <=> Lined(Object(j)))
    BY <1>1, <1>4, <1>5 DEF Object, Lined
  <1>7. \A j \in Jobs : jobs'[j].state = "queued" <=> Taken' = Object(j)' \/ Lined(Object(j))'
    <2>1. \A j \in Jobs : Object(j) # None
      BY ObjectIsNotNone DEF IInv
    <2>2. \A j \in Jobs : jobs[j].state = "queued" <=> Lined(Object(j))
      BY <1>2, <2>1 DEF IInv, NoJobLost
    <2> QED
      BY <1>2, <1>3, <1>4, <1>5, <1>6, <2>1, <2>2
  <1>8. \A x \in Objects : Taken' = x \/ Lined(x)' => x = Object(x[1])'
    BY <1>1, <1>2, <1>6, NoneIsNoObject DEF IInv, NoJobLost, Objects, Lined
  <1>9. Distinct'
    BY <1>1 DEF IInv, NoJobLost, Distinct
  <1>10. \A j \in Jobs : jobs'[j].state # "running"
    <2>1. \A j \in Jobs : Object(j)[1] = j
      BY ObjectIsNotNone DEF IInv
    <2>2. \A j \in Jobs \ {held[1]} : jobs[j].state # "running"
      BY <1>3, <2>1 DEF IInv, NoJobLost
    <2> QED
      BY <1>4, <1>5, <2>2
  <1> QED
    BY <1>1, <1>2, <1>7, <1>8, <1>9, <1>10 DEF NoJobLost, Distinct

----------------------------------------------------------------------------
(* The theorems.                                                           *)

LEMMA StepIInv == IInv /\ [Next]_vars => IInv'
  <1> SUFFICES ASSUME IInv, [Next]_vars PROVE IInv'
    OBVIOUS
  <1>1. TypeOK' /\ Holding'
    BY TypeStep DEF IInv
  <1> SUFFICES NoJobLost'
    BY <1>1 DEF IInv
  <1>2. ASSUME NEW j \in Jobs, Submit(j) \/ Evict(j) PROVE NoJobLost'
    BY <1>2, SubmitStep, QuietStep
  <1>3. CASE Get
    BY <1>3, GetStep
  <1>4. CASE Begin
    BY <1>4, StartStep, QuietStep DEF Begin
  <1>5. CASE Finish
    BY <1>5, FinishStep
  <1>6. ASSUME NEW p \in Phases, Report(p) PROVE NoJobLost'
    BY <1>6, QuietStep
  <1>7. ASSUME NEW o \in Outcomes \ {"cancelled"}, Return(o) PROVE NoJobLost'
    BY <1>7, QuietStep
  <1>8. ASSUME NEW c \in Closers, Close(c) \/ PutNone(c) \/ Join(c) PROVE NoJobLost'
    BY <1>8, PutNoneStep, QuietStep
  <1>9. CASE UNCHANGED vars
    BY <1>9, QuietStep
  <1> QED
    BY <1>2, <1>3, <1>4, <1>5, <1>6, <1>7, <1>8, <1>9 DEF Next

\* The inductive invariant: between them the table, the FIFO and the worker agree
\* on where every object is (submit, close and _work).
THEOREM Invariance == Spec => []IInv
  BY InitIInv, StepIInv, PTL DEF Spec

\* Every variable keeps its type: the worker never reads a field of None.
THEOREM TypeCorrect == Spec => []TypeOK
  BY Invariance, PTL DEF IInv

\* No accepted job is lost, run twice or run on a superseded object, whoever
\* submits, evicts and closes meanwhile (submit against _work).
THEOREM NothingLost == Spec => []NoJobLost
  BY Invariance, PTL DEF IInv

\* A done job's record changes only by eviction (submit, _work and evict).
THEOREM ResultsKept == Spec => ResultKept
  <1> DEFINE Kept == \A j \in Jobs : jobs[j].state = "done" =>
               jobs'[j] = jobs[j] \/ jobs'[j] = [jobs[j] EXCEPT !.state = "evicted", !.path = 0]
  <1>1. IInv /\ [Next]_vars => [Kept]_vars
    <2> SUFFICES ASSUME IInv, Next, NEW j \in Jobs, jobs[j].state = "done"
                 PROVE  jobs'[j] = jobs[j] \/ jobs'[j] = [jobs[j] EXCEPT !.state = "evicted", !.path = 0]
      OBVIOUS
    <2>1. ASSUME NEW k \in Jobs, Submit(k) \/ Evict(k)
          PROVE  jobs'[j] = jobs[j] \/ jobs'[j] = [jobs[j] EXCEPT !.state = "evicted", !.path = 0]
      BY <2>1 DEF IInv, TypeOK, Submit, Submittable, Queue, Evict
    <2>2. ASSUME Start PROVE jobs'[j] = jobs[j]
      <3>1. held[1] \in Jobs /\ jobs[held[1]].state = "queued"
        BY <2>2, NoneIsNoObject DEF IInv, TypeOK, Holding, NoJobLost, Start, Taken, Objects
      <3> QED
        BY <2>2, <3>1 DEF Start, IInv, TypeOK
    <2>3. ASSUME pc = "run" PROVE held[1] \in Jobs /\ jobs[held[1]].state = "running"
      BY <2>3, ObjectIsNotNone DEF IInv, NoJobLost
    <2>4. ASSUME Finish PROVE jobs'[j] = jobs[j]
      BY <2>3, <2>4 DEF Finish, IInv, TypeOK
    <2>5. ASSUME NEW p \in Phases, Report(p) PROVE jobs'[j] = jobs[j]
      <3>1. current = held /\ current[1] # j
        BY <2>3, <2>5 DEF IInv, NoJobLost, Report
      <3> QED
        BY <2>3, <2>5, <3>1 DEF Report, IInv, TypeOK
    <2> QED
      BY <2>1, <2>2, <2>4, <2>5 DEF Next, Begin, Get, Abandon, Return, Close, PutNone, Join
  <1> QED
    BY Invariance, <1>1, PTL DEF Spec, ResultKept

\* When the close that waited has returned, no job runs or will run (close).
THEOREM ClosedForGood == Spec => []CloseIsFinal
  <1> DEFINE Gone == \A c \in Closers : closing[c] = "joined" => pc = "stopped"
  <1>1. Init => Gone
    BY DEF Init
  <1>2. IInv /\ Gone /\ [Next]_vars => Gone'
    BY DEF IInv, TypeOK, Next, Submit, Queue, Evict, Get, Begin, Start, Abandon, Finish, Report,
           Return, Close, PutNone, Join, vars
  <1>3. IInv /\ Gone => CloseIsFinal
    BY DEF IInv, NoJobLost, CloseIsFinal
  <1> QED
    BY Invariance, <1>1, <1>2, <1>3, PTL DEF Spec

----------------------------------------------------------------------------
(* JobQueue implements JobBoard.                                           *)

\* Only the first call of close puts the pill, once, and nothing is put after it.
Pill ==
  /\ \A c, d \in Closers :
       closing[c] \in {"put", "join", "joined"} /\ closing[d] \in {"put", "join", "joined"} => c = d
  /\ \A c \in Closers : closing[c] # "idle" => closed
  /\ \A c \in Closers : closing[c] = "put" => ~Lined(None)
  /\ \A i \in DOMAIN pending : pending[i] = None => closed /\ i = Len(pending)

LEMMA PillStep == ASSUME IInv, Pill, [Next]_vars PROVE Pill'
  <1> USE DEF IInv, TypeOK
  <1>1. ASSUME NEW j \in Jobs, Submit(j) PROVE Pill'
    <2> DEFINE o == <<j, jobs[j].made + 1>>
    <2>1. o \in Objects /\ o # None /\ pending' = Append(pending, o) /\ ~closed
      <3>1. jobs[j].made \in 0..MaxObjects /\ jobs[j].made < MaxObjects
        BY <1>1 DEF Records, Submit, Queue
      <3> QED
        BY <1>1, <3>1, NoneIsNoObject, JobQueueAssumption DEF JobQueueAssumption, Objects, Submit, Submittable, Queue
    <2> HIDE DEF o
    <2>2. o \in Objects \union {None}
      BY <2>1
    <2>3. Extended(pending, pending', o)
      BY <2>1, <2>2, AppendRange
    <2>4. \A i \in DOMAIN pending' : pending'[i] # None
      BY <2>1, <2>3 DEF Pill, Extended
    <2>5. closing' = closing /\ closed' = closed
      BY <1>1 DEF Submit, Queue
    <2> QED
      BY <2>1, <2>4, <2>5 DEF Pill, Lined
  <1>2. CASE Get
    <2>1. pending # <<>> /\ pending' = Tail(pending) /\ closing' = closing /\ closed' = closed
      BY <1>2 DEF Get
    <2>2. Shortened(pending, pending') /\ Len(pending') = Len(pending) - 1 /\ Len(pending) \in Nat
      <3>1. Shortened(pending, pending')
        BY <2>1, TailRange
      <3>2. Len(Tail(pending)) = Len(pending) - 1 /\ Len(pending) \in Nat
        BY <2>1, HeadTailProperties, LenProperties
      <3> QED
        BY <2>1, <3>1, <3>2
    <2>3. \A i \in DOMAIN pending' : pending'[i] = None => closed /\ i = Len(pending')
      <3> SUFFICES ASSUME NEW i \in DOMAIN pending', pending'[i] = None PROVE closed /\ i = Len(pending')
        OBVIOUS
      <3>1. i + 1 \in DOMAIN pending /\ pending[i + 1] = None /\ i \in Nat
        BY <2>2 DEF Shortened
      <3>2. closed /\ i + 1 = Len(pending)
        BY <3>1 DEF Pill
      <3> QED
        BY <2>2, <3>1, <3>2
    <2>4. Lined(None)' => Lined(None)
      BY <2>2 DEF Lined, Shortened
    <2> QED
      BY <2>1, <2>3, <2>4 DEF Pill
  <1>3. ASSUME NEW c \in Closers, Close(c) PROVE Pill'
    <2>1. pending' = pending /\ closed' /\ closing[c] = "idle"
      BY <1>3 DEF Close
    <2>2. ~Lined(None) \/ closed
      BY DEF Pill, Lined
    <2>3. CASE closed
      <3>1. \A d \in Closers : closing'[d] = IF d = c THEN "skipped" ELSE closing[d]
        BY <1>3, <2>3 DEF Close
      <3> QED
        BY <2>1, <2>3, <3>1 DEF Pill, Lined
    <2>4. CASE ~closed
      <3>1. \A d \in Closers : closing'[d] = IF d = c THEN "put" ELSE "idle"
        BY <1>3, <2>4 DEF Close, Pill
      <3> QED
        BY <2>1, <2>2, <2>4, <3>1 DEF Pill, Lined
    <2> QED
      BY <2>3, <2>4
  <1>4. ASSUME NEW c \in Closers, PutNone(c) PROVE Pill'
    <2>1. pending' = Append(pending, None) /\ closed' = closed /\ closing[c] = "put" /\ None \in Objects \union {None}
      BY <1>4 DEF PutNone
    <2>2. Extended(pending, pending', None) /\ Len(pending') = Len(pending) + 1
      <3>1. Extended(pending, pending', None)
        BY <2>1, AppendRange
      <3>2. Len(Append(pending, None)) = Len(pending) + 1
        BY <2>1, AppendProperties
      <3> QED
        BY <2>1, <3>1, <3>2
    <2>3. \A d \in Closers : closing'[d] = IF d = c THEN "join" ELSE closing[d]
      BY <1>4 DEF PutNone
    <2>4. \A i \in DOMAIN pending' : pending'[i] = None => closed /\ i = Len(pending')
      BY <2>1, <2>2 DEF Pill, Extended, Lined
    <2> QED
      BY <2>1, <2>3, <2>4 DEF Pill
  <1>5. ASSUME NEW c \in Closers, Join(c) PROVE Pill'
    <2>1. pending' = pending /\ closed' = closed /\ closing[c] = "join"
      BY <1>5 DEF Join
    <2>2. \A d \in Closers : closing'[d] = IF d = c THEN "joined" ELSE closing[d]
      BY <1>5 DEF Join
    <2> QED
      BY <2>1, <2>2 DEF Pill, Lined
  <1>6. ASSUME pending' = pending, closing' = closing, closed' = closed PROVE Pill'
    BY <1>6 DEF Pill, Lined
  <1> QED
    BY <1>1, <1>2, <1>3, <1>4, <1>5, <1>6
    DEF Next, Evict, Begin, Start, Abandon, Finish, Report, Return, vars

\* The ids of a line of objects.
Ids(s) == [i \in DOMAIN s |-> s[i][1]]

LEMMA IdsAppend ==
  ASSUME NEW s \in Seq(Objects), NEW o \in Objects
  PROVE  Ids(Append(s, o)) = Append(Ids(s), o[1])
  <1>1. \A x \in Objects : x[1] \in Jobs
    BY DEF Objects
  <1>2. Ids(s) \in Seq(Jobs) /\ Len(Ids(s)) = Len(s) /\ \A i \in 1..Len(s) : Ids(s)[i] = s[i][1]
    BY <1>1, LenProperties DEF Ids
  <1> QED
    BY <1>1, <1>2, AppendProperties DEF Ids

LEMMA IdsOfFirst ==
  ASSUME NEW s \in Seq(Objects), NEW o \in Objects
  PROVE  /\ Ids(<<o>> \o s) # <<>> /\ Head(Ids(<<o>> \o s)) = o[1]
         /\ Tail(Ids(<<o>> \o s)) = Ids(s)
  <1> DEFINE w == <<o>> \o s
  <1>1. o[1] \in Jobs /\ \A x \in Objects : x[1] \in Jobs
    BY DEF Objects
  <1>2. /\ w \in Seq(Objects) /\ Len(w) = 1 + Len(s) /\ Len(s) \in Nat /\ w[1] = o
        /\ \A i \in 1..Len(s) : w[i + 1] = s[i]
    <2>1. <<o>> \in Seq(Objects) /\ Len(<<o>>) = 1 /\ <<o>>[1] = o /\ Len(s) \in Nat
      OBVIOUS
    <2>2. /\ w \in Seq(Objects) /\ Len(w) = Len(<<o>>) + Len(s)
          /\ \A i \in 1..(Len(<<o>>) + Len(s)) : w[i] = IF i <= Len(<<o>>) THEN <<o>>[i] ELSE s[i - Len(<<o>>)]
      BY <2>1, ConcatProperties
    <2> HIDE DEF w
    <2> QED
      BY <2>1, <2>2
  <1> HIDE DEF w
  <1>3. /\ Ids(w) \in Seq(Jobs) /\ Len(Ids(w)) = 1 + Len(s) /\ Ids(w)[1] = o[1]
        /\ \A i \in 1..Len(s) : Ids(w)[i + 1] = s[i][1]
    BY <1>1, <1>2, LenProperties DEF Ids
  <1>4. Ids(s) \in Seq(Jobs) /\ Len(Ids(s)) = Len(s) /\ \A i \in 1..Len(s) : Ids(s)[i] = s[i][1]
    BY <1>1, LenProperties DEF Ids
  <1>5. /\ Ids(w) # <<>> /\ Head(Ids(w)) = Ids(w)[1] /\ Tail(Ids(w)) \in Seq(Jobs)
        /\ Len(Tail(Ids(w))) = Len(s) /\ \A i \in 1..Len(s) : Tail(Ids(w))[i] = Ids(w)[i + 1]
    BY <1>2, <1>3, HeadTailProperties
  <1>6. Tail(Ids(w)) = Ids(s)
    <2>1. \A i \in 1..Len(s) : Tail(Ids(w))[i] = Ids(s)[i]
      BY <1>3, <1>4, <1>5
    <2> QED
      BY <1>4, <1>5, <2>1, SeqEqual
  <1> QED
    BY <1>3, <1>5, <1>6 DEF w

\* Without the pill, the FIFO holds objects only.
LEMMA QueuedObjects == ASSUME IInv, Pill PROVE Queued \in Seq(Objects)
  <1> DEFINE n == Len(pending)
  <1>1. /\ pending \in Seq(Objects \union {None}) /\ n \in Nat /\ DOMAIN pending = 1..n
        /\ \A i \in 1..n : pending[i] \in Objects \union {None}
    BY LenProperties, ElementOfSeq DEF IInv, TypeOK
  <1>2. \A i \in 1..n : pending[i] = None => i = n
    BY <1>1 DEF Pill
  <1> HIDE DEF n
  <1>3. CASE pending # <<>> /\ pending[n] = None
    <2>1. Queued = SubSeq(pending, 1, n - 1)
      BY <1>3 DEF Queued, n
    <2>2. \A i \in 1..(n - 1) : pending[i] \in Objects
      BY <1>1, <1>2
    <2> QED
      BY <1>1, <2>1, <2>2, SubSeqProperties
  <1>4. CASE ~(pending # <<>> /\ pending[n] = None)
    <2>1. Queued = pending
      BY <1>4 DEF Queued, n
    <2>2. \A i \in 1..n : pending[i] \in Objects
      BY <1>1, <1>2, <1>4
    <2>3. pending = SubSeq(pending, 1, n)
      BY <1>1, SubSeqFull DEF n
    <2> QED
      BY <1>1, <2>1, <2>2, <2>3, SubSeqProperties
  <1> QED
    BY <1>3, <1>4

\* A submission lengthens the waiting line by its object at the end.
LEMMA WaitingAppends ==
  ASSUME IInv, Pill, NEW j \in Jobs, Submit(j)
  PROVE  Waiting \in Seq(Objects) /\ \E o \in Objects : o[1] = j /\ Waiting' = Append(Waiting, o)
  <1> DEFINE o == <<j, jobs[j].made + 1>>
  <1>1. o \in Objects /\ o # None /\ o[1] = j /\ pending' = Append(pending, o) /\ ~closed /\ Taken' = Taken
    <2>1. jobs[j].made \in 0..MaxObjects /\ jobs[j].made < MaxObjects
      BY DEF Records, Submit, Queue, IInv, TypeOK
    <2> QED
      BY <2>1, NoneIsNoObject, JobQueueAssumption DEF JobQueueAssumption, Objects, Submit, Submittable, Queue, Taken
  <1> HIDE DEF o
  <1>2. pending \in Seq(Objects \union {None}) /\ \A i \in DOMAIN pending : pending[i] # None
    BY <1>1 DEF IInv, TypeOK, Pill
  <1>3. pending \in Seq(Objects)
    BY <1>2, LenProperties, ElementOfSeq
  <1>4. Queued = pending
    BY <1>2, <1>3, LenProperties, EmptySeq DEF Queued
  <1>5. pending' \in Seq(Objects) /\ Len(pending') = Len(pending) + 1 /\ pending'[Len(pending')] = o
    BY <1>1, <1>3, AppendProperties
  <1>6. Queued' = Append(Queued, o)
    BY <1>1, <1>4, <1>5 DEF Queued
  <1>7. CASE Taken = None
    BY <1>1, <1>3, <1>4, <1>6, <1>7 DEF Waiting
  <1>8. CASE Taken # None
    <2>1. Taken \in Objects
      BY <1>8 DEF IInv, TypeOK, Taken
    <2> DEFINE first == <<Taken>>
    <2>2. first \in Seq(Objects) /\ <<o>> \in Seq(Objects)
      BY <1>1, <2>1
    <2>3. Waiting = first \o pending /\ Waiting' = first \o Append(pending, o)
      BY <1>1, <1>4, <1>6, <1>8 DEF Waiting
    <2> HIDE DEF first
    <2>4. first \o Append(pending, o) = Append(first \o pending, o)
      <3>1. first \o pending \in Seq(Objects) /\ Append(pending, o) = pending \o <<o>>
        BY <1>1, <1>3, <2>2, ConcatProperties, AppendIsConcat
      <3>2. Append(first \o pending, o) = (first \o pending) \o <<o>>
        BY <1>1, <3>1, AppendIsConcat
      <3> QED
        BY <1>3, <2>2, <3>1, <3>2, ConcatAssociative
    <2> QED
      BY <1>1, <1>3, <2>2, <2>3, <2>4, ConcatProperties
  <1> QED
    BY <1>7, <1>8

\* The worker's taking an object, or the pill, changes no one's turn.
LEMMA WaitingTaken == ASSUME IInv, Pill, Get PROVE Waiting' = Waiting
  <1>1. /\ pending \in Seq(Objects \union {None}) /\ pending # <<>> /\ pending' = Tail(pending)
        /\ Taken = None /\ Taken' = Head(pending)
    BY DEF IInv, TypeOK, Get, Taken
  <1>2. /\ Len(pending) \in Nat \ {0} /\ DOMAIN pending = 1..Len(pending) /\ Head(pending) = pending[1]
        /\ pending' \in Seq(Objects \union {None}) /\ Len(pending') = Len(pending) - 1
        /\ \A i \in 1..Len(pending') : pending'[i] = pending[i + 1]
    BY <1>1, HeadTailProperties, LenProperties, EmptySeq
  <1>3. CASE Head(pending) = None
    <2>1. Len(pending) = 1
      BY <1>2, <1>3 DEF Pill
    <2>2. Queued = <<>>
      BY <1>1, <1>2, <1>3, <2>1, SubSeqEmpty DEF Queued
    <2>3. pending' = <<>>
      BY <1>2, <2>1, EmptySeq
    <2>4. Queued' = <<>>
      BY <2>3 DEF Queued
    <2> QED
      BY <1>1, <1>3, <2>2, <2>4 DEF Waiting
  <1>4. CASE Head(pending) # None
    <2> DEFINE first == <<Head(pending)>>
    <2>1. first \in Seq(Objects \union {None}) /\ Len(first) = 1 /\ first[1] = Head(pending)
      BY <1>1, <1>2
    <2>2. Waiting = Queued /\ Waiting' = first \o Queued'
      BY <1>1, <1>4 DEF Waiting
    <2> HIDE DEF first
    <2>3. CASE pending[Len(pending)] = None
      <3> DEFINE n == Len(pending)
      <3>0. n \in Nat /\ n > 1
        BY <1>2, <1>4, <2>3
      <3>1. n > 1 /\ pending' # <<>> /\ pending'[Len(pending')] = None
        <4>1. Len(pending') \in 1..Len(pending') /\ Len(pending') + 1 = n
          BY <1>2, <3>0
        <4>2. pending'[Len(pending')] = pending[n]
          BY <1>2, <4>1
        <4>3. pending' # <<>>
          BY <4>1
        <4> QED
          BY <2>3, <3>0, <4>2, <4>3
      <3>2. Queued = SubSeq(pending, 1, n - 1) /\ Queued' = SubSeq(pending', 1, n - 2)
        BY <1>1, <1>2, <2>3, <3>1 DEF Queued
      <3> HIDE DEF n
      <3>3. /\ Queued \in Seq(Objects \union {None}) /\ Len(Queued) = n - 1
            /\ \A i \in 1..(n - 1) : Queued[i] = pending[i]
        <4>1. \A i \in 1..(n - 1) : pending[i] \in Objects \union {None}
          BY <1>1, <3>0, ElementOfSeq DEF n
        <4> QED
          BY <3>0, <3>2, <4>1, SubSeqProperties
      <3>4. /\ Queued' \in Seq(Objects \union {None}) /\ Len(Queued') = n - 2
            /\ \A i \in 1..(n - 2) : Queued'[i] = pending'[i]
        <4>1. \A i \in 1..(n - 2) : pending'[i] \in Objects \union {None}
          BY <1>2, <3>0, ElementOfSeq DEF n
        <4>2. Len(SubSeq(pending', 1, n - 2)) = n - 2
          BY <3>0, <4>1, SubSeqProperties
        <4> QED
          BY <3>0, <3>2, <4>1, <4>2, SubSeqProperties
      <3>5. /\ first \o Queued' \in Seq(Objects \union {None}) /\ Len(first \o Queued') = n - 1
            /\ \A i \in 1..(n - 1) : (first \o Queued')[i] = IF i = 1 THEN pending[1] ELSE Queued'[i - 1]
        <4>1. /\ first \o Queued' \in Seq(Objects \union {None}) /\ Len(first \o Queued') = Len(first) + Len(Queued')
              /\ \A i \in 1..(Len(first) + Len(Queued')) :
                   (first \o Queued')[i] = IF i <= Len(first) THEN first[i] ELSE Queued'[i - Len(first)]
          BY <2>1, <3>4, ConcatProperties
        <4> QED
          BY <1>2, <2>1, <3>0, <3>4, <4>1
      <3>6. \A i \in 1..(n - 1) : (first \o Queued')[i] = Queued[i]
        <4> SUFFICES ASSUME NEW i \in 1..(n - 1), i # 1 PROVE Queued'[i - 1] = pending[i]
          BY <3>0, <3>3, <3>5
        <4>1. i - 1 \in 1..(n - 2) /\ i - 1 \in 1..Len(pending') /\ (i - 1) + 1 = i
          BY <1>2, <3>0 DEF n
        <4> QED
          BY <1>2, <3>4, <4>1
      <3> QED
        BY <2>2, <3>3, <3>5, <3>6, SeqEqual
    <2>4. CASE pending[Len(pending)] # None
      <3>1. Queued = pending
        BY <2>4 DEF Queued
      <3>2. Queued' = pending'
        BY <1>2, <2>4, EmptySeq DEF Queued
      <3>3. pending = first \o Tail(pending)
        <4>1. /\ first \o Tail(pending) \in Seq(Objects \union {None})
              /\ Len(first \o Tail(pending)) = Len(first) + Len(Tail(pending))
              /\ \A i \in 1..(Len(first) + Len(Tail(pending))) :
                   (first \o Tail(pending))[i] = IF i <= Len(first) THEN first[i] ELSE Tail(pending)[i - Len(first)]
          BY <1>1, <1>2, <2>1, ConcatProperties
        <4>2. Len(first \o Tail(pending)) = Len(pending)
          BY <1>1, <1>2, <2>1, <4>1
        <4>3. \A i \in 1..Len(pending) : (first \o Tail(pending))[i] = pending[i]
          <5> SUFFICES ASSUME NEW i \in 1..Len(pending) PROVE (first \o Tail(pending))[i] = pending[i]
            OBVIOUS
          <5>1. CASE i = 1
            BY <1>2, <2>1, <4>1, <4>2, <5>1
          <5>2. CASE i # 1
            <6>1. i - 1 \in 1..Len(pending') /\ (i - 1) + 1 = i
              BY <1>2, <5>2
            <6> QED
              BY <1>1, <1>2, <2>1, <4>1, <4>2, <5>2, <6>1
          <5> QED
            BY <5>1, <5>2
        <4> QED
          BY <1>1, <4>1, <4>2, <4>3, SeqEqual
      <3> QED
        BY <1>1, <2>2, <3>1, <3>2, <3>3
    <2> QED
      BY <2>3, <2>4
  <1> QED
    BY <1>3, <1>4

\* Only the object at the front of the line begins.
LEMMA WaitingBegun ==
  ASSUME IInv, Pill, Start
  PROVE  held \in Objects /\ Waiting = <<held>> \o Waiting' /\ Waiting' \in Seq(Objects)
  <1>1. held \in Objects /\ Taken = held /\ Taken' = None /\ held # None /\ pending' = pending
    BY NoneIsNoObject DEF IInv, TypeOK, Holding, Start, Taken
  <1>2. Waiting' = Queued /\ Waiting = <<held>> \o Queued
    BY <1>1 DEF Waiting, Queued
  <1>3. Queued \in Seq(Objects)
    BY QueuedObjects
  <1> QED
    BY <1>1, <1>2, <1>3

\* Neither does the pill.
LEMMA WaitingClosed == ASSUME IInv, Pill, NEW c \in Closers, PutNone(c) PROVE Waiting' = Waiting
  <1>1. /\ pending \in Seq(Objects \union {None}) /\ pending' = Append(pending, None) /\ Taken' = Taken
        /\ \A i \in DOMAIN pending : pending[i] # None
    BY DEF IInv, TypeOK, PutNone, Taken, Pill, Lined
  <1> DEFINE n == Len(pending)
  <1>2. /\ n \in Nat /\ DOMAIN pending = 1..n /\ pending' \in Seq(Objects \union {None}) /\ Len(pending') = n + 1
        /\ pending'[n + 1] = None /\ \A i \in 1..n : pending'[i] = pending[i]
    BY <1>1, AppendProperties, LenProperties
  <1>3. Queued = pending
    <2>1. pending # <<>> => n \in DOMAIN pending
      BY <1>1, <1>2, EmptySeq
    <2> QED
      BY <1>1, <2>1 DEF Queued
  <1> HIDE DEF n
  <1>4. Queued' = SubSeq(pending', 1, n)
    <2>1. pending' # <<>> /\ pending'[Len(pending')] = None /\ Len(pending') - 1 = n
      BY <1>2, EmptySeq
    <2> QED
      BY <2>1 DEF Queued
  <1>5. SubSeq(pending', 1, n) = pending
    <2>1. \A i \in 1..n : pending'[i] \in Objects \union {None}
      BY <1>1, <1>2, ElementOfSeq DEF n
    <2>2. /\ SubSeq(pending', 1, n) \in Seq(Objects \union {None}) /\ Len(SubSeq(pending', 1, n)) = n
          /\ \A i \in 1..n : SubSeq(pending', 1, n)[i] = pending'[i]
      <3>1. /\ SubSeq(pending', 1, n) \in Seq(Objects \union {None})
            /\ Len(SubSeq(pending', 1, n)) = IF 1 <= n THEN n - 1 + 1 ELSE 0
            /\ \A i \in 1..(n - 1 + 1) : SubSeq(pending', 1, n)[i] = pending'[1 + i - 1]
        BY <1>2, <2>1, SubSeqProperties
      <3> QED
        BY <1>2, <3>1
    <2> QED
      BY <1>1, <1>2, <2>2, SeqEqual DEF n
  <1> QED
    BY <1>1, <1>3, <1>4, <1>5 DEF Waiting

\* The board's line is that of the waiting objects' ids.
LEMMA BoardIs ==
  /\ Board!vars = <<[j \in Jobs |-> jobs[j].state], Ids(Waiting), closed, \E c \in Closers : closing[c] = "joined">>
  /\ Board!Running = {j \in Jobs : jobs[j].state = "running"}
  /\ Board!Pending = Unfinished
  BY DEF Board!vars, Board!Running, Board!Pending, Unfinished, Ids

\* What a step leaves alone, as the board sees it.
LEMMA BoardUnchanged ==
  ASSUME \A j \in Jobs : jobs'[j].state = jobs[j].state, Waiting' = Waiting, closed' = closed,
         (\E c \in Closers : closing'[c] = "joined") = (\E c \in Closers : closing[c] = "joined")
  PROVE  UNCHANGED Board!vars
  <1>1. [j \in Jobs |-> jobs[j].state]' = [j \in Jobs |-> jobs[j].state]
    OBVIOUS
  <1>2. [i \in DOMAIN Waiting |-> Waiting[i][1]]' = [i \in DOMAIN Waiting |-> Waiting[i][1]]
    OBVIOUS
  <1> QED
    BY <1>1, <1>2 DEF Board!vars

\* JobQueue implements JobBoard: with its threads between their critical sections, its FIFO with a pill
\* and its object taken and not begun, clients see a board (submit, _work, evict and close).
THEOREM BoardKept == Spec => BoardSpec
  <1>1. Init => Pill /\ Board!Init
    <2> SUFFICES ASSUME Init PROVE Pill /\ Board!Init
      OBVIOUS
    <2>1. Pill
      BY DEF Init, Pill
    <2>2. Taken = None /\ pending = <<>>
      BY DEF Init, Taken
    <2>3. Waiting = <<>>
      BY <2>2 DEF Waiting, Queued
    <2> QED
      BY <2>1, <2>3 DEF Init, Board!Init
  <1>2. IInv /\ Pill /\ [Next]_vars => [Board!Next]_(Board!vars)
    <2> SUFFICES ASSUME IInv, Pill, [Next]_vars PROVE [Board!Next]_(Board!vars)
      OBVIOUS
    <2>0. \A j \in Jobs : jobs[j] \in Records
      BY DEF IInv, TypeOK
    <2>1. ASSUME NEW j \in Jobs, Submit(j) PROVE Board!Accept(j)
      <3>1. PICK o \in Objects : o[1] = j /\ Waiting' = Append(Waiting, o)
        BY <2>1, WaitingAppends
      <3>2. Ids(Waiting)' = Append(Ids(Waiting), j)
        <4>1. Waiting \in Seq(Objects)
          BY <2>1, WaitingAppends
        <4>2. Ids(Append(Waiting, o)) = Append(Ids(Waiting), j)
          BY <3>1, <4>1, IdsAppend
        <4> QED
          BY <3>1, <4>2 DEF Ids
      <3>3. /\ ~closed /\ jobs[j].state \in {"absent", "failed", "evicted"} /\ Cardinality(Unfinished) < MaxPending
            /\ closed' = closed /\ closing' = closing
        BY <2>1 DEF Submit, Submittable, Queue
      <3>4. \A k \in Jobs : jobs'[k].state = IF k = j THEN "queued" ELSE jobs[k].state
        BY <2>1 DEF Submit, Queue, IInv, TypeOK
      <3>5. [k \in Jobs |-> jobs[k].state]' = [[k \in Jobs |-> jobs[k].state] EXCEPT ![j] = "queued"]
        BY <3>4
      <3>6. Board!Cardinality(Board!Pending) < MaxPending
        <4>1. Board!Cardinality(Unfinished) = Cardinality(Unfinished)
          BY DEF Board!Cardinality, Cardinality
        <4> QED
          BY <3>3, <4>1, BoardIs
      <3>7. [k \in Jobs |-> jobs[k].state][j] \in {"absent", "failed", "evicted"}
        BY <3>3
      <3>8. (\E c \in Closers : closing[c] = "joined")' = (\E c \in Closers : closing[c] = "joined")
        BY <3>3
      <3> QED
        BY <3>2, <3>3, <3>5, <3>6, <3>7, <3>8 DEF Board!Accept, Ids
    <2>2. ASSUME NEW j \in Jobs, Evict(j) PROVE Board!Evict(j)
      <3>1. jobs[j].state = "done" /\ pending' = pending /\ Taken' = Taken /\ closed' = closed /\ closing' = closing
        BY <2>2 DEF Evict, Taken
      <3>2. \A k \in Jobs : jobs'[k].state = IF k = j THEN "evicted" ELSE jobs[k].state
        BY <2>0, <2>2 DEF Evict, IInv, TypeOK, Records
      <3>3. [k \in Jobs |-> jobs[k].state]' = [[k \in Jobs |-> jobs[k].state] EXCEPT ![j] = "evicted"]
        BY <3>2
      <3>4. Waiting' = Waiting
        BY <3>1 DEF Waiting, Queued
      <3> QED
        BY <3>1, <3>3, <3>4 DEF Board!Evict
    <2>3. CASE Get
      BY <2>3, WaitingTaken, BoardUnchanged DEF Get
    <2>4. ASSUME Start, ~closed PROVE Board!Start
      <3>1. held \in Objects /\ Waiting = <<held>> \o Waiting' /\ Waiting' \in Seq(Objects)
        BY <2>4, WaitingBegun
      <3>2. Ids(Waiting) # <<>> /\ Head(Ids(Waiting)) = held[1] /\ Ids(Waiting)' = Tail(Ids(Waiting))
        <4> DEFINE w == Waiting'
        <4>1. Ids(<<held>> \o w) # <<>> /\ Head(Ids(<<held>> \o w)) = held[1] /\ Tail(Ids(<<held>> \o w)) = Ids(w)
          <5>1. w \in Seq(Objects)
            BY <3>1
          <5> HIDE DEF w
          <5> QED
            BY <3>1, <5>1, IdsOfFirst
        <4>2. Ids(Waiting)' = Ids(w)
          BY DEF Ids
        <4> QED
          BY <3>1, <4>1, <4>2
      <3>3. held[1] \in Jobs /\ closed' = closed /\ closing' = closing /\ pc = "got"
        BY <2>4, <3>1 DEF Start, Objects
      <3>4. \A k \in Jobs : jobs'[k].state = IF k = held[1] THEN "running" ELSE jobs[k].state
        <4>1. jobs' = [jobs EXCEPT ![held[1]] = [jobs[held[1]] EXCEPT !.state = "running", !.phase = None, !.error = "none"]]
          BY <2>4, <3>3 DEF Start, IInv, TypeOK
        <4>2. [jobs[held[1]] EXCEPT !.state = "running", !.phase = None, !.error = "none"].state = "running"
          BY <2>0, <3>3 DEF Records
        <4> QED
          BY <3>3, <4>1, <4>2 DEF IInv, TypeOK
      <3>5. [k \in Jobs |-> jobs[k].state]' = [[k \in Jobs |-> jobs[k].state] EXCEPT ![held[1]] = "running"]
        BY <3>3, <3>4
      <3>6. Board!Running = {}
        BY <3>3, BoardIs DEF IInv, NoJobLost
      <3> QED
        BY <2>4, <3>2, <3>3, <3>5, <3>6 DEF Board!Start, Ids
    <2>5. CASE Abandon
      <3>1. pending' = pending /\ Taken' = Taken
        BY <2>5 DEF Abandon, Taken
      <3>2. Waiting' = Waiting
        BY <3>1 DEF Waiting, Queued
      <3> QED
        BY <2>5, <3>2, BoardUnchanged DEF Abandon
    <2>6. ASSUME NEW p \in Phases, Report(p) PROVE UNCHANGED Board!vars
      <3>1. current[1] \in Jobs
        BY <2>6, NoneIsNoObject DEF IInv, TypeOK, Report, Objects
      <3>2. \A j \in Jobs : jobs'[j].state = jobs[j].state
        <4>1. jobs' = jobs \/ jobs' = [jobs EXCEPT ![current[1]] = [jobs[current[1]] EXCEPT !.phase = p]]
          BY <2>6, <3>1 DEF Report, IInv, TypeOK
        <4>2. [jobs[current[1]] EXCEPT !.phase = p].state = jobs[current[1]].state
          BY <2>0, <3>1 DEF Records
        <4> QED
          BY <3>1, <4>1, <4>2 DEF IInv, TypeOK
      <3>3. pending' = pending /\ Taken' = Taken /\ closed' = closed /\ closing' = closing
        BY <2>6 DEF Report, Taken
      <3>4. Waiting' = Waiting
        BY <3>3 DEF Waiting, Queued
      <3> QED
        BY <3>2, <3>3, <3>4, BoardUnchanged
    <2>7. ASSUME NEW o \in Outcomes, Return(o) PROVE UNCHANGED Board!vars
      <3>1. jobs' = jobs /\ pending' = pending /\ Taken' = Taken /\ closed' = closed /\ closing' = closing
        BY <2>7 DEF Return, Taken
      <3>2. Waiting' = Waiting
        BY <3>1 DEF Waiting, Queued
      <3> QED
        BY <3>1, <3>2, BoardUnchanged
    <2>8. ASSUME Finish PROVE \E j \in Jobs : Board!Settle(j)
      <3> DEFINE j == held[1]
                 end == IF outcome = "done" THEN "done" ELSE "failed"
      <3>1. j \in Jobs /\ jobs[j].state = "running" /\ pc = "run"
        BY <2>8, ObjectIsNotNone DEF Finish, IInv, NoJobLost
      <3>2. pending' = pending /\ Taken' = Taken /\ closed' = closed /\ closing' = closing
        BY <2>8 DEF Finish, Taken
      <3>3. Waiting' = Waiting
        BY <3>2 DEF Waiting, Queued
      <3>4. Settled(jobs[j], held).state = end
        BY <2>0, <3>1 DEF Settled, Records
      <3>5. \A k \in Jobs : jobs'[k].state = IF k = j THEN end ELSE jobs[k].state
        <4>1. jobs' = [jobs EXCEPT ![j] = Settled(jobs[j], held)]
          BY <2>8 DEF Finish
        <4> QED
          BY <3>1, <3>4, <4>1 DEF IInv, TypeOK
      <3> HIDE DEF j
      <3>6. [k \in Jobs |-> jobs[k].state]' = [[k \in Jobs |-> jobs[k].state] EXCEPT ![j] = end]
        BY <3>1, <3>5
      <3>7. end \in {"done", "failed"}
        OBVIOUS
      <3> HIDE DEF end
      <3> QED
        BY <3>1, <3>2, <3>3, <3>6, <3>7 DEF Board!Settle
    <2>9. ASSUME NEW c \in Closers, Close(c) PROVE Board!Close
      <3>1. /\ jobs' = jobs /\ pending' = pending /\ Taken' = Taken /\ closed' = TRUE
            /\ \A d \in Closers : closing'[d] = "joined" <=> closing[d] = "joined"
        BY <2>9 DEF Close, Taken, IInv, TypeOK
      <3>2. Waiting' = Waiting
        BY <3>1 DEF Waiting, Queued
      <3> QED
        BY <3>1, <3>2 DEF Board!Close
    <2>10. ASSUME NEW c \in Closers, PutNone(c) PROVE UNCHANGED Board!vars
      <3>1. /\ jobs' = jobs /\ closed' = closed
            /\ \A d \in Closers : closing'[d] = "joined" <=> closing[d] = "joined"
        BY <2>10 DEF PutNone, IInv, TypeOK
      <3> QED
        BY <2>10, <3>1, WaitingClosed, BoardUnchanged
    <2>11. ASSUME NEW c \in Closers, Join(c) PROVE Board!Quiesce
      <3>1. /\ jobs' = jobs /\ pending' = pending /\ Taken' = Taken /\ closed' = closed
            /\ closing'[c] = "joined" /\ closing[c] = "join" /\ pc = "stopped"
        BY <2>11 DEF Join, Taken, IInv, TypeOK
      <3>2. Waiting' = Waiting /\ closed
        BY <3>1 DEF Waiting, Queued, Pill
      <3>3. Board!Running = {}
        BY <3>1, BoardIs DEF IInv, NoJobLost
      <3> QED
        BY <3>1, <3>2, <3>3 DEF Board!Quiesce
    <2>12. CASE UNCHANGED vars
      <3>1. jobs' = jobs /\ pending' = pending /\ Taken' = Taken /\ closed' = closed /\ closing' = closing
        BY <2>12 DEF vars, Taken
      <3>2. Waiting' = Waiting
        BY <3>1 DEF Waiting, Queued
      <3> QED
        BY <3>1, <3>2, BoardUnchanged
    <2> QED
      BY <2>1, <2>2, <2>3, <2>4, <2>5, <2>6, <2>7, <2>8, <2>9, <2>10, <2>11, <2>12 DEF Next, Begin, Board!Next
  <1>3. IInv /\ Pill /\ [Next]_vars => Pill'
    BY PillStep
  <1> QED
    BY Invariance, <1>1, <1>2, <1>3, PTL DEF Spec, BoardSpec, Board!Spec
=============================================================================
