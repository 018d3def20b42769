------------------------ MODULE NetworkReplayProofs ------------------------
(***************************************************************************)
(* What holds of the network replay for every network, window, queue and   *)
(* fault.  Of its control: the account is accepted before anything is      *)
(* published (Checked), and the output is taken once, by the call that     *)
(* returns (Claimed).  Of its snapshots: the loop over the boundaries,     *)
(* turn by turn, covers the window with snapshots that are right (Scanned, *)
(* Covers), so that the table the simulator is given gates the ends        *)
(* (GInv), whatever routes were saved.  Of its account: the history of     *)
(* each device (Device, IsDevice) agrees with the queue and the sending of *)
(* the simulator (Linked), each packet's hops follow one another (Traced), *)
(* and both hold at every event (Lives), so that what is recorded when the *)
(* simulator stops is what the parser accepts (AInv).                      *)
(***************************************************************************)
EXTENDS NetworkReplay, TLAPS, SequenceTheorems, FiniteSetTheorems, WellFoundedInduction

TypeOK ==
  /\ replay \in Replays
  /\ phase \in {"prepare", "simulate", "parse", "publish", "returned", "raised"}
  /\ target \in {"none", "rival", "evidence"}
  /\ temporary \in BOOLEAN

\* The account published is one the parser accepted, of a backend that answered for itself.
Checked ==
  /\ phase \in {"simulate", "parse", "publish", "returned"} => replay.fault # "handshake"
  /\ phase \in {"publish", "returned"} => ~Refused

\* The output and the temporary directory.
Claimed ==
  /\ target = "evidence" <=> phase = "returned"
  /\ phase \in {"raised", "returned"} => ~temporary

IInv == TypeOK /\ Checked /\ Claimed

\* The parser's verdict depends on the snapshots, the replay and the account alone.
LEMMA VerdictStands ==
  ASSUME UNCHANGED <<replay, rows, packets, queue>>
  PROVE  (Accepts' <=> Accepts) /\ (Refused' <=> Refused)
  <1>1. /\ End' = End /\ OfferTimes' = OfferTimes
        /\ \A t : RowAt(t)' = RowAt(t)
    BY DEF End, OfferTimes, FlowTimes, FlowPhase, RowAt
  <1>2. \A e : Outages(e)' = Outages(e)
    BY DEF Outages
  <1>3. \A e, start, stop : Overlaps(e, start, stop)' <=> Overlaps(e, start, stop)
    BY <1>2 DEF Overlaps
  <1>4. IsPrepared' <=> IsPrepared
    BY <1>1 DEF IsPrepared
  <1>5. \A n, p : IsPacket(n, p)' <=> IsPacket(n, p)
    BY <1>1 DEF IsPacket
  <1>6. \A p, i : IsHop(p, i)' <=> IsHop(p, i)
    <2> TAKE p, i
    <2> DEFINE hop == p.hops[i]
               before == Before(p, i)
               e == Edge(hop.from, hop.to)
               state == RowAt(hop.tx).edges[e]
               seen == hop.rx - hop.tx - state.delay
    <2>1. before' = before /\ e' = e /\ state' = state /\ seen' = seen
      BY <1>1
    <2>2. /\ Overlaps(e, before.time, hop.tx)' <=> Overlaps(e, before.time, hop.tx)
          /\ Overlaps(e, hop.tx, hop.tx + seen)' <=> Overlaps(e, hop.tx, hop.tx + seen)
          /\ Overlaps(e, hop.rx - seen, hop.rx)' <=> Overlaps(e, hop.rx - seen, hop.rx)
      BY <1>3, <2>1
    <2>3. NextNode(RowAt(before.time), hop.from, p.aim)' = NextNode(RowAt(before.time), hop.from, p.aim)
      BY <1>1
    <2> QED
      BY <1>1, <2>1, <2>2, <2>3, Zenon DEF IsHop
  <1>7. \A p : EndsRight(p)' <=> EndsRight(p)
    BY <1>1, <1>2, <1>3, ZenonT(60) DEF EndsRight
  <1>8. \A link : Served(link)' = Served(link)
    BY DEF Served
  <1>9. \A link : Left(link)' = Left(link)
    BY <1>1, <1>2, ZenonT(60) DEF Left
  <1>a. \A served, left : WithinCapacity(served, left)' <=> WithinCapacity(served, left)
    BY DEF WithinCapacity
  <1>10. \A link : IsFifo(link)' <=> IsFifo(link)
    BY <1>8, <1>9, <1>a DEF IsFifo
  <1>11. Accepts' <=> Accepts
    BY <1>1, <1>4, <1>5, <1>6, <1>7, <1>10 DEF Accepts
  <1> QED
    BY <1>11 DEF Refused

LEMMA InitIInv == Init => IInv
  BY DEF Init, IInv, TypeOK, Checked, Claimed

LEMMA StepTypeOK == ASSUME TypeOK, [Next]_vars PROVE TypeOK'
  <1> USE DEF TypeOK, Raise, Proceed
  <1>1. CASE Prepare
    BY <1>1 DEF Prepare
  <1>2. CASE Take \/ Parse \/ Publish
    BY <1>2 DEF Take, Parse, Publish
  <1>3. CASE Update \/ Advance
    BY <1>3 DEF Update, Advance, Dynamic
  <1>4. CASE Offer
    BY <1>4 DEF Offer, Send, Transmit
  <1>5. ASSUME NEW link \in DOMAIN sending, Complete(link) PROVE TypeOK'
    BY <1>5 DEF Complete, Transmit, Dynamic
  <1>6. ASSUME NEW n \in DOMAIN packets, Arrive(n) PROVE TypeOK'
    BY <1>6 DEF Arrive, Send, Transmit, Dynamic
  <1>7. CASE UNCHANGED vars
    BY <1>7 DEF vars
  <1> QED
    BY <1>1, <1>2, <1>3, <1>4, <1>5, <1>6, <1>7 DEF Next

\* Only Prepare, Parse and Publish pass a gate; the simulator leaves all but the phase alone.
LEMMA StepControl == ASSUME IInv, [Next]_vars PROVE Checked' /\ Claimed'
  <1> USE DEF IInv, TypeOK, Checked, Claimed, Raise, Proceed
  <1>1. CASE Prepare
    BY <1>1 DEF Prepare
  <1>2. CASE Take
    BY <1>2, VerdictStands DEF Take, simulator
  <1>3. CASE Parse
    BY <1>3, VerdictStands DEF Parse, simulator
  <1>4. CASE Publish
    BY <1>4, VerdictStands DEF Publish, simulator
  <1>5. CASE Update \/ Advance
    BY <1>5 DEF Update, Advance, Dynamic
  <1>6. CASE Offer
    BY <1>6 DEF Offer, Send, Transmit
  <1>7. ASSUME NEW link \in DOMAIN sending, Complete(link) PROVE Checked' /\ Claimed'
    BY <1>7 DEF Complete, Transmit, Dynamic
  <1>8. ASSUME NEW n \in DOMAIN packets, Arrive(n) PROVE Checked' /\ Claimed'
    BY <1>8 DEF Arrive, Send, Transmit, Dynamic
  <1>9. CASE UNCHANGED vars
    BY <1>9, VerdictStands DEF vars, simulator
  <1> QED
    BY <1>1, <1>2, <1>3, <1>4, <1>5, <1>6, <1>7, <1>8, <1>9 DEF Next

THEOREM Invariance == Spec => []IInv
  <1>1. IInv /\ [Next]_vars => IInv'
    BY StepTypeOK, StepControl DEF IInv
  <1> QED
    BY InitIInv, <1>1, PTL DEF Spec

\* Evidence is published only of an accepted account of a backend that answered for itself, over nobody's
\* files, and a call that ends leaves no temporary directory (_execute_network_replay).
THEOREM EvidenceStands == Spec => []EvidenceIsValidated
  <1>1. IInv => EvidenceIsValidated
    <2> SUFFICES ASSUME IInv PROVE EvidenceIsValidated
      OBVIOUS
    <2>1. replay.fault \in Faults
      BY NetworkReplayAssumption DEF NetworkReplayAssumption, IInv, TypeOK
    <2>2. target = "evidence" => replay.fault \in {"none", "rival"} /\ Accepts
      BY <2>1 DEF IInv, Checked, Claimed, Refused, Faults
    <2> QED
      BY <2>2 DEF IInv, Claimed, EvidenceIsValidated
  <1> QED
    BY Invariance, <1>1, PTL

----------------------------------------------------------------------------
(* Greatest elements, and the n-th of a set.                               *)

\* A set of naturals has a least element: the library's well-founded induction, without a predicate as a parameter.
LEMMA LeastNatural ==
  ASSUME NEW T, \A n \in T : n \in Nat, T # {}
  PROVE  \E n \in T : \A m \in T : n <= m
  <1>1. IsWellFoundedOn(OpToRel(<, Nat), Nat) /\ T \subseteq Nat /\ T # {}
    BY NatLessThanWellFounded, Zenon
  <1>2. \E n \in T : \A m \in T : ~(<<m, n>> \in OpToRel(<, Nat))
    BY <1>1, WFMin, Zenon
  <1>3. \E n \in T : \A m \in T : ~(m < n)
    BY <1>2 DEF OpToRel
  <1> QED
    BY <1>3

\* A set of integers bounded above has a greatest element.
LEMMA MaxIs ==
  ASSUME NEW S, \A x \in S : x \in Int, NEW b \in Int, \A x \in S : x <= b, S # {}
  PROVE  Max(S) \in S /\ \A y \in S : y <= Max(S)
  <1> DEFINE T == {b - x : x \in S}
  <1>1. (\A n \in T : n \in Nat) /\ T # {}
    OBVIOUS
  <1>2. PICK n \in T : \A m \in T : n <= m
    <2> HIDE DEF T
    <2> QED
      BY <1>1, LeastNatural
  <1>3. PICK y \in S : n = b - y
    BY <1>2
  <1>4. \A z \in S : n <= b - z
    BY <1>2
  <1>5. \A z \in S : z <= y
    <2> HIDE DEF T
    <2> QED
      BY <1>3, <1>4
  <1> QED
    BY <1>3, <1>5 DEF Max

\* An element that none exceeds is the greatest.
LEMMA MaxOf ==
  ASSUME NEW S, \A x \in S : x \in Int, NEW g \in S, \A x \in S : x <= g
  PROVE  Max(S) = g
  <1>1. g \in Int /\ S # {}
    OBVIOUS
  <1>2. Max(S) \in S /\ \A x \in S : x <= Max(S)
    BY <1>1, MaxIs
  <1>3. PICK h \in Int : h = Max(S) /\ h <= g /\ g <= h
    BY <1>2
  <1> QED
    BY <1>1, <1>3

\* How many elements of a set are below one: the rows before a row.
Below(S, t) == Cardinality({u \in S : u < t})

\* The elements of a finite set of times are numbered in their order.
LEMMA NthIs ==
  ASSUME NEW S, IsFiniteSet(S), \A x \in S : x \in Nat
  PROVE  /\ Cardinality(S) \in Nat
         /\ \A t \in S : Below(S, t) \in 0..(Cardinality(S) - 1)
         /\ \A t, u \in S : t < u => Below(S, t) < Below(S, u)
         /\ \A n \in 1..Cardinality(S) : \E t \in S : Below(S, t) = n - 1
  <1> DEFINE c == Cardinality(S)
             B(t) == {u \in S : u < t}
  <1>1. c \in Nat
    BY FS_CardinalityType
  <1>2. ASSUME NEW t PROVE IsFiniteSet(B(t)) /\ Below(S, t) = Cardinality(B(t)) /\ Below(S, t) \in Nat
    <2>1. IsFiniteSet(B(t))
      BY FS_Subset
    <2> QED
      BY <2>1, FS_CardinalityType DEF Below
  <1>3. ASSUME NEW t \in S PROVE Below(S, t) \in 0..(c - 1)
    <2>1. B(t) \in SUBSET S /\ t \notin B(t) /\ t \in S
      OBVIOUS
    <2> HIDE DEF B
    <2>2. Cardinality(B(t)) <= c /\ Cardinality(B(t)) # c
      BY <2>1, FS_Subset
    <2> QED
      BY <1>1, <1>2, <2>2
  <1>4. ASSUME NEW t \in S, NEW u \in S, t < u PROVE Below(S, t) < Below(S, u)
    <2>1. B(t) \in SUBSET B(u) /\ t \in B(u) /\ t \notin B(t)
      BY <1>4
    <2> HIDE DEF B
    <2>2. Cardinality(B(t)) <= Cardinality(B(u)) /\ Cardinality(B(t)) # Cardinality(B(u))
      BY <1>2, <2>1, FS_Subset
    <2> QED
      BY <1>2, <2>2
  <1>5. \A n \in 1..c : \E t \in S : Below(S, t) = n - 1
    <2> DEFINE f == [t \in S |-> Below(S, t)]
    <2>1. f \in [S -> 0..(c - 1)]
      BY <1>3
    <2>2. \A t, u \in S : f[t] = f[u] => t = u
      <3> SUFFICES ASSUME NEW t \in S, NEW u \in S, f[t] = f[u], t # u PROVE FALSE
        OBVIOUS
      <3>1. t < u \/ u < t
        OBVIOUS
      <3>2. Below(S, t) = Below(S, u) /\ Below(S, t) \in Nat
        BY <1>2
      <3> QED
        BY <1>4, <3>1, <3>2
    <2>3. f \in Injection(S, 0..(c - 1))
      <3> HIDE DEF f, c
      <3>1. DOMAIN f = S
        BY <2>1
      <3>2. IsInjective(f)
        BY <2>2, <3>1 DEF IsInjective
      <3> QED
        BY <2>1, <3>2 DEF Injection
    <2>4. IsFiniteSet(0..(c - 1)) /\ Cardinality(0..(c - 1)) = c
      BY <1>1, FS_Interval, SMTT(30)
    <2>5. f \in Surjection(S, 0..(c - 1))
      <3> HIDE DEF f
      <3> QED
        BY <2>3, <2>4, FS_Injection
    <2>6. \A m \in 0..(c - 1) : \E t \in S : f[t] = m
      <3> HIDE DEF f
      <3> QED
        BY <2>5 DEF Surjection
    <2> QED
      <3> SUFFICES ASSUME NEW n \in 1..c PROVE \E t \in S : Below(S, t) = n - 1
        OBVIOUS
      <3>1. n - 1 \in 0..(c - 1)
        BY <1>1
      <3> QED
        BY <2>6, <3>1
  <1> QED
    BY <1>1, <1>3, <1>4, <1>5


\* The elements of a finite set of times, in their order.
LEMMA AscendingIs ==
  ASSUME NEW S, IsFiniteSet(S), \A x \in S : x \in Nat
  PROVE  /\ Len(Ascending(S)) = Cardinality(S) /\ Cardinality(S) \in Nat
         /\ \A n \in 1..Cardinality(S) : Ascending(S)[n] \in S
         /\ \A m, n \in 1..Cardinality(S) : m < n => Ascending(S)[m] < Ascending(S)[n]
         /\ \A t \in S : \E n \in 1..Cardinality(S) : Ascending(S)[n] = t
  <1> DEFINE c == Cardinality(S)
             A == Ascending(S)
  <1>1. /\ c \in Nat
        /\ \A t \in S : Below(S, t) \in 0..(c - 1)
        /\ \A t, u \in S : t < u => Below(S, t) < Below(S, u)
        /\ \A n \in 1..c : \E t \in S : Below(S, t) = n - 1
    BY NthIs
  <1>2. A = [n \in 1..c |-> CHOOSE t \in S : Below(S, t) = n - 1]
    BY DEF Ascending, Below
  <1>3. \A n \in 1..c : A[n] \in S /\ Below(S, A[n]) = n - 1
    <2> HIDE DEF c, A
    <2> TAKE n \in 1..c
    <2>1. A[n] = CHOOSE t \in S : Below(S, t) = n - 1
      BY <1>2
    <2>2. \E t \in S : Below(S, t) = n - 1
      BY <1>1
    <2> QED
      BY <2>1, <2>2
  <1>4. Len(A) = c
    <2> HIDE DEF c, A
    <2>1. A \in [1..c -> S]
      BY <1>2, <1>3
    <2>2. A \in Seq(S)
      BY <1>1, <2>1, IsASeq
    <2> QED
      BY <1>1, <2>1, <2>2, LenProperties
  <1>5. ASSUME NEW m \in 1..c, NEW n \in 1..c, m < n PROVE A[m] < A[n]
    <2> HIDE DEF c, A
    <2>1. A[m] \in S /\ A[n] \in S /\ Below(S, A[m]) = m - 1 /\ Below(S, A[n]) = n - 1
      BY <1>3
    <2>2. A[m] \in Nat /\ A[n] \in Nat
      BY <2>1
    <2>3. ~(A[n] < A[m])
      BY <1>1, <1>5, <2>1
    <2>4. A[m] # A[n]
      BY <1>1, <1>5, <2>1
    <2> QED
      BY <2>2, <2>3, <2>4
  <1>6. ASSUME NEW t \in S PROVE \E n \in 1..c : A[n] = t
    <2> HIDE DEF c, A
    <2> DEFINE n == Below(S, t) + 1
    <2>1. n \in 1..c /\ Below(S, t) \in 0..(c - 1)
      BY <1>1
    <2>2. A[n] \in S /\ Below(S, A[n]) = Below(S, t)
      BY <1>3, <2>1
    <2>3. A[n] \in Nat /\ t \in Nat
      BY <2>2
    <2>4. ~(A[n] < t) /\ ~(t < A[n])
      BY <1>1, <2>1, <2>2
    <2> HIDE DEF n
    <2> QED
      BY <2>1, <2>3, <2>4
  <1> QED
    BY <1>1, <1>3, <1>4, <1>5, <1>6

----------------------------------------------------------------------------
(* The snapshots.                                                          *)

\* The replay and the routes the run is of.
Chosen == holding \in Holdings /\ replay \in Replays

\* The pairs of endpoints held at two times are the same.
Same(t, u) == HeldAt(u).path # <<>> /\ Endpoints(HeldAt(u).path) = Endpoints(HeldAt(t).path)

\* What the gates say of a time.
StateAt(t) ==
  IF HeldAt(t).path = <<>> THEN "disconnected"
  ELSE IF t >= replay.acquisition /\ \A u \in (t - replay.acquisition)..t : Same(t, u) THEN "ready" ELSE "acquiring"

Frames == {holding[h] : h \in DOMAIN holding}
Shots == [time : Nat, state : {"disconnected", "acquiring", "ready"}, frame : Frames]

\* A snapshot is right from one time until another.
Right(shot, start, stop) == \A t \in start..(stop - 1) : shot.frame = HeldAt(t) /\ shot.state = StateAt(t)

\* The snapshots are right one after the other until a time.
Covers(shots, stop) ==
  /\ shots \in Seq(Shots)
  /\ Len(shots) = 0 => stop = 0
  /\ Len(shots) > 0 => shots[1].time = 0
  /\ \A m, n \in 1..Len(shots) : m < n => shots[m].time < shots[n].time
  /\ \A n \in 1..Len(shots) :
       /\ shots[n].time < stop
       /\ Right(shots[n], shots[n].time, IF n = Len(shots) THEN stop ELSE shots[n + 1].time)

\* Where the n-th turn of the loop has come.
StopOf(n) == IF n = 0 THEN 0 ELSE IF n = Len(Boundaries) THEN End ELSE Boundaries[n + 1]

\* The pair of endpoints at a time has been held since another, and not before.
HeldSince(start, t) ==
  /\ start \in 0..t
  /\ \A u \in start..t : Same(t, u)
  /\ start = 0 \/ ~Same(t, start - 1)

\* The loop's state after n turns.
Scanned(n) ==
  LET t == Boundaries[n]
      path == HeldAt(t).path
  IN /\ Covers(Scans[n].shots, StopOf(n))
     /\ n > 0 /\ path = <<>> => Scans[n].pair = <<>>
     /\ n > 0 /\ path # <<>> =>
          /\ Scans[n].pair = Endpoints(path)
          /\ \E start \in 0..t : HeldSince(start, t) /\ Scans[n].ready = start + replay.acquisition

LEMMA ReplayIs ==
  ASSUME Chosen
  PROVE  /\ replay.start \in Nat /\ End \in Nat \ {0} /\ replay.acquisition \in Nat
         /\ DOMAIN holding \subseteq Nat /\ 0 \in DOMAIN holding
  BY NetworkReplayAssumption DEF NetworkReplayAssumption, Chosen, End

\* The route held at a time is the last begun.
LEMMA HeldIs ==
  ASSUME Chosen, NEW t \in Nat
  PROVE  LET h == Max({g \in DOMAIN holding : g <= replay.start + t})
         IN /\ h \in DOMAIN holding /\ h <= replay.start + t /\ HeldAt(t) = holding[h]
            /\ \A g \in DOMAIN holding : g <= replay.start + t => g <= h
  <1> DEFINE S == {g \in DOMAIN holding : g <= replay.start + t}
             b == replay.start + t
  <1>1. replay.start \in Nat /\ DOMAIN holding \subseteq Nat /\ 0 \in DOMAIN holding
    BY ReplayIs
  <1>2. b \in Int /\ S # {} /\ (\A x \in S : x \in Int) /\ (\A x \in S : x <= b)
    BY <1>1
  <1>3. Max(S) \in S /\ \A y \in S : y <= Max(S)
    <2> HIDE DEF S, b
    <2> QED
      BY <1>2, MaxIs
  <1>4. HeldAt(t) = holding[Max(S)]
    BY DEF HeldAt
  <1> QED
    BY <1>3, <1>4

\* Without a breakpoint in between the route that is held stays.
LEMMA HeldStays ==
  ASSUME Chosen, NEW a \in Nat, NEW t \in Nat, a <= t,
         \A u \in (a + 1)..t : replay.start + u \notin DOMAIN holding
  PROVE  HeldAt(t) = HeldAt(a)
  <1> DEFINE S(x) == {h \in DOMAIN holding : h <= replay.start + x}
  <1>1. replay.start \in Nat /\ DOMAIN holding \subseteq Nat
    BY ReplayIs
  <1>2. ASSUME NEW h \in S(t) PROVE h \in S(a)
    <2> SUFFICES ASSUME h > replay.start + a PROVE FALSE
      BY <1>1
    <2> DEFINE u == h - replay.start
    <2>1. u \in (a + 1)..t /\ replay.start + u = h
      BY <1>1
    <2> QED
      BY <1>2, <2>1
  <1>3. S(a) \subseteq S(t)
    BY <1>1
  <1>4. S(a) = S(t)
    BY <1>2, <1>3
  <1> QED
    BY <1>4 DEF HeldAt

\* The boundaries of the window.
LEMMA BoundariesIs ==
  ASSUME Chosen
  PROVE  /\ Len(Boundaries) \in Nat \ {0}
         /\ \A n \in 1..Len(Boundaries) : Boundaries[n] \in 0..(End - 1)
         /\ \A m, n \in 1..Len(Boundaries) : m < n => Boundaries[m] < Boundaries[n]
         /\ Boundaries[1] = 0
         /\ \A t \in 1..(End - 1) :
              replay.start + t \in DOMAIN holding => \E n \in 1..Len(Boundaries) : Boundaries[n] = t
  <1> DEFINE S == {0} \union {t \in 1..(End - 1) : replay.start + t \in DOMAIN holding}
             c == Cardinality(S)
  <1>1. End \in Nat \ {0}
    BY ReplayIs
  <1>2. S \subseteq 0..(End - 1) /\ 0 \in S
    BY <1>1
  <1>3. IsFiniteSet(S)
    <2> HIDE DEF S
    <2>1. IsFiniteSet(0..(End - 1))
      BY <1>1, FS_Interval
    <2> QED
      BY <1>2, <2>1, FS_Subset
  <1>4. Boundaries = Ascending(S)
    BY DEF Boundaries
  <1>5. \A x \in S : x \in Nat
    BY <1>1
  <1>6. /\ Len(Boundaries) = c /\ c \in Nat
        /\ \A n \in 1..c : Boundaries[n] \in S
        /\ \A m, n \in 1..c : m < n => Boundaries[m] < Boundaries[n]
        /\ \A t \in S : \E n \in 1..c : Boundaries[n] = t
    <2> HIDE DEF S
    <2> QED
      BY <1>3, <1>4, <1>5, AscendingIs
  <1>7. \A t \in 1..(End - 1) : replay.start + t \in DOMAIN holding => t \in S
    OBVIOUS
  <1>8. c # 0 /\ Boundaries[1] = 0
    <2> HIDE DEF S, c
    <2>1. PICK n \in 1..c : Boundaries[n] = 0
      BY <1>2, <1>6
    <2>2. 1 \in 1..c /\ Boundaries[1] \in Nat
      BY <1>5, <1>6
    <2>3. ~(1 < n)
      BY <1>6, <2>1, <2>2
    <2> QED
      BY <1>6, <2>1, <2>2, <2>3
  <1> QED
    <2> HIDE DEF S, c
    <2> QED
      BY <1>2, <1>6, <1>7, <1>8

\* Each turn begins where the last has come, and the route held then is held until it comes to the next.
LEMMA TurnHolds ==
  ASSUME Chosen, NEW n \in 1..Len(Boundaries)
  PROVE  /\ Boundaries[n] \in Nat /\ StopOf(n) \in Nat
         /\ Boundaries[n] = StopOf(n - 1) /\ Boundaries[n] < StopOf(n) /\ StopOf(n) <= End
         /\ \A t \in Boundaries[n]..(StopOf(n) - 1) : HeldAt(t) = HeldAt(Boundaries[n])
  <1> DEFINE b == Boundaries[n]
             c == Len(Boundaries)
             s == StopOf(n)
  <1>1. /\ c \in Nat \ {0} /\ End \in Nat \ {0}
        /\ \A m \in 1..c : Boundaries[m] \in 0..(End - 1)
        /\ \A m, k \in 1..c : m < k => Boundaries[m] < Boundaries[k]
        /\ Boundaries[1] = 0
    BY BoundariesIs, ReplayIs
  <1>2. b \in Nat /\ b < End
    BY <1>1
  <1>3. s \in Nat /\ b < s /\ s <= End
    <2>1. CASE n = c
      BY <1>1, <1>2, <2>1 DEF StopOf
    <2>2. CASE n # c
      <3>1. n + 1 \in 1..c /\ n < n + 1 /\ s = Boundaries[n + 1]
        BY <1>1, <2>2 DEF StopOf
      <3> QED
        BY <1>1, <1>2, <3>1
    <2> QED
      BY <2>1, <2>2
  <1>4. b = StopOf(n - 1)
    <2>1. CASE n = 1
      BY <1>1, <2>1 DEF StopOf
    <2>2. CASE n # 1
      <3>1. n - 1 # 0 /\ n - 1 # c /\ (n - 1) + 1 = n
        BY <1>1, <2>2
      <3> QED
        BY <3>1 DEF StopOf
    <2> QED
      BY <2>1, <2>2
  <1>5. ASSUME NEW t \in b..(s - 1) PROVE HeldAt(t) = HeldAt(b)
    <2>1. ASSUME NEW u \in (b + 1)..t PROVE replay.start + u \notin DOMAIN holding
      <3> SUFFICES ASSUME replay.start + u \in DOMAIN holding PROVE FALSE
        OBVIOUS
      <3>1. u \in 1..(End - 1) /\ b < u /\ u < s
        BY <1>1, <1>2, <1>3
      <3>2. PICK m \in 1..c : Boundaries[m] = u
        BY <3>1, BoundariesIs
      <3>3. n < m
        <4>1. m # n
          BY <1>2, <3>1, <3>2
        <4>2. ~(m < n)
          BY <1>1, <1>2, <3>1, <3>2
        <4> QED
          BY <1>1, <4>1, <4>2
      <3>4. n + 1 \in 1..c /\ s = Boundaries[n + 1]
        BY <1>1, <3>3 DEF StopOf
      <3>5. s <= u
        BY <1>1, <3>2, <3>3, <3>4
      <3> QED
        BY <1>3, <3>1, <3>5
    <2>2. t \in Nat /\ b <= t
      BY <1>2, <1>3
    <2> QED
      <3> HIDE DEF b
      <3> QED
        BY <1>2, <2>1, <2>2, HeldStays
  <1> QED
    BY <1>2, <1>3, <1>4, <1>5

----------------------------------------------------------------------------
(* The loop over the boundaries.                                           *)

\* One more snapshot, right from where the last have come.
LEMMA CoversMore ==
  ASSUME NEW shots, NEW a \in Nat, NEW b \in Nat, Covers(shots, a), a < b,
         NEW shot \in Shots, shot.time = a, Right(shot, a, b)
  PROVE  Covers(Append(shots, shot), b)
  <1> DEFINE more == Append(shots, shot)
             c == Len(shots)
  <1>1. shots \in Seq(Shots) /\ c \in Nat
    BY LenProperties DEF Covers
  <1>2. more \in Seq(Shots) /\ Len(more) = c + 1 /\ more[c + 1] = shot /\ \A n \in 1..c : more[n] = shots[n]
    BY <1>1, AppendProperties
  <1>3. /\ c = 0 => a = 0
        /\ c > 0 => shots[1].time = 0
        /\ \A m, n \in 1..c : m < n => shots[m].time < shots[n].time
        /\ \A n \in 1..c : /\ shots[n].time < a
                           /\ Right(shots[n], shots[n].time, IF n = c THEN a ELSE shots[n + 1].time)
    BY DEF Covers
  <1>4. \A n \in 1..c : shots[n].time \in Nat
    <2> TAKE n \in 1..c
    <2>1. shots[n] \in Shots
      BY <1>1, ElementOfSeq
    <2> QED
      BY <2>1 DEF Shots
  <1> HIDE DEF more, c
  <1>5. Len(more) > 0 => more[1].time = 0
    BY <1>1, <1>2, <1>3
  <1>6. ASSUME NEW m \in 1..Len(more), NEW n \in 1..Len(more), m < n PROVE more[m].time < more[n].time
    <2>1. m \in 1..c /\ more[m] = shots[m]
      BY <1>1, <1>2, <1>6
    <2>2. CASE n = c + 1
      BY <1>2, <1>3, <2>1, <2>2
    <2>3. CASE n # c + 1
      <3>1. n \in 1..c /\ more[n] = shots[n]
        BY <1>1, <1>2, <2>3
      <3> QED
        BY <1>3, <1>6, <2>1, <3>1
    <2> QED
      BY <2>2, <2>3
  <1>7. ASSUME NEW n \in 1..Len(more)
        PROVE  /\ more[n].time < b
               /\ Right(more[n], more[n].time, IF n = Len(more) THEN b ELSE more[n + 1].time)
    <2>1. CASE n = c + 1
      BY <1>2, <2>1
    <2>2. CASE n # c + 1
      <3>1. n \in 1..c /\ more[n] = shots[n] /\ n # Len(more)
        BY <1>1, <1>2, <2>2
      <3>2. more[n + 1].time = IF n = c THEN a ELSE shots[n + 1].time
        BY <1>1, <1>2, <3>1
      <3>3. more[n].time < b
        BY <1>3, <1>4, <3>1
      <3> QED
        BY <1>3, <3>1, <3>2, <3>3
    <2> QED
      BY <2>1, <2>2
  <1>8. Len(more) # 0
    BY <1>1, <1>2
  <1>9. Covers(more, b)
    BY <1>2, <1>5, <1>6, <1>7, <1>8 DEF Covers
  <1> QED
    BY <1>9 DEF more

\* A route whose endpoints are held since a time is ready after the acquisition delay.
LEMMA ReadyIs ==
  ASSUME Chosen, NEW a \in Nat, NEW stop \in Nat, HeldAt(a).path # <<>>,
         \A t \in a..(stop - 1) : HeldAt(t) = HeldAt(a),
         NEW start \in 0..a, HeldSince(start, a)
  PROVE  \A t \in a..(stop - 1) :
           StateAt(t) = IF t < start + replay.acquisition THEN "acquiring" ELSE "ready"
  <1> TAKE t \in a..(stop - 1)
  <1> DEFINE q == replay.acquisition
  <1>1. q \in Nat /\ t \in Nat /\ start \in Nat /\ a <= t
    BY ReplayIs
  <1>2. HeldAt(t) = HeldAt(a) /\ \A u : Same(t, u) <=> Same(a, u)
    BY DEF Same
  <1>3. ASSUME t >= start + q PROVE t >= q /\ \A u \in (t - q)..t : Same(t, u)
    <2>1. t >= q
      BY <1>1, <1>3
    <2>2. ASSUME NEW u \in (t - q)..t PROVE Same(a, u)
      <3>1. u \in Int /\ start <= u /\ u <= t
        BY <1>1, <1>3
      <3>2. CASE u <= a
        BY <1>1, <3>1, <3>2 DEF HeldSince
      <3>3. CASE u > a
        <4>1. u \in a..(stop - 1)
          BY <1>1, <3>1, <3>3
        <4> QED
          BY <4>1 DEF Same
      <3> QED
        BY <1>1, <3>1, <3>2, <3>3
    <2> QED
      BY <1>2, <2>1, <2>2
  <1>4. ASSUME t < start + q, t >= q PROVE \E u \in (t - q)..t : ~Same(t, u)
    <2>1. start # 0 /\ start - 1 \in (t - q)..t
      BY <1>1, <1>4
    <2>2. ~Same(a, start - 1)
      BY <2>1 DEF HeldSince
    <2> QED
      BY <1>2, <2>1, <2>2
  <1>5. CASE t < start + q
    <2>1. ~(t >= q /\ \A u \in (t - q)..t : Same(t, u))
      BY <1>4, <1>5
    <2> QED
      BY <1>2, <1>5, <2>1 DEF StateAt
  <1>6. CASE ~(t < start + q)
    <2>1. t >= q /\ \A u \in (t - q)..t : Same(t, u)
      BY <1>1, <1>3, <1>6
    <2> QED
      BY <1>2, <1>6, <2>1 DEF StateAt
  <1> QED
    BY <1>5, <1>6

\* The loop's states are what the turns make them.
LEMMA ScansAre ==
  ASSUME Chosen
  PROVE  /\ Scans[0] = Unscanned
         /\ \A n \in 1..Len(Boundaries) : Scans[n] = Turn(Scans[n - 1], n)
  <1> DEFINE Made(s, k) == s = [n \in 0..k |-> IF n = 0 THEN Unscanned ELSE Turn(s[n - 1], n)]
             T == {k \in Nat : ~\E s : Made(s, k)}
  <1>1. T = {}
    <2> SUFFICES ASSUME T # {} PROVE FALSE
      OBVIOUS
    <2>1. \E k \in T : \A m \in T : k <= m
      <3>1. \A k \in T : k \in Nat
        OBVIOUS
      <3> HIDE DEF T
      <3> QED
        BY <3>1, LeastNatural
    <2>2. PICK k \in T : \A m \in T : k <= m
      BY <2>1
    <2>3. CASE k = 0
      <3> DEFINE s == [n \in 0..0 |-> Unscanned]
      <3>1. Made(s, k)
        BY <2>3
      <3> QED
        BY <2>2, <3>1
    <2>4. CASE k # 0
      <3>1. k - 1 \in Nat /\ k - 1 \notin T
        <4>1. k \in Nat
          OBVIOUS
        <4> HIDE DEF T
        <4> QED
          BY <2>2, <2>4, <4>1
      <3>2. PICK s : Made(s, k - 1)
        BY <3>1
      <3> DEFINE r == [n \in 0..k |-> IF n < k THEN s[n] ELSE Turn(s[k - 1], k)]
      <3>3. ASSUME NEW n \in 0..k PROVE r[n] = IF n = 0 THEN Unscanned ELSE Turn(r[n - 1], n)
        <4>1. \A m \in 0..(k - 1) : r[m] = s[m]
          BY <2>2, <2>4
        <4>2. CASE n = 0
          <5>1. r[0] = s[0] /\ s[0] = Unscanned
            BY <2>2, <2>4, <3>2, <4>1
          <5> QED
            BY <4>2, <5>1
        <4>3. CASE n # 0 /\ n < k
          <5>1. n \in 0..(k - 1) /\ n - 1 \in 0..(k - 1)
            BY <2>2, <4>3
          <5>2. s[n] = Turn(s[n - 1], n)
            BY <3>2, <4>3, <5>1
          <5>3. r[n] = s[n] /\ r[n - 1] = s[n - 1]
            BY <4>1, <5>1
          <5> HIDE DEF r, Made
          <5> QED
            BY <4>3, <5>2, <5>3
        <4>4. CASE n = k
          <5>1. k - 1 \in 0..(k - 1) /\ k \in 0..k
            BY <2>2, <2>4
          <5>2. r[k] = Turn(s[k - 1], k)
            BY <2>2, <5>1
          <5>3. r[k - 1] = s[k - 1]
            BY <4>1, <5>1
          <5> HIDE DEF r, Made
          <5> QED
            BY <2>4, <4>4, <5>2, <5>3
        <4> QED
          BY <2>2, <4>2, <4>3, <4>4
      <3>4. Made(r, k)
        <4>1. r = [n \in 0..k |-> r[n]]
          OBVIOUS
        <4> HIDE DEF r
        <4> QED
          BY <3>3, <4>1
      <3> HIDE DEF Made, r
      <3> QED
        BY <2>2, <3>4
    <2> QED
      BY <2>3, <2>4
  <1>2. Len(Boundaries) \in Nat
    BY BoundariesIs
  <1>3. \E s : Made(s, Len(Boundaries))
    BY <1>1, <1>2
  <1>4. Made(Scans, Len(Boundaries))
    BY <1>3 DEF Scans
  <1> QED
    <2>1. Scans[0] = Unscanned
      BY <1>2, <1>4
    <2>2. ASSUME NEW n \in 1..Len(Boundaries) PROVE Scans[n] = Turn(Scans[n - 1], n)
      <3>1. n \in 0..Len(Boundaries) /\ n # 0
        BY <1>2
      <3> QED
        BY <1>4, <3>1
    <2> QED
      BY <2>1, <2>2

\* Whether the endpoints are new or not, a turn knows since when they have been held.
LEMMA TurnSince ==
  ASSUME Chosen, NEW n \in 1..Len(Boundaries), Scanned(n - 1), HeldAt(Boundaries[n]).path # <<>>
  PROVE  \E start \in 0..Boundaries[n] :
           /\ HeldSince(start, Boundaries[n])
           /\ start + replay.acquisition =
                IF Endpoints(HeldAt(Boundaries[n]).path) # Scans[n - 1].pair THEN Boundaries[n] + replay.acquisition
                ELSE Scans[n - 1].ready
  <1> DEFINE b == Boundaries[n]
             a == Boundaries[n - 1]
             before == HeldAt(a).path
             pair == Endpoints(HeldAt(b).path)
  <1>1. b \in Nat /\ replay.acquisition \in Nat /\ Len(Boundaries) \in Nat
    BY TurnHolds, ReplayIs, BoundariesIs
  <1>2. pair # <<>> /\ \A u : Same(b, u) <=> HeldAt(u).path # <<>> /\ Endpoints(HeldAt(u).path) = pair
    <2>1. pair # <<>>
      BY DEF Endpoints
    <2> QED
      BY <2>1 DEF Same
  <1>3. ASSUME n # 1
        PROVE  /\ a \in Nat /\ a < b
               /\ \A t \in a..(b - 1) : HeldAt(t) = HeldAt(a)
               /\ before = <<>> => Scans[n - 1].pair = <<>>
               /\ before # <<>> =>
                    /\ Scans[n - 1].pair = Endpoints(before)
                    /\ \E start \in 0..a : HeldSince(start, a) /\ Scans[n - 1].ready = start + replay.acquisition
    <2>1. n - 1 \in 1..Len(Boundaries) /\ n - 1 > 0 /\ b = StopOf(n - 1)
      BY <1>1, <1>3, TurnHolds
    <2>2. a \in Nat /\ a < b /\ \A t \in a..(b - 1) : HeldAt(t) = HeldAt(a)
      BY <2>1, TurnHolds
    <2> QED
      BY <2>1, <2>2 DEF Scanned
  <1>4. ASSUME n = 1 PROVE b = 0 /\ Scans[n - 1].pair = <<>>
    BY <1>4, BoundariesIs, ScansAre DEF Unscanned
  <1>5. CASE pair # Scans[n - 1].pair
    <2>1. HeldSince(b, b)
      <3>1. \A u \in b..b : Same(b, u)
        BY <1>1, <1>2
      <3>2. b = 0 \/ ~Same(b, b - 1)
        <4>1. CASE n = 1
          BY <1>4, <4>1
        <4>2. CASE n # 1
          <5>1. HeldAt(b - 1) = HeldAt(a)
            BY <1>1, <1>3, <4>2
          <5>2. before # <<>> => Endpoints(before) # pair
            BY <1>3, <1>5, <4>2
          <5> QED
            BY <1>2, <5>1, <5>2
        <4> QED
          BY <4>1, <4>2
      <3> QED
        BY <1>1, <3>1, <3>2 DEF HeldSince
    <2> QED
      BY <1>1, <1>5, <2>1
  <1>6. CASE pair = Scans[n - 1].pair
    <2>1. n # 1
      BY <1>2, <1>4, <1>6
    <2>2. before # <<>> /\ Endpoints(before) = pair
      BY <1>2, <1>3, <1>6, <2>1
    <2>3. PICK start \in 0..a : HeldSince(start, a) /\ Scans[n - 1].ready = start + replay.acquisition
      BY <1>3, <2>1, <2>2
    <2>4. a \in Nat /\ a < b /\ start \in 0..b /\ start \in Nat /\ start <= a
      BY <1>1, <1>3, <2>1
    <2>5. \A u : Same(a, u) <=> Same(b, u)
      BY <1>2, <2>2 DEF Same
    <2>6. ASSUME NEW u \in start..b PROVE Same(b, u)
      <3>1. CASE u <= a
        BY <2>3, <2>4, <2>5, <3>1 DEF HeldSince
      <3>2. CASE u > a /\ u < b
        <4>1. HeldAt(u) = HeldAt(a)
          BY <1>1, <1>3, <2>1, <2>4, <3>2
        <4> QED
          BY <1>2, <2>2, <4>1
      <3>3. CASE u = b
        BY <1>2, <3>3
      <3> QED
        BY <1>1, <2>4, <3>1, <3>2, <3>3
    <2>7. HeldSince(start, b)
      BY <2>3, <2>4, <2>5, <2>6 DEF HeldSince
    <2> QED
      BY <1>6, <2>3, <2>4, <2>7
  <1> QED
    BY <1>5, <1>6

\* A turn adds the snapshots of the time until the next boundary.
LEMMA TurnScans ==
  ASSUME Chosen, NEW n \in 1..Len(Boundaries), Scanned(n - 1)
  PROVE  Scanned(n)
  <1> DEFINE b == Boundaries[n]
             stop == StopOf(n)
             old == Scans[n - 1]
             frame == HeldAt(b)
             ready == IF Endpoints(frame.path) # old.pair THEN b + replay.acquisition ELSE old.ready
             first == [time |-> b, state |-> IF b < ready THEN "acquiring" ELSE "ready", frame |-> frame]
             second == [first EXCEPT !.time = ready, !.state = "ready"]
             late == IF b < ready /\ ready < stop THEN <<second>> ELSE <<>>
             gone == [time |-> b, state |-> "disconnected", frame |-> frame]
  <1>1. /\ b \in Nat /\ stop \in Nat /\ b = StopOf(n - 1) /\ b < stop
        /\ \A t \in b..(stop - 1) : HeldAt(t) = frame
        /\ replay.acquisition \in Nat /\ n > 0
    BY TurnHolds, ReplayIs
  <1>2. Covers(old.shots, b) /\ old.shots \in Seq(Shots)
    BY <1>1 DEF Scanned, Covers
  <1>3. stop = IF n = Len(Boundaries) THEN End ELSE Boundaries[n + 1]
    BY <1>1 DEF StopOf
  <1>4. Scans[n] = IF frame.path = <<>>
                   THEN [shots |-> Append(old.shots, gone), pair |-> <<>>, ready |-> None]
                   ELSE [shots |-> Append(old.shots, first) \o late, pair |-> Endpoints(frame.path), ready |-> ready]
    <2>1. Scans[n] = Turn(old, n)
      BY ScansAre
    <2> QED
      BY <1>3, <2>1 DEF Turn
  <1>5. frame \in Frames
    BY <1>1, HeldIs DEF Frames
  <1> HIDE DEF old, frame, stop, b, ready, first, second, late, gone
  <1>6. CASE frame.path = <<>>
    <2>1. gone \in Shots /\ gone.time = b
      BY <1>1, <1>5 DEF Shots, gone
    <2>2. Right(gone, b, stop)
      BY <1>1, <1>6 DEF Right, StateAt, gone
    <2>3. Covers(Append(old.shots, gone), stop)
      BY <1>1, <1>2, <2>1, <2>2, CoversMore
    <2>4. Scans[n].shots = Append(old.shots, gone) /\ Scans[n].pair = <<>>
      BY <1>4, <1>6
    <2> QED
      BY <1>6, <2>3, <2>4 DEF Scanned, b, stop, frame
  <1>7. CASE frame.path # <<>>
    <2>1. PICK start \in 0..b : HeldSince(start, b) /\ ready = start + replay.acquisition
      BY <1>7, TurnSince DEF b, frame, old, ready
    <2>2. ready \in Nat
      BY <1>1, <2>1
    <2>3. \A t \in b..(stop - 1) : HeldAt(t) = frame /\ StateAt(t) = IF t < ready THEN "acquiring" ELSE "ready"
      <3>1. \A t \in b..(stop - 1) : StateAt(t) = IF t < start + replay.acquisition THEN "acquiring" ELSE "ready"
        BY <1>1, <1>7, <2>1, ReadyIs DEF frame
      <3> QED
        BY <1>1, <2>1, <3>1
    <2>4. /\ Scans[n].shots = Append(old.shots, first) \o late
          /\ Scans[n].pair = Endpoints(frame.path) /\ Scans[n].ready = ready
      BY <1>4, <1>7
    <2>5. first \in Shots /\ first.time = b /\ first.frame = frame
          /\ first.state = IF b < ready THEN "acquiring" ELSE "ready"
      BY <1>1, <1>5 DEF Shots, first
    <2>6. second \in Shots /\ second.time = ready /\ second.frame = frame /\ second.state = "ready"
      BY <1>1, <1>5, <2>2 DEF Shots, second, first
    <2>7. Append(old.shots, first) \in Seq(Shots)
      BY <1>2, <2>5, AppendProperties
    <2>8. Covers(Scans[n].shots, stop)
      <3>1. CASE b < ready /\ ready < stop
        <4>1. Scans[n].shots = Append(Append(old.shots, first), second)
          <5>1. late = <<second>>
            BY <3>1 DEF late
          <5>2. Append(old.shots, first) \o <<second>> = Append(Append(old.shots, first), second)
            BY <2>6, <2>7, AppendIsConcat
          <5> QED
            BY <2>4, <5>1, <5>2
        <4>2. Right(first, b, ready)
          BY <1>1, <2>2, <2>3, <2>5, <3>1 DEF Right
        <4>3. Right(second, ready, stop)
          BY <1>1, <2>2, <2>3, <2>6, <3>1 DEF Right
        <4>4. Covers(Append(old.shots, first), ready)
          BY <1>1, <1>2, <2>2, <2>5, <3>1, <4>2, CoversMore
        <4> QED
          BY <1>1, <2>2, <2>6, <3>1, <4>1, <4>3, <4>4, CoversMore
      <3>2. CASE ~(b < ready /\ ready < stop)
        <4>1. Scans[n].shots = Append(old.shots, first)
          <5>1. late = <<>>
            BY <3>2 DEF late
          <5> QED
            BY <2>4, <2>7, <5>1, ConcatEmptySeq
        <4>2. Right(first, b, stop)
          BY <1>1, <2>2, <2>3, <2>5, <3>2 DEF Right
        <4> QED
          BY <1>1, <1>2, <2>5, <4>1, <4>2, CoversMore
      <3> QED
        BY <3>1, <3>2
    <2>9. Scans[n].ready = start + replay.acquisition
      BY <2>1, <2>4
    <2> QED
      BY <1>7, <2>1, <2>4, <2>8, <2>9 DEF Scanned, b, stop, frame
  <1> QED
    BY <1>6, <1>7

LEMMA Scanning ==
  ASSUME Chosen
  PROVE  \A n \in 0..Len(Boundaries) : Scanned(n)
  <1> DEFINE T == {n \in 0..Len(Boundaries) : ~Scanned(n)}
  <1> SUFFICES ASSUME T # {} PROVE FALSE
    OBVIOUS
  <1>1. Len(Boundaries) \in Nat
    BY BoundariesIs
  <1>2. \A n \in T : n \in Nat
    BY <1>1
  <1>3. PICK n \in T : \A m \in T : n <= m
    <2> HIDE DEF T
    <2> QED
      BY <1>2, LeastNatural
  <1>4. n # 0
    <2>1. Scans[0].shots = <<>>
      BY ScansAre DEF Unscanned
    <2>2. Covers(<<>>, 0)
      BY DEF Covers
    <2>3. Scanned(0)
      BY <2>1, <2>2 DEF Scanned, StopOf
    <2> QED
      BY <2>3
  <1>5. n \in 1..Len(Boundaries) /\ n - 1 \in 0..Len(Boundaries) /\ ~(n <= n - 1)
    BY <1>1, <1>4
  <1>6. Scanned(n - 1)
    BY <1>3, <1>5
  <1>7. Scanned(n)
    BY <1>5, <1>6, TurnScans
  <1> QED
    BY <1>7

\* The snapshots cover the window.
LEMMA SnapshotsCover == ASSUME Chosen PROVE Covers(Snapshots, End) /\ Len(Snapshots) > 0
  <1>1. Len(Boundaries) \in Nat \ {0} /\ End \in Nat \ {0}
    BY BoundariesIs, ReplayIs
  <1>2. Scanned(Len(Boundaries)) /\ StopOf(Len(Boundaries)) = End
    BY <1>1, Scanning DEF StopOf
  <1>3. Covers(Snapshots, End)
    BY <1>2 DEF Scanned, Snapshots
  <1>4. Len(Snapshots) \in Nat /\ Len(Snapshots) # 0
    BY <1>1, <1>3, LenProperties DEF Covers
  <1> QED
    BY <1>3, <1>4

----------------------------------------------------------------------------
(* The tables.                                                             *)

\* The row that a table holds at a time: RowAt, of any table.
RowIn(table, t) == table[Max({n \in DOMAIN table : table[n].time <= t})]

\* What a row says, and of which snapshot.
LEMMA RowsAre ==
  ASSUME Chosen, NEW table, table = Prepared
  PROVE  /\ Len(Snapshots) \in Nat /\ DOMAIN table = 1..(Len(Snapshots) + 1)
         /\ table[Len(Snapshots) + 1].time = End
         /\ \A n \in 1..Len(Snapshots) :
              LET shot == Snapshots[n]
              IN /\ table[n].time = shot.time /\ table[n].state = shot.state
                 /\ \A e \in DOMAIN table[n].edges :
                      table[n].edges[e].available <=>
                        /\ shot.frame.edges[e].rate > 0
                        /\ IsGround(e) => shot.state = "ready" /\ e \in Selected(shot.frame.path)
  <1> DEFINE shots == Snapshots
             c == Len(Snapshots)
             union == UNION {EdgesOf(shots[n].frame.path) : n \in DOMAIN shots}
             up(shot, e) == shot.frame.edges[e].rate > 0
                            /\ (IsGround(e) => shot.state = "ready" /\ e \in Selected(shot.frame.path))
             state(shot, e) == [rate |-> IF up(shot, e) THEN shot.frame.edges[e].rate ELSE 0,
                                delay |-> shot.frame.edges[e].delay, available |-> up(shot, e)]
             row(shot) == [time |-> shot.time, state |-> shot.state,
                           path |-> IF shot.state = "ready" THEN shot.frame.path ELSE <<>>,
                           edges |-> [e \in union |-> state(shot, e)]]
             stop == [time |-> End, state |-> "stop", path |-> <<>>,
                      edges |-> [e \in union |-> [rate |-> 0, delay |-> 0, available |-> FALSE]]]
             before == [n \in DOMAIN shots |-> row(shots[n])]
  <1>1. table = Append(before, stop)
    BY Zenon DEF Prepared
  <1>2. shots \in Seq(Shots)
    BY SnapshotsCover DEF Covers
  <1>3. c \in Nat /\ DOMAIN shots = 1..c
    BY <1>2, LenProperties
  <1> HIDE DEF union, up, state
  <1> DEFINE R == {row(shots[n]) : n \in 1..c} \union {stop}
  <1>4. before \in [1..c -> R] /\ stop \in R
    BY <1>3
  <1>5. \A n \in 1..c : before[n] = row(shots[n])
    BY <1>3
  <1> HIDE DEF shots, c, stop, row, before
  <1>6. before \in Seq(R) /\ Len(before) = c
    <2> HIDE DEF R
    <2>1. before \in Seq(R)
      BY <1>3, <1>4, IsASeq
    <2> QED
      BY <1>3, <1>4, <2>1, LenProperties
  <1>7. table \in Seq(R) /\ Len(table) = c + 1 /\ table[c + 1] = stop /\ \A n \in 1..c : table[n] = before[n]
    <2> HIDE DEF R
    <2> QED
      BY <1>1, <1>4, <1>6, AppendProperties
  <1>8. DOMAIN table = 1..(c + 1)
    <2> HIDE DEF R
    <2> QED
      BY <1>7, LenProperties
  <1>9. table[c + 1].time = End
    BY <1>7 DEF stop
  <1>10. ASSUME NEW n \in 1..c
         PROVE  /\ table[n].time = shots[n].time /\ table[n].state = shots[n].state
                /\ \A e \in DOMAIN table[n].edges : table[n].edges[e].available <=> up(shots[n], e)
    <2>1. table[n] = row(shots[n])
      BY <1>5, <1>7
    <2>2. /\ table[n].time = shots[n].time /\ table[n].state = shots[n].state
          /\ table[n].edges = [e \in union |-> state(shots[n], e)]
      BY <2>1 DEF row
    <2>3. \A e : state(shots[n], e).available = up(shots[n], e)
      BY DEF state
    <2> QED
      BY <2>2, <2>3
  <1> QED
    BY <1>3, <1>8, <1>9, <1>10 DEF shots, c, up

\* At every tick of the window the row is of a snapshot that is right then.
LEMMA RowIsRight ==
  ASSUME Chosen, NEW table, table = Prepared, NEW t \in 0..(End - 1)
  PROVE  \E n \in 1..Len(Snapshots) :
           RowIn(table, t) = table[n] /\ Snapshots[n].frame = HeldAt(t) /\ Snapshots[n].state = StateAt(t)
  <1> DEFINE c == Len(Snapshots)
             B == {n \in DOMAIN table : table[n].time <= t}
             k == Max(B)
  <1>1. /\ c \in Nat /\ c > 0 /\ End \in Nat \ {0} /\ DOMAIN table = 1..(c + 1)
        /\ table[c + 1].time = End /\ \A n \in 1..c : table[n].time = Snapshots[n].time
    BY RowsAre, SnapshotsCover, ReplayIs
  <1>2. /\ Snapshots[1].time = 0
        /\ \A n \in 1..c : Right(Snapshots[n], Snapshots[n].time, IF n = c THEN End ELSE Snapshots[n + 1].time)
    BY <1>1, SnapshotsCover DEF Covers
  <1>3. \A n \in 1..c : Snapshots[n].time \in Nat
    <2> TAKE n \in 1..c
    <2>1. Snapshots[n] \in Shots
      BY SnapshotsCover, ElementOfSeq DEF Covers
    <2> QED
      BY <2>1 DEF Shots
  <1>4. B # {} /\ (\A n \in B : n \in Int) /\ (\A n \in B : n <= c) /\ c \in Int
    <2>1. 1 \in B
      BY <1>1, <1>2
    <2>2. c + 1 \notin B
      BY <1>1
    <2> QED
      BY <1>1, <2>1, <2>2
  <1>5. k \in B /\ \A n \in B : n <= k
    <2> HIDE DEF B
    <2> QED
      BY <1>4, MaxIs
  <1>6. RowIn(table, t) = table[k]
    BY DEF RowIn
  <1>7. k \in 1..c /\ Snapshots[k].time <= t
    <2> HIDE DEF k
    <2>1. k \in 1..(c + 1) /\ table[k].time <= t /\ k <= c
      BY <1>1, <1>4, <1>5
    <2> QED
      BY <1>1, <2>1
  <1>8. t < IF k = c THEN End ELSE Snapshots[k + 1].time
    <2> HIDE DEF k
    <2>1. CASE k = c
      BY <1>1, <2>1
    <2>2. CASE k # c
      <3>1. k + 1 \in 1..c /\ k + 1 \in DOMAIN table /\ k + 1 \notin B
        BY <1>1, <1>5, <1>7, <2>2
      <3> QED
        BY <1>1, <1>3, <2>2, <3>1
    <2> QED
      BY <2>1, <2>2
  <1>9. Snapshots[k].frame = HeldAt(t) /\ Snapshots[k].state = StateAt(t)
    <2> HIDE DEF k
    <2> DEFINE s == Snapshots[k].time
               next == IF k = c THEN End ELSE Snapshots[k + 1].time
    <2>1. s \in Nat /\ next \in Nat /\ Right(Snapshots[k], s, next)
      BY <1>1, <1>2, <1>3, <1>7
    <2>2. t \in s..(next - 1)
      <3>1. s <= t /\ t < next /\ t \in Nat
        BY <1>7, <1>8
      <3> HIDE DEF s, next
      <3> QED
        BY <2>1, <3>1
    <2> QED
      BY <2>1, <2>2 DEF Right
  <1> QED
    BY <1>6, <1>7, <1>9

\* A table gates the ends.
Gated(table) ==
  \A t \in 0..(End - 1) :
    /\ RowIn(table, t).state = StateAt(t)
    /\ \A e \in DOMAIN RowIn(table, t).edges :
         RowIn(table, t).edges[e].available <=>
           HeldAt(t).edges[e].rate > 0
             /\ (IsGround(e) => RowIn(table, t).state = "ready" /\ e \in EdgesOf(HeldAt(t).path))

\* The table that is prepared gates the ends.
LEMMA PreparedGates == ASSUME Chosen, NEW table, table = Prepared PROVE Gated(table)
  <1> SUFFICES ASSUME NEW t \in 0..(End - 1)
               PROVE  /\ RowIn(table, t).state = StateAt(t)
                      /\ \A e \in DOMAIN RowIn(table, t).edges :
                           RowIn(table, t).edges[e].available <=>
                             HeldAt(t).edges[e].rate > 0
                               /\ (IsGround(e) => RowIn(table, t).state = "ready" /\ e \in EdgesOf(HeldAt(t).path))
    BY DEF Gated
  <1>1. PICK n \in 1..Len(Snapshots) :
          RowIn(table, t) = table[n] /\ Snapshots[n].frame = HeldAt(t) /\ Snapshots[n].state = StateAt(t)
    BY RowIsRight
  <1>2. /\ table[n].state = StateAt(t)
        /\ \A e \in DOMAIN table[n].edges :
             table[n].edges[e].available <=>
               /\ HeldAt(t).edges[e].rate > 0
               /\ IsGround(e) => StateAt(t) = "ready" /\ e \in Selected(HeldAt(t).path)
    BY <1>1, RowsAre
  <1>3. \A e : IsGround(e) => (e \in Selected(HeldAt(t).path) <=> e \in EdgesOf(HeldAt(t).path))
    BY DEF Selected
  <1> QED
    BY <1>1, <1>2, <1>3

\* The table of the run gates the ends, from the time that it is prepared.
GInv == Chosen /\ (rows # <<>> => Gated(rows))

LEMMA InitGInv == Init => GInv
  BY DEF Init, GInv, Chosen

LEMMA StepGInv == ASSUME GInv, [Next]_vars PROVE GInv'
  <1>1. UNCHANGED <<holding, replay>> /\ (UNCHANGED rows \/ rows' = Prepared)
    <2>1. CASE Prepare
      BY <2>1 DEF Prepare
    <2>2. CASE Take \/ Parse \/ Publish \/ Update \/ Offer \/ Advance
      BY <2>2 DEF Take, Parse, Publish, Update, Offer, Advance
    <2>3. ASSUME NEW link \in DOMAIN sending, Complete(link) PROVE UNCHANGED <<holding, replay, rows>>
      BY <2>3 DEF Complete
    <2>4. ASSUME NEW n \in DOMAIN packets, Arrive(n) PROVE UNCHANGED <<holding, replay, rows>>
      BY <2>4 DEF Arrive
    <2>5. CASE UNCHANGED vars
      BY <2>5 DEF vars
    <2> QED
      BY <2>1, <2>2, <2>3, <2>4, <2>5 DEF Next
  <1>2. Chosen /\ Chosen'
    BY <1>1 DEF GInv, Chosen
  <1>3. ASSUME rows' # <<>> PROVE Gated(rows')
    <2>1. CASE UNCHANGED rows
      BY <1>3, <2>1 DEF GInv
    <2>2. CASE rows' = Prepared
      BY <1>2, <2>2, PreparedGates
    <2> QED
      BY <1>1, <2>1, <2>2
  <1>4. ASSUME NEW table, table = rows', Gated(table) PROVE Gated(rows)'
    <2>1. End' = End /\ \A t : HeldAt(t)' = HeldAt(t)
      BY <1>1 DEF End, HeldAt
    <2>2. \A t : StateAt(t)' = StateAt(t)
      <3>1. \A t, u : Same(t, u)' <=> Same(t, u)
        BY <2>1 DEF Same
      <3> QED
        BY <1>1, <2>1, <3>1 DEF StateAt
    <2>3. \A t : RowIn(rows, t)' = RowIn(table, t)
      BY <1>4 DEF RowIn
    <2> QED
      BY <1>4, <2>1, <2>2, <2>3 DEF Gated
  <1> QED
    BY <1>2, <1>3, <1>4 DEF GInv

LEMMA GatedIs == GInv => AcquisitionGates
  <1> SUFFICES ASSUME GInv, rows # <<>> PROVE AcquisitionGates
    BY DEF AcquisitionGates
  <1>1. \A t : RowIn(rows, t) = RowAt(t)
    BY DEF RowIn, RowAt
  <1> QED
    BY <1>1 DEF GInv, Gated, AcquisitionGates, StateAt, Same

\* From when it is prepared the table has a route ready just when its endpoints have been held for the
\* acquisition delay, and ground links up only for that route, whatever the routes that were saved, their
\* breakpoints and the window (prepare_network_replay).
THEOREM GatesStand == Spec => []AcquisitionGates
  <1>1. GInv /\ [Next]_vars => GInv'
    BY StepGInv
  <1> QED
    BY InitGInv, <1>1, GatedIs, PTL DEF Spec

\* The device's visits that are still to leave at the end of a tick.
Staying(d, s) == {v \in d.sent \union d.rested : d.adm[v] <= s /\ s < d.out[v]}

\* The visits that a packet dropped at a tick may have found in the queue.
Blocking(d, s) ==
  {v \in d.sent \union d.rested :
     d.adm[v] <= s /\ (s < d.out[v] \/ (v \in d.sent /\ d.out[v] = s /\ \E u \in d.sent : d.end[u] = s))}

\* What is known of the times of each visit.
Timed(d, t) ==
  /\ IsFiniteSet(d.sent \union d.rested) /\ d.sent \intersect d.rested = {}
  /\ \A v \in d.sent \union d.rested : d.adm[v] \in Nat /\ d.adm[v] <= t /\ d.adm[v] < End /\ d.out[v] \in Nat
  /\ \A v \in d.sent : d.end[v] \in Nat /\ d.adm[v] <= d.out[v] /\ d.out[v] < d.end[v] /\ d.out[v] <= t /\ d.out[v] < End
  /\ \A w \in d.rested : \/ d.out[w] = End + 1
                         \/ /\ d.adm[w] < d.out[w] /\ d.out[w] <= t /\ d.out[w] <= End
                            /\ \E x \in d.sent : d.out[x] < d.out[w] /\ d.out[w] <= d.end[x]

\* One at a time, in the order of admission, and without delay.
InTurn(d) ==
  /\ \A u, v \in d.sent : u = v \/ d.end[u] <= d.out[v] \/ d.end[v] <= d.out[u]
  /\ \A u, v \in d.sent : d.out[u] < d.out[v] => d.adm[u] <= d.adm[v]
  /\ \A u \in d.sent : d.out[u] = d.adm[u] \/ \E v \in d.sent : d.end[v] = d.out[u]

\* Who waits, or waited, found the device busy, it stayed so, and nobody overtook.
Patient(d, w) ==
  /\ \E u \in d.sent : d.out[u] <= d.adm[w]
  /\ \A u \in d.sent : d.out[u] < d.out[w] =>
       d.adm[u] <= d.adm[w] /\ (d.adm[w] < d.out[u] => \E v \in d.sent : d.end[v] = d.out[u])

Roomy(d, t) == \A s \in 0..End : s < t => Cardinality(Staying(d, s)) <= replay.queue
Filled(d, t) == \A s \in d.drops : s \in Nat /\ s <= t /\ s < End /\ Cardinality(Blocking(d, s)) >= replay.queue

IsDevice(d, t) ==
  Timed(d, t) /\ InTurn(d) /\ (\A w \in d.rested : Patient(d, w)) /\ Roomy(d, t) /\ Filled(d, t)

WaitingAt(d) == {w \in d.rested : d.out[w] = End + 1}

LEMMA StayingFinite ==
  ASSUME NEW d, NEW t, Timed(d, t), NEW s
  PROVE  /\ IsFiniteSet(Staying(d, s)) /\ Cardinality(Staying(d, s)) \in Nat
         /\ IsFiniteSet(Blocking(d, s)) /\ Cardinality(Blocking(d, s)) \in Nat
         /\ IsFiniteSet(WaitingAt(d)) /\ Cardinality(WaitingAt(d)) \in Nat
  <1>1. Staying(d, s) \subseteq d.sent \union d.rested /\ Blocking(d, s) \subseteq d.sent \union d.rested
        /\ WaitingAt(d) \subseteq d.sent \union d.rested
    BY DEF Staying, Blocking, WaitingAt
  <1>2. IsFiniteSet(d.sent \union d.rested)
    BY DEF Timed
  <1> QED
    BY <1>1, <1>2, FS_Subset, FS_CardinalityType

\* A tick passes.
LEMMA DeviceTicks ==
  ASSUME Chosen, NEW d, NEW t \in Nat, IsDevice(d, t), Cardinality(WaitingAt(d)) <= replay.queue
  PROVE  IsDevice(d, t + 1)
  <1>1. Timed(d, t + 1)
    BY SMTT(30) DEF IsDevice, Timed
  <1>2. Filled(d, t + 1)
    BY DEF IsDevice, Filled
  <1>3. Roomy(d, t + 1)
    <2> SUFFICES ASSUME NEW s \in 0..End, s < t + 1 PROVE Cardinality(Staying(d, s)) <= replay.queue
      BY DEF Roomy
    <2>1. CASE s < t
      BY <2>1 DEF IsDevice, Roomy
    <2>2. CASE s = t
      <3>1. End \in Nat
        BY ReplayIs
      <3>2. Staying(d, s) = WaitingAt(d)
        BY <2>2, <3>1 DEF IsDevice, Timed, Staying, WaitingAt
      <3> QED
        BY <3>2
    <2>3. End \in Nat
      BY ReplayIs
    <2> QED
      BY <2>1, <2>2, <2>3
  <1> QED
    BY <1>1, <1>2, <1>3 DEF IsDevice

\* A packet is admitted to the queue of a busy device.
LEMMA DeviceQueues ==
  ASSUME Chosen, NEW d, NEW c, NEW t \in Nat, IsDevice(d, t), NEW w, w \notin d.sent \union d.rested, t < End,
         c.sent = d.sent, c.rested = d.rested \union {w}, c.drops = d.drops,
         \A v \in d.sent \union d.rested : c.adm[v] = d.adm[v] /\ c.out[v] = d.out[v],
         \A v \in d.sent : c.end[v] = d.end[v],
         c.adm[w] = t, c.out[w] = End + 1,
         \E u \in d.sent : d.end[u] >= t
  PROVE  IsDevice(c, t)
  <1>0. End \in Nat
    BY ReplayIs
  <1>1. Timed(c, t)
    <2>1. IsFiniteSet(d.sent \union d.rested)
      BY DEF IsDevice, Timed
    <2>2. c.sent \union c.rested = (d.sent \union d.rested) \union {w}
      OBVIOUS
    <2>3. IsFiniteSet(c.sent \union c.rested)
      BY <2>1, <2>2, FS_AddElement
    <2>4. c.sent \intersect c.rested = {}
      BY DEF IsDevice, Timed
    <2>5. \A v \in c.sent \union c.rested : c.adm[v] \in Nat /\ c.adm[v] <= t /\ c.adm[v] < End /\ c.out[v] \in Nat
      BY <1>0 DEF IsDevice, Timed
    <2>6. \A v \in c.sent : c.end[v] \in Nat /\ c.adm[v] <= c.out[v] /\ c.out[v] < c.end[v] /\ c.out[v] <= t /\ c.out[v] < End
      BY DEF IsDevice, Timed
    <2>7. ASSUME NEW v \in c.rested
          PROVE  \/ c.out[v] = End + 1
                 \/ /\ c.adm[v] < c.out[v] /\ c.out[v] <= t /\ c.out[v] <= End
                    /\ \E x \in c.sent : c.out[x] < c.out[v] /\ c.out[v] <= c.end[x]
      <3>1. CASE v = w
        BY <3>1
      <3>2. CASE v \in d.rested
        BY <3>2 DEF IsDevice, Timed
      <3> QED
        BY <3>1, <3>2
    <2> QED
      BY <2>3, <2>4, <2>5, <2>6, <2>7 DEF Timed
  <1>2. InTurn(c)
    BY DEF IsDevice, InTurn
  <1>3. ASSUME NEW v \in c.rested PROVE Patient(c, v)
    <2>1. CASE v = w
      <3>1. \A u \in d.sent : d.out[u] <= t /\ d.adm[u] <= t
        BY DEF IsDevice, Timed
      <3>2. \A u \in c.sent : c.out[u] <= c.adm[v] /\ c.adm[u] <= c.adm[v] /\ ~(c.adm[v] < c.out[u])
        BY <2>1, <3>1 DEF IsDevice, Timed
      <3> QED
        BY <3>2 DEF Patient
    <2>2. CASE v \in d.rested
      <3>1. Patient(d, v)
        BY <2>2 DEF IsDevice
      <3> QED
        BY <2>2, <3>1 DEF Patient
    <2> QED
      BY <2>1, <2>2
  <1>4. Roomy(c, t)
    <2> SUFFICES ASSUME NEW s \in 0..End, s < t PROVE Cardinality(Staying(c, s)) <= replay.queue
      BY DEF Roomy
    <2>1. Staying(c, s) = Staying(d, s)
      BY <1>0 DEF Staying
    <2> QED
      BY <2>1 DEF IsDevice, Roomy
  <1>5. Filled(c, t)
    <2> SUFFICES ASSUME NEW s \in d.drops
                 PROVE  s \in Nat /\ s <= t /\ s < End /\ Cardinality(Blocking(c, s)) >= replay.queue
      BY DEF Filled
    <2>1. s \in Nat /\ s <= t /\ s < End /\ Cardinality(Blocking(d, s)) >= replay.queue
      BY DEF IsDevice, Filled
    <2>2. Blocking(d, s) \subseteq Blocking(c, s)
      BY DEF Blocking
    <2>3. /\ IsFiniteSet(Blocking(c, s)) /\ Cardinality(Blocking(c, s)) \in Nat
          /\ Cardinality(Blocking(d, s)) \in Nat
      BY <1>1, StayingFinite DEF IsDevice
    <2>4. Cardinality(Blocking(d, s)) <= Cardinality(Blocking(c, s))
      BY <2>2, <2>3, FS_Subset
    <2>5. replay.queue \in Nat
      BY NetworkReplayAssumption DEF NetworkReplayAssumption, Chosen
    <2> QED
      BY <2>1, <2>3, <2>4, <2>5
  <1> QED
    BY <1>1, <1>2, <1>3, <1>4, <1>5 DEF IsDevice

\* More visits block, or the same.
LEMMA FilledMore ==
  ASSUME Chosen, NEW d, NEW c, NEW t \in Nat, IsDevice(d, t), Timed(c, t), c.drops = d.drops,
         \A s \in d.drops : Blocking(d, s) \subseteq Blocking(c, s)
  PROVE  Filled(c, t)
  <1> SUFFICES ASSUME NEW s \in d.drops
               PROVE  s \in Nat /\ s <= t /\ s < End /\ Cardinality(Blocking(c, s)) >= replay.queue
    BY DEF Filled
  <1>1. s \in Nat /\ s <= t /\ s < End /\ Cardinality(Blocking(d, s)) >= replay.queue
    BY DEF IsDevice, Filled
  <1>2. Blocking(d, s) \subseteq Blocking(c, s)
    OBVIOUS
  <1>3. /\ IsFiniteSet(Blocking(c, s)) /\ Cardinality(Blocking(c, s)) \in Nat
        /\ Cardinality(Blocking(d, s)) \in Nat
    BY StayingFinite DEF IsDevice
  <1>4. Cardinality(Blocking(d, s)) <= Cardinality(Blocking(c, s))
    BY <1>2, <1>3, FS_Subset
  <1>5. replay.queue \in Nat
    BY NetworkReplayAssumption DEF NetworkReplayAssumption, Chosen
  <1> QED
    BY <1>1, <1>3, <1>4, <1>5

\* A packet finds the queue full.
LEMMA DeviceDrops ==
  ASSUME Chosen, NEW d, NEW c, NEW t \in Nat, IsDevice(d, t), t < End,
         c.sent = d.sent, c.rested = d.rested, c.drops = d.drops \union {t},
         \A v \in d.sent \union d.rested : c.adm[v] = d.adm[v] /\ c.out[v] = d.out[v],
         \A v \in d.sent : c.end[v] = d.end[v],
         Cardinality(WaitingAt(d)) >= replay.queue
  PROVE  IsDevice(c, t)
  <1>0. End \in Nat /\ replay.queue \in Nat
    BY ReplayIs, NetworkReplayAssumption DEF NetworkReplayAssumption, Chosen
  <1>1. Timed(c, t)
    BY SMTT(30) DEF IsDevice, Timed
  <1>2. InTurn(c)
    BY DEF IsDevice, InTurn
  <1>3. \A v \in c.rested : Patient(c, v)
    BY SMTT(30) DEF IsDevice, Patient
  <1>4. \A s : Staying(c, s) = Staying(d, s)
    BY DEF Staying
  <1>5. Roomy(c, t)
    BY <1>4 DEF IsDevice, Roomy
  <1>6. \A s : Blocking(c, s) = Blocking(d, s)
    BY DEF Blocking
  <1>7. Cardinality(Blocking(d, t)) >= replay.queue
    <2>1. WaitingAt(d) \subseteq Blocking(d, t)
      BY <1>0 DEF WaitingAt, Blocking, IsDevice, Timed
    <2>2. /\ IsFiniteSet(Blocking(d, t)) /\ Cardinality(Blocking(d, t)) \in Nat
          /\ Cardinality(WaitingAt(d)) \in Nat
      BY StayingFinite DEF IsDevice
    <2>3. Cardinality(WaitingAt(d)) <= Cardinality(Blocking(d, t))
      BY <2>1, <2>2, FS_Subset
    <2> QED
      BY <1>0, <2>2, <2>3
  <1>8. Filled(c, t)
    BY <1>6, <1>7 DEF IsDevice, Filled
  <1> QED
    BY <1>1, <1>2, <1>3, <1>5, <1>8 DEF IsDevice

\* The device's link goes, or the window ends: who waits is dropped.
LEMMA DeviceFlushes ==
  ASSUME Chosen, NEW d, NEW c, NEW t \in Nat, IsDevice(d, t), t <= End,
         c.sent = d.sent, c.rested = d.rested, c.drops = d.drops,
         \A v \in d.sent \union d.rested : c.adm[v] = d.adm[v],
         \A v \in d.sent : c.end[v] = d.end[v] /\ c.out[v] = d.out[v] /\ d.out[v] < t,
         \A w \in d.rested : c.out[w] = IF d.out[w] = End + 1 THEN t ELSE d.out[w],
         \A w \in WaitingAt(d) : d.adm[w] < t,
         WaitingAt(d) # {} => \E x \in d.sent : d.end[x] >= t,
         \A s \in d.drops : s < t
  PROVE  IsDevice(c, t)
  <1>0. End \in Nat
    BY ReplayIs
  <1>1. Timed(c, t)
    <2>1. IsFiniteSet(c.sent \union c.rested) /\ c.sent \intersect c.rested = {}
      BY DEF IsDevice, Timed
    <2>2. \A v \in c.sent \union c.rested : c.adm[v] \in Nat /\ c.adm[v] <= t /\ c.adm[v] < End /\ c.out[v] \in Nat
      BY DEF IsDevice, Timed
    <2>3. \A v \in c.sent : c.end[v] \in Nat /\ c.adm[v] <= c.out[v] /\ c.out[v] < c.end[v] /\ c.out[v] <= t /\ c.out[v] < End
      BY DEF IsDevice, Timed
    <2>4. ASSUME NEW w \in c.rested
          PROVE  /\ c.adm[w] < c.out[w] /\ c.out[w] <= t /\ c.out[w] <= End
                 /\ \E x \in c.sent : c.out[x] < c.out[w] /\ c.out[w] <= c.end[x]
      <3>1. CASE d.out[w] = End + 1
        <4>1. w \in WaitingAt(d)
          BY <3>1 DEF WaitingAt
        <4>2. PICK x \in d.sent : d.end[x] >= t
          BY <4>1
        <4> QED
          BY <3>1, <4>1, <4>2 DEF IsDevice, Timed
      <3>2. CASE d.out[w] # End + 1
        BY <3>2 DEF IsDevice, Timed
      <3> QED
        BY <3>1, <3>2
    <2> QED
      BY <2>1, <2>2, <2>3, <2>4 DEF Timed
  <1>2. InTurn(c)
    BY DEF IsDevice, InTurn
  <1>3. ASSUME NEW w \in c.rested PROVE Patient(c, w)
    <2>1. Patient(d, w)
      BY DEF IsDevice
    <2>2. \A u \in d.sent : c.out[u] < c.out[w] => d.out[u] < d.out[w]
      BY <1>0 DEF IsDevice, Timed
    <2> QED
      BY <2>1, <2>2 DEF Patient
  <1>4. Roomy(c, t)
    <2> SUFFICES ASSUME NEW s \in 0..End, s < t PROVE Cardinality(Staying(c, s)) <= replay.queue
      BY DEF Roomy
    <2>1. Staying(c, s) = Staying(d, s)
      <3>1. \A v \in d.sent \union d.rested : s < c.out[v] <=> s < d.out[v]
        BY <1>0 DEF IsDevice, Timed
      <3> QED
        BY <3>1 DEF Staying
    <2> QED
      BY <2>1 DEF IsDevice, Roomy
  <1>5. Filled(c, t)
    <2>1. ASSUME NEW s \in d.drops PROVE Blocking(d, s) \subseteq Blocking(c, s)
      <3>1. s < t
        OBVIOUS
      <3>2. \A v \in d.sent \union d.rested : s < d.out[v] => s < c.out[v]
        BY <3>1 DEF IsDevice, Timed
      <3> QED
        BY <3>2 DEF Blocking
    <2> QED
      BY <1>1, <2>1, FilledMore
  <1> QED
    BY <1>1, <1>2, <1>3, <1>4, <1>5 DEF IsDevice

\* A packet is sent: on an idle device as it comes, or from the head of the queue when another has been sent.
Sends(d, c, v0, a, t) ==
  /\ t < End /\ a \in Nat /\ a <= t /\ v0 \notin d.sent
  /\ c.sent = d.sent \union {v0} /\ c.rested = d.rested \ {v0} /\ c.drops = d.drops
  /\ \A v \in d.sent \union d.rested : c.adm[v] = d.adm[v] /\ (v # v0 => c.out[v] = d.out[v])
  /\ \A v \in d.sent : c.end[v] = d.end[v]
  /\ c.adm[v0] = a /\ c.out[v0] = t /\ c.end[v0] \in Nat /\ c.end[v0] > t
  /\ \A u \in d.sent : d.end[u] <= t /\ d.adm[u] <= a
  /\ \A w \in WaitingAt(d) : a <= d.adm[w]
  /\ \/ v0 \notin d.rested /\ a = t /\ WaitingAt(d) = {}
     \/ v0 \in WaitingAt(d) /\ \E u \in d.sent : d.end[u] = t

LEMMA DeviceSends ==
  ASSUME Chosen, NEW d, NEW c, NEW t \in Nat, IsDevice(d, t), NEW v0, NEW a, Sends(d, c, v0, a, t)
  PROVE  IsDevice(c, t)
  <1> USE DEF Sends
  <1>0. End \in Nat
    BY ReplayIs
  <1>1. c.sent \union c.rested = (d.sent \union d.rested) \union {v0}
    OBVIOUS
  <1>2. Timed(c, t)
    <2>1. IsFiniteSet(c.sent \union c.rested)
      BY <1>1, FS_AddElement DEF IsDevice, Timed
    <2>2. c.sent \intersect c.rested = {}
      BY DEF IsDevice, Timed
    <2>3. \A v \in c.sent \union c.rested : c.adm[v] \in Nat /\ c.adm[v] <= t /\ c.adm[v] < End /\ c.out[v] \in Nat
      <3> TAKE v \in c.sent \union c.rested
      <3>1. CASE v = v0
        BY <3>1, <1>0
      <3>2. CASE v # v0
        BY <3>2, <1>1 DEF IsDevice, Timed
      <3> QED
        BY <3>1, <3>2
    <2>4. \A v \in c.sent : c.end[v] \in Nat /\ c.adm[v] <= c.out[v] /\ c.out[v] < c.end[v] /\ c.out[v] <= t /\ c.out[v] < End
      <3> TAKE v \in c.sent
      <3>1. CASE v = v0
        BY <3>1, <1>0
      <3>2. CASE v # v0
        BY <3>2 DEF IsDevice, Timed
      <3> QED
        BY <3>1, <3>2
    <2>5. \A w \in c.rested : \/ c.out[w] = End + 1
                              \/ /\ c.adm[w] < c.out[w] /\ c.out[w] <= t /\ c.out[w] <= End
                                 /\ \E x \in c.sent : c.out[x] < c.out[w] /\ c.out[w] <= c.end[x]
      <3> TAKE w \in c.rested
      <3>1. w \in d.rested /\ w # v0 /\ \A x \in d.sent : x # v0
        OBVIOUS
      <3>2. \A x \in d.sent : c.out[x] = d.out[x] /\ c.end[x] = d.end[x]
        BY <3>1
      <3> QED
        BY <3>1, <3>2 DEF IsDevice, Timed
    <2> QED
      BY <2>1, <2>2, <2>3, <2>4, <2>5 DEF Timed
  <1>3. \A u \in d.sent : /\ u # v0 /\ c.out[u] = d.out[u] /\ c.end[u] = d.end[u] /\ c.adm[u] = d.adm[u]
                          /\ d.out[u] < d.end[u] /\ d.out[u] < t /\ d.out[u] \in Nat /\ d.end[u] \in Nat
    BY DEF IsDevice, Timed
  <1>4. InTurn(c)
    <2>1. \A u, v \in c.sent : u = v \/ c.end[u] <= c.out[v] \/ c.end[v] <= c.out[u]
      BY <1>3 DEF IsDevice, InTurn
    <2>2. \A u, v \in c.sent : c.out[u] < c.out[v] => c.adm[u] <= c.adm[v]
      <3> SUFFICES ASSUME NEW u \in c.sent, NEW v \in c.sent, c.out[u] < c.out[v] PROVE c.adm[u] <= c.adm[v]
        OBVIOUS
      <3>1. CASE u \in d.sent /\ v \in d.sent
        BY <1>3, <3>1 DEF IsDevice, InTurn
      <3>2. CASE u \in d.sent /\ v = v0
        BY <3>2
      <3>3. CASE u = v0
        BY <1>3, <3>3
      <3> QED
        BY <3>1, <3>2, <3>3
    <2>3. ASSUME NEW u \in c.sent PROVE c.out[u] = c.adm[u] \/ \E v \in c.sent : c.end[v] = c.out[u]
      <3>1. CASE u = v0
        BY <1>3, <3>1
      <3>2. CASE u \in d.sent
        BY <1>3, <3>2 DEF IsDevice, InTurn
      <3> QED
        BY <3>1, <3>2
    <2> QED
      BY <2>1, <2>2, <2>3 DEF InTurn
  <1>5. ASSUME NEW w \in c.rested PROVE Patient(c, w)
    <2>1. w \in d.rested /\ w # v0 /\ Patient(d, w) /\ c.out[w] = d.out[w] /\ c.adm[w] = d.adm[w]
      BY DEF IsDevice
    <2>2. \E u \in c.sent : c.out[u] <= c.adm[w]
      BY <1>3, <2>1 DEF Patient
    <2>3. ASSUME NEW u \in c.sent, c.out[u] < c.out[w]
          PROVE  c.adm[u] <= c.adm[w] /\ (c.adm[w] < c.out[u] => \E v \in c.sent : c.end[v] = c.out[u])
      <3>1. CASE u \in d.sent
        BY <1>3, <2>1, <2>3, <3>1 DEF Patient
      <3>2. CASE u = v0
        <4>1. w \in WaitingAt(d)
          BY <2>1, <2>3, <3>2 DEF IsDevice, Timed, WaitingAt
        <4> QED
          BY <1>3, <2>1, <3>2, <4>1
      <3> QED
        BY <3>1, <3>2
    <2> QED
      BY <2>2, <2>3 DEF Patient
  <1>6. Roomy(c, t)
    <2> SUFFICES ASSUME NEW s \in 0..End, s < t PROVE Cardinality(Staying(c, s)) <= replay.queue
      BY DEF Roomy
    <2>1. ASSUME NEW v PROVE v \in Staying(c, s) <=> v \in Staying(d, s)
      <3>1. CASE v = v0
        BY <1>0, <1>1, <3>1 DEF Staying, WaitingAt
      <3>2. CASE v # v0
        BY <1>1, <3>2 DEF Staying
      <3> QED
        BY <3>1, <3>2
    <2>2. Staying(c, s) = Staying(d, s)
      BY <2>1
    <2> QED
      BY <2>2 DEF IsDevice, Roomy
  <1>7. Filled(c, t)
    <2>1. ASSUME NEW s \in d.drops, NEW v \in Blocking(d, s) PROVE v \in Blocking(c, s)
      <3>1. s \in Nat /\ s <= t
        BY DEF IsDevice, Filled
      <3>2. CASE v = v0
        <4>1. v0 \in WaitingAt(d) /\ d.adm[v0] = a
          BY <3>2 DEF Blocking
        <4>2. PICK u \in d.sent : d.end[u] = t
          BY <4>1 DEF WaitingAt
        <4>3. a <= s
          BY <3>2, <4>1 DEF Blocking
        <4> QED
          BY <1>1, <1>3, <3>1, <3>2, <4>2, <4>3 DEF Blocking
      <3>3. CASE v # v0
        BY <1>1, <1>3, <3>3 DEF Blocking
      <3> QED
        BY <3>2, <3>3
    <2>2. \A s \in d.drops : Blocking(d, s) \subseteq Blocking(c, s)
      BY <2>1
    <2> QED
      BY <1>2, <2>2, FilledMore
  <1> QED
    BY <1>2, <1>4, <1>5, <1>6, <1>7 DEF IsDevice

\* What holds of a device's history once nobody waits, of the services and of those who left, as the parser has them.
Recorded(d, t, f, served, left) ==
  /\ IsDevice(d, t) /\ t > End /\ WaitingAt(d) = {}
  /\ \A v \in d.sent : d.end[v] <= t
  /\ served = {f[v] : v \in d.sent}
  /\ {w \in left : w.status # "queue_drop"} = {f[v] : v \in d.rested}
  /\ \A v \in d.sent \union d.rested : f[v].admitted = d.adm[v]
  /\ \A v \in d.sent : f[v].tx = d.out[v] /\ f[v].end = d.end[v]
  /\ \A v \in d.rested : f[v].tx = None /\ f[v].end = d.out[v]
  /\ \A u, v \in d.rested : f[u] = f[v] => u = v
  /\ \A w \in left : w.status = "queue_drop" => w.admitted \in d.drops

LEMMA RecordsInOrder ==
  ASSUME Chosen, NEW d, NEW t \in Nat, NEW f, NEW served, NEW left, Recorded(d, t, f, served, left)
  PROVE  InOrderOfAdmission(served)
  <1> USE DEF Recorded
  <1> SUFFICES ASSUME NEW s \in served
               PROVE  LET earlier == {q \in served : q.tx < s.tx}
                          busy == Max({0} \union {q.end : q \in earlier})
                      IN /\ \A q \in earlier : q.admitted <= s.admitted
                         /\ s.tx - Max({s.admitted, busy}) \in -1..1
    BY DEF InOrderOfAdmission
  <1> DEFINE earlier == {q \in served : q.tx < s.tx}
             T == {0} \union {q.end : q \in earlier}
             busy == Max(T)
  <1>1. PICK v \in d.sent : s = f[v]
    OBVIOUS
  <1>2. /\ s.tx = d.out[v] /\ s.admitted = d.adm[v] /\ d.out[v] \in Nat /\ d.adm[v] \in Nat
        /\ d.adm[v] <= d.out[v]
    BY <1>1 DEF IsDevice, Timed
  <1>3. ASSUME NEW q \in earlier
        PROVE  q.admitted <= s.admitted /\ q.end \in Nat /\ q.end <= d.out[v]
    <2>1. PICK u \in d.sent : q = f[u] /\ d.out[u] < d.out[v]
      BY <1>2
    <2>2. d.adm[u] <= d.adm[v] /\ (u = v \/ d.end[u] <= d.out[v] \/ d.end[v] <= d.out[u])
      BY <2>1 DEF IsDevice, InTurn
    <2>3. d.end[u] \in Nat /\ d.end[v] \in Nat /\ d.out[u] \in Nat /\ d.out[v] < d.end[v]
      BY DEF IsDevice, Timed
    <2> QED
      BY <1>2, <2>1, <2>2, <2>3
  <1>4. busy \in T /\ \A y \in T : y <= busy
    <2>1. (\A x \in T : x \in Int /\ x <= d.out[v]) /\ T # {} /\ d.out[v] \in Int
      BY <1>2, <1>3
    <2> HIDE DEF T
    <2> QED
      BY <2>1, MaxIs
  <1>5. busy \in Nat /\ busy <= d.out[v]
    BY <1>2, <1>3, <1>4
  <1>6. d.out[v] = d.adm[v] \/ busy = d.out[v]
    <2> SUFFICES ASSUME d.out[v] # d.adm[v] PROVE busy = d.out[v]
      OBVIOUS
    <2>1. PICK u \in d.sent : d.end[u] = d.out[v]
      BY DEF IsDevice, InTurn
    <2>2. d.out[u] < d.end[u]
      BY DEF IsDevice, Timed
    <2>3. f[u] \in earlier /\ f[u].end = d.out[v]
      BY <1>2, <2>1, <2>2
    <2>4. d.out[v] <= busy
      BY <1>4, <2>3
    <2> HIDE DEF busy
    <2> QED
      BY <1>2, <1>5, <2>4
  <1>7. Max({s.admitted, busy}) = d.out[v]
    <2> HIDE DEF busy
    <2>1. d.out[v] \in {s.admitted, busy}
      BY <1>2, <1>6
    <2>2. \A x \in {s.admitted, busy} : x \in Int /\ x <= d.out[v]
      BY <1>2, <1>5
    <2> QED
      BY <2>1, <2>2, MaxOf
  <1> QED
    BY <1>2, <1>3, <1>7

LEMMA RecordsWaited ==
  ASSUME Chosen, NEW d, NEW t \in Nat, NEW f, NEW served, NEW left, Recorded(d, t, f, served, left),
         NEW w \in left, w.status # "queue_drop"
  PROVE  Waited(served, w)
  <1> USE DEF Recorded
  <1>1. PICK r \in d.rested : w = f[r]
    OBVIOUS
  <1>2. w.admitted = d.adm[r] /\ w.end = d.out[r]
    BY <1>1
  <1>3. /\ d.adm[r] \in Nat /\ d.out[r] \in Nat /\ d.adm[r] < d.out[r]
        /\ \E x \in d.sent : d.out[x] < d.out[r] /\ d.out[r] <= d.end[x]
    BY DEF IsDevice, Timed, WaitingAt
  <1>4. PICK x \in d.sent : d.out[x] < d.out[r] /\ d.out[r] <= d.end[x]
    BY <1>3
  <1>5. Patient(d, r)
    BY DEF IsDevice
  <1>6. \A u \in d.sent : d.out[u] \in Nat /\ d.end[u] \in Nat /\ d.out[u] < d.end[u]
    BY DEF IsDevice, Timed
  <1> DEFINE first(s) == \A q \in served : q.tx < s.tx => s.tx > q.end + 1
             begins == {s.tx : s \in {p \in served : first(p)}}
             a == w.admitted
             B == {b \in begins : b <= a}
             begin == Max(B)
             R == {p \in served : p.tx >= begin /\ \A b \in begins : b > begin => p.tx < b}
             ends == {s.end : s \in R}
  <1>7. \A b \in begins : \E y \in d.sent :
          b = d.out[y] /\ \A u \in d.sent : d.out[u] < b => b > d.end[u] + 1
    <2> TAKE b \in begins
    <2>1. PICK s \in served : b = s.tx /\ first(s)
      OBVIOUS
    <2>2. PICK y \in d.sent : s = f[y]
      OBVIOUS
    <2>3. ASSUME NEW u \in d.sent, d.out[u] < b PROVE b > d.end[u] + 1
      <3>1. f[u] \in served /\ f[u].tx = d.out[u] /\ f[u].end = d.end[u]
        OBVIOUS
      <3> QED
        BY <2>1, <2>3, <3>1
    <2> QED
      BY <2>1, <2>2, <2>3
  <1>8. \E b \in begins : b <= a
    <2> DEFINE T == {d.out[u] : u \in d.sent}
    <2>1. PICK u \in d.sent : d.out[u] <= a
      BY <1>2, <1>5 DEF Patient
    <2>2. PICK b \in T : \A n \in T : b <= n
      <3>1. (\A n \in T : n \in Nat) /\ T # {}
        BY <1>6
      <3> HIDE DEF T
      <3> QED
        BY <3>1, LeastNatural
    <2>3. PICK y \in d.sent : b = d.out[y]
      BY <2>2
    <2>4. f[y] \in served /\ f[y].tx = b
      BY <2>3
    <2>5. \A q \in served : q.tx \in Nat /\ b <= q.tx
      BY <1>6, <2>2
    <2>6. first(f[y])
      BY <1>6, <2>3, <2>4, <2>5
    <2>7. b \in begins
      BY <2>4, <2>6
    <2>8. b <= d.out[u]
      BY <2>2
    <2>9. b <= a
      BY <1>2, <1>3, <1>6, <2>1, <2>3, <2>8
    <2> QED
      BY <2>7, <2>9
  <1>9. \A b \in begins : b \in Nat
    BY <1>6, <1>7
  <1> HIDE DEF first, begins
  <1>10. begin \in B /\ \A b \in B : b <= begin
    <2>1. (\A b \in B : b \in Int /\ b <= a) /\ a \in Int /\ B # {}
      BY <1>2, <1>3, <1>8, <1>9
    <2> HIDE DEF B, a
    <2> QED
      BY <2>1, MaxIs
  <1> HIDE DEF begin
  <1>11. begin \in begins /\ begin <= d.adm[r] /\ \A b \in begins : b <= d.adm[r] => b <= begin
    BY <1>2, <1>10
  <1>12. d.out[x] >= begin
    <2>1. PICK y \in d.sent : begin = d.out[y]
      BY <1>7, <1>11
    <2>2. x = y \/ d.end[x] <= d.out[y] \/ d.end[y] <= d.out[x]
      BY DEF IsDevice, InTurn
    <2> QED
      BY <1>3, <1>4, <1>6, <1>11, <2>1, <2>2
  <1>13. ASSUME NEW b \in begins, b > begin PROVE d.out[x] < b
    <2> SUFFICES ASSUME b <= d.out[x] PROVE FALSE
      BY <1>6, <1>9
    <2>1. PICK y \in d.sent : b = d.out[y] /\ \A u \in d.sent : d.out[u] < b => b > d.end[u] + 1
      BY <1>7
    <2>2. d.adm[r] < b /\ b < d.out[r]
      BY <1>3, <1>4, <1>6, <1>9, <1>11, <1>13
    <2>3. PICK v \in d.sent : d.end[v] = b
      BY <1>5, <2>1, <2>2 DEF Patient
    <2> QED
      BY <1>6, <2>1, <2>3
  <1>14. f[x] \in R /\ f[x].end = d.end[x]
    BY <1>12, <1>13
  <1>15. Max(ends) \in ends /\ \A y \in ends : y <= Max(ends)
    <2>1. (\A y \in ends : y \in Int /\ y <= t) /\ ends # {}
      BY <1>6, <1>14
    <2> HIDE DEF ends
    <2> QED
      BY <2>1, MaxIs
  <1>16. RunEnd(served, w.admitted) = Max(ends)
    <2>1. ~\A b \in begins : b > a
      BY <1>2, <1>3, <1>8, <1>9
    <2> QED
      BY <2>1 DEF RunEnd, begins, first, begin
  <1>17. Max(ends) \in Nat /\ Max(ends) >= d.out[r]
    <2>1. \A y \in ends : y \in Nat
      BY <1>6
    <2>2. d.end[x] \in ends
      BY <1>14
    <2> HIDE DEF ends
    <2> QED
      BY <1>3, <1>4, <1>6, <1>15, <2>1, <2>2
  <1>18. ~\E s \in served : s.admitted > w.admitted /\ s.tx < w.end
    <2> SUFFICES ASSUME NEW u \in d.sent, d.adm[u] > d.adm[r], d.out[u] < d.out[r] PROVE FALSE
      BY <1>2
    <2>1. d.adm[u] <= d.adm[r]
      BY <1>5 DEF Patient
    <2>2. d.adm[u] \in Nat
      BY DEF IsDevice, Timed
    <2> QED
      BY <1>3, <2>1, <2>2
  <1> HIDE DEF ends
  <1> QED
    BY <1>2, <1>3, <1>16, <1>17, <1>18 DEF Waited, None

\* A function that tells the elements of a finite set apart counts them.
LEMMA Counted ==
  ASSUME NEW f, NEW K, IsFiniteSet(K), \A u, v \in K : f[u] = f[v] => u = v
  PROVE  /\ IsFiniteSet({f[v] : v \in K})
         /\ Cardinality({f[v] : v \in K}) = Cardinality(K) /\ Cardinality(K) \in Nat
  <1> DEFINE T == {f[v] : v \in K}
             g == [v \in K |-> f[v]]
  <1>1. g \in [K -> T]
    OBVIOUS
  <1>2. \A u, v \in K : g[u] = g[v] => u = v
    OBVIOUS
  <1>3. \A y \in T : \E v \in K : g[v] = y
    OBVIOUS
  <1>4. g \in Bijection(K, T)
    <2> HIDE DEF T, g
    <2>1. IsInjective(g)
      BY <1>1, <1>2 DEF IsInjective
    <2> QED
      BY <1>1, <1>3, <2>1 DEF Bijection, Injection, Surjection
  <1>5. ExistsBijection(K, T)
    <2> HIDE DEF T, g
    <2> QED
      BY <1>4 DEF ExistsBijection
  <1> HIDE DEF T
  <1>6. IsFiniteSet(T) /\ Cardinality(T) = Cardinality(K)
    BY <1>5, FS_Bijection
  <1> QED
    BY <1>6, FS_CardinalityType DEF T

\* The difference of two counts.
LEMMA CountedLess ==
  ASSUME NEW S, IsFiniteSet(S), NEW T, T \subseteq S
  PROVE  /\ Cardinality(S) - Cardinality(T) = Cardinality(S \ T)
         /\ Cardinality(S) \in Nat /\ Cardinality(T) \in Nat /\ Cardinality(S \ T) \in Nat
  <1>1. S \cap T = T
    OBVIOUS
  <1>2. IsFiniteSet(T) /\ IsFiniteSet(S \ T)
    BY FS_Subset
  <1>3. Cardinality(S \ T) = Cardinality(S) - Cardinality(T)
    BY <1>1, FS_Difference
  <1>4. Cardinality(S) \in Nat /\ Cardinality(T) \in Nat /\ Cardinality(S \ T) \in Nat
    BY <1>2, FS_CardinalityType
  <1> QED
    BY <1>3, <1>4

\* A set covered by two others has no more elements than both.
LEMMA CountedBoth ==
  ASSUME NEW S, IsFiniteSet(S), NEW T, IsFiniteSet(T), NEW U, U \subseteq S \union T
  PROVE  Cardinality(U) \in Nat /\ Cardinality(U) <= Cardinality(S) + Cardinality(T)
  <1>1. IsFiniteSet(S \union T) /\ IsFiniteSet(S \cap T)
    BY FS_Union, FS_Intersection
  <1>2. Cardinality(S \union T) = Cardinality(S) + Cardinality(T) - Cardinality(S \cap T)
    BY FS_Union
  <1>3. /\ Cardinality(S) \in Nat /\ Cardinality(T) \in Nat
        /\ Cardinality(S \union T) \in Nat /\ Cardinality(S \cap T) \in Nat
    BY <1>1, FS_CardinalityType
  <1>4. IsFiniteSet(U) /\ Cardinality(U) <= Cardinality(S \union T)
    BY <1>1, FS_Subset
  <1>5. Cardinality(U) \in Nat
    BY <1>4, FS_CardinalityType
  <1> QED
    BY <1>2, <1>3, <1>4, <1>5

\* The queue's length after a tick, and before a packet is dropped.
LEMMA RecordsFit ==
  ASSUME Chosen, NEW d, NEW t \in Nat, NEW f, NEW served, NEW left, Recorded(d, t, f, served, left)
  PROVE  WithinCapacity(served, left)
  <1> DEFINE V == d.sent \union d.rested
             K == {v \in d.sent : d.out[v] # d.adm[v]} \union d.rested
             queued == {s \in served : s.tx # s.admitted} \union {w \in left : w.status # "queue_drop"}
             leaves(q) == IF q.tx = None THEN q.end ELSE q.tx
             drops == {w.admitted : w \in {v \in left : v.status = "queue_drop"}}
             times == drops \union {q.admitted : q \in queued} \union {leaves(q) : q \in queued}
             before(s) == Cardinality({q \in queued : q.admitted < s}) - Cardinality({q \in queued : leaves(q) < s})
             after(s) == Cardinality({q \in queued : q.admitted <= s}) - Cardinality({q \in queued : leaves(q) <= s})
             instant(s) == Cardinality({q \in served : q.tx = s /\ q.admitted = s})
             ending(s) == \E q \in served : q.end = s /\ \A p \in served : p.tx < s => p.tx <= q.tx
             gone(s) == Cardinality({q \in queued : q.tx = None /\ q.end = s})
             come(s) == Cardinality({q \in queued : q.admitted = s})
             upper(s) == before(s) - gone(s) + come(s) + (IF ending(s) THEN instant(s) ELSE 0)
  <1>0. End \in Nat /\ replay.queue \in Nat
    BY ReplayIs, NetworkReplayAssumption DEF NetworkReplayAssumption, Chosen
  <1>1. /\ IsFiniteSet(V) /\ K \subseteq V
        /\ \A v \in V : d.adm[v] \in Nat /\ d.out[v] \in Nat /\ d.adm[v] <= d.out[v] /\ d.adm[v] < End /\ d.out[v] <= End
        /\ \A v \in d.rested : d.adm[v] < d.out[v]
        /\ \A v \in K : d.adm[v] < d.out[v]
        /\ \A v \in d.sent : d.end[v] \in Nat /\ d.out[v] < d.end[v]
        /\ d.sent \intersect d.rested = {}
    BY <1>0 DEF Recorded, IsDevice, Timed, WaitingAt
  <1>2. \A v \in V : f[v].admitted = d.adm[v]
    BY DEF Recorded
  <1>3. (\A v \in d.sent : f[v].tx = d.out[v] /\ f[v].tx # None) /\ (\A v \in d.rested : f[v].tx = None /\ f[v].end = d.out[v])
    BY <1>1 DEF Recorded, None
  <1>4. \A u, v \in V : f[u] = f[v] => u = v
    <2> SUFFICES ASSUME NEW u \in V, NEW v \in V, f[u] = f[v], u # v PROVE FALSE
      OBVIOUS
    <2>1. CASE u \in d.rested /\ v \in d.rested
      BY <2>1 DEF Recorded
    <2>2. CASE u \in d.sent /\ v \in d.sent
      <3>1. d.end[u] <= d.out[v] \/ d.end[v] <= d.out[u]
        BY <2>2 DEF Recorded, IsDevice, InTurn
      <3> QED
        BY <1>1, <1>3, <2>2, <3>1
    <2>3. CASE u \in d.sent /\ v \in d.rested
      BY <1>3, <2>3
    <2>4. CASE u \in d.rested /\ v \in d.sent
      BY <1>3, <2>4
    <2> QED
      BY <2>1, <2>2, <2>3, <2>4
  <1>5. served = {f[v] : v \in d.sent} /\ queued = {f[v] : v \in K}
    <2>1. served = {f[v] : v \in d.sent} /\ {w \in left : w.status # "queue_drop"} = {f[v] : v \in d.rested}
      BY DEF Recorded
    <2>2. {s \in served : s.tx # s.admitted} = {f[v] : v \in {u \in d.sent : d.out[u] # d.adm[u]}}
      BY <1>2, <1>3, <2>1
    <2> QED
      BY <2>1, <2>2
  <1>6. \A v \in K : leaves(f[v]) = d.out[v]
    BY <1>3
  <1>7. ASSUME NEW L, L \subseteq V
        PROVE  /\ IsFiniteSet(L) /\ Cardinality({f[v] : v \in L}) = Cardinality(L) /\ Cardinality(L) \in Nat
    <2>1. IsFiniteSet(L)
      BY <1>1, <1>7, FS_Subset
    <2> HIDE DEF V
    <2>2. \A u, v \in L : f[u] = f[v] => u = v
      BY <1>4, <1>7
    <2> QED
      BY <2>1, <2>2, Counted
  <1>8. ASSUME NEW s \in times PROVE s \in 0..End /\ (s \in drops => s \in d.drops)
    <2>1. CASE s \in drops
      <3>1. s \in d.drops
        BY <2>1 DEF Recorded
      <3> QED
        BY <1>0, <3>1 DEF Recorded, IsDevice, Filled
    <2>2. CASE s \notin drops
      <3>1. PICK q \in queued : s = q.admitted \/ s = leaves(q)
        BY <1>8, <2>2
      <3>2. PICK v \in K : q = f[v]
        BY <1>5, <3>1
      <3>3. s = d.adm[v] \/ s = d.out[v]
        BY <1>1, <1>2, <1>6, <3>1, <3>2
      <3> QED
        BY <1>0, <1>1, <2>2, <3>3
    <2> QED
      BY <2>1, <2>2
  <1> DEFINE A(s) == {v \in K : d.adm[v] <= s}
             G(s) == {v \in K : d.out[v] <= s}
             Aless(s) == {v \in K : d.adm[v] < s}
             Gless(s) == {v \in K : d.out[v] < s}
             X(s) == {v \in d.rested : d.out[v] = s}
             Y(s) == {v \in K : d.adm[v] = s}
             I(s) == {v \in d.sent : d.out[v] = s /\ d.adm[v] = s}
  <1>9. ASSUME NEW s
        PROVE  /\ {q \in queued : q.admitted <= s} = {f[v] : v \in A(s)}
               /\ {q \in queued : leaves(q) <= s} = {f[v] : v \in G(s)}
               /\ {q \in queued : q.admitted < s} = {f[v] : v \in Aless(s)}
               /\ {q \in queued : leaves(q) < s} = {f[v] : v \in Gless(s)}
               /\ {q \in queued : q.tx = None /\ q.end = s} = {f[v] : v \in X(s)}
               /\ {q \in queued : q.admitted = s} = {f[v] : v \in Y(s)}
               /\ {q \in served : q.tx = s /\ q.admitted = s} = {f[v] : v \in I(s)}
    <2> DEFINE Q == queued
    <2>1. \A v \in K : f[v].admitted = d.adm[v] /\ leaves(f[v]) = d.out[v]
      BY <1>1, <1>2, <1>6
    <2>2. Q = {f[v] : v \in K}
      BY <1>5
    <2> HIDE DEF Q, leaves
    <2>3. {q \in Q : q.admitted <= s} = {f[v] : v \in A(s)} /\ {q \in Q : q.admitted < s} = {f[v] : v \in Aless(s)}
      <3> HIDE DEF K
      <3> QED
        BY <2>1, <2>2
    <2>4. {q \in Q : leaves(q) <= s} = {f[v] : v \in G(s)} /\ {q \in Q : leaves(q) < s} = {f[v] : v \in Gless(s)}
      <3> HIDE DEF K
      <3> QED
        BY <2>1, <2>2
    <2>5. {q \in Q : q.admitted = s} = {f[v] : v \in Y(s)}
      <3> HIDE DEF K
      <3> QED
        BY <2>1, <2>2
    <2>6. {q \in Q : q.tx = None /\ q.end = s} = {f[v] : v \in X(s)}
      BY <1>3, <2>2
    <2>7. {q \in served : q.tx = s /\ q.admitted = s} = {f[v] : v \in I(s)}
      BY <1>2, <1>3, <1>5
    <2> QED
      BY <2>3, <2>4, <2>5, <2>6, <2>7 DEF Q
  <1>10. ASSUME NEW s \in times PROVE after(s) \in 0..replay.queue
    <2>1. A(s) \subseteq V /\ G(s) \subseteq V /\ G(s) \subseteq A(s)
      BY <1>0, <1>1, <1>8
    <2>2. Cardinality({q \in queued : q.admitted <= s}) = Cardinality(A(s)) /\ IsFiniteSet(A(s))
      BY <1>7, <1>9, <2>1
    <2>3. Cardinality({q \in queued : leaves(q) <= s}) = Cardinality(G(s))
      BY <1>7, <1>9, <2>1
    <2>4. A(s) \ G(s) \subseteq Staying(d, s)
      BY <1>0, <1>1, <1>8 DEF Staying
    <2>5. Cardinality(Staying(d, s)) <= replay.queue
      <3>1. s \in 0..End
        BY <1>8
      <3>2. Roomy(d, t) /\ t > End
        BY DEF Recorded, IsDevice
      <3> HIDE DEF times
      <3> QED
        BY <1>0, <3>1, <3>2 DEF Roomy
    <2>6. IsFiniteSet(Staying(d, s)) /\ Cardinality(Staying(d, s)) \in Nat
      BY StayingFinite DEF Recorded, IsDevice
    <2> HIDE DEF A, G, queued, leaves
    <2>7. Cardinality(A(s)) - Cardinality(G(s)) = Cardinality(A(s) \ G(s)) /\ Cardinality(A(s) \ G(s)) \in Nat
      BY <2>1, <2>2, CountedLess
    <2>8. Cardinality(A(s) \ G(s)) <= Cardinality(Staying(d, s))
      BY <2>4, <2>6, FS_Subset
    <2> QED
      BY <1>0, <2>2, <2>3, <2>5, <2>6, <2>7, <2>8
  <1>11. ASSUME NEW s \in drops PROVE upper(s) >= replay.queue
    <2> DEFINE B == Aless(s) \ Gless(s)
               J == IF ending(s) THEN I(s) ELSE {}
    <2>1. s \in Nat /\ s < End /\ Cardinality(Blocking(d, s)) >= replay.queue
      BY <1>8 DEF Recorded, IsDevice, Filled
    <2>2. Aless(s) \subseteq V /\ Gless(s) \subseteq Aless(s) /\ X(s) \subseteq B /\ Y(s) \subseteq V /\ I(s) \subseteq V
      BY <1>0, <1>1, <2>1
    <2>3. /\ before(s) = Cardinality(B) /\ IsFiniteSet(B) /\ IsFiniteSet(B \ X(s))
          /\ gone(s) = Cardinality(X(s))
      <3>1. /\ Cardinality({q \in queued : q.admitted < s}) = Cardinality(Aless(s)) /\ IsFiniteSet(Aless(s))
            /\ Cardinality({q \in queued : leaves(q) < s}) = Cardinality(Gless(s))
            /\ gone(s) = Cardinality(X(s))
        <4>1. Gless(s) \subseteq V /\ X(s) \subseteq V
          BY <2>2
        <4> QED
          BY <1>7, <1>9, <2>2, <4>1
      <3> HIDE DEF Aless, Gless, X, queued, leaves
      <3>2. Cardinality(Aless(s)) - Cardinality(Gless(s)) = Cardinality(B)
        BY <2>2, <3>1, CountedLess
      <3>3. IsFiniteSet(B) /\ IsFiniteSet(B \ X(s))
        BY <3>1, FS_Subset
      <3> QED
        BY <3>1, <3>2, <3>3
    <2>4. come(s) = Cardinality(Y(s)) /\ IsFiniteSet(Y(s)) /\ Cardinality(Y(s)) \in Nat
      BY <1>7, <1>9, <2>2
    <2>5. (IF ending(s) THEN instant(s) ELSE 0) = Cardinality(J) /\ IsFiniteSet(J)
      BY <1>7, <1>9, <2>2, FS_EmptySet
    <2>6. ASSUME NEW v \in Blocking(d, s) PROVE v \in (B \ X(s)) \union Y(s) \union J
      <3>0. v \in V /\ d.adm[v] <= s /\ (s < d.out[v] \/ (v \in d.sent /\ d.out[v] = s /\ \E u \in d.sent : d.end[u] = s))
        BY DEF Blocking
      <3>1. CASE d.adm[v] < s
        BY <1>1, <2>1, <3>0, <3>1
      <3>2. CASE d.adm[v] = s /\ s < d.out[v]
        BY <1>1, <2>1, <3>0, <3>2
      <3>3. CASE d.adm[v] = s /\ v \in d.sent /\ d.out[v] = s /\ \E u \in d.sent : d.end[u] = s
        <4>1. PICK u \in d.sent : d.end[u] = s
          BY <3>3
        <4>2. f[u] \in served /\ f[u].end = s /\ f[u].tx = d.out[u]
          BY <4>1 DEF Recorded
        <4>3. ASSUME NEW p \in served, p.tx < s PROVE p.tx <= f[u].tx
          <5>1. PICK x \in d.sent : p = f[x]
            BY <1>5
          <5>2. x = u \/ d.end[x] <= d.out[u] \/ d.end[u] <= d.out[x]
            BY DEF Recorded, IsDevice, InTurn
          <5> QED
            BY <1>1, <1>3, <2>1, <4>1, <4>2, <4>3, <5>1, <5>2
        <4>4. ending(s)
          BY <4>2, <4>3
        <4>5. v \in I(s)
          BY <3>3
        <4> HIDE DEF ending
        <4> QED
          BY <4>4, <4>5
      <3> QED
        BY <1>1, <2>1, <3>0, <3>1, <3>2, <3>3
    <2>7. /\ Cardinality(B) \in Nat /\ Cardinality(X(s)) \in Nat
          /\ Cardinality(B \ X(s)) = Cardinality(B) - Cardinality(X(s)) /\ Cardinality(B \ X(s)) \in Nat
      <3> HIDE DEF B, X
      <3> QED
        BY <2>2, <2>3, CountedLess
    <2>8. Cardinality(Blocking(d, s)) \in Nat /\ Cardinality(J) \in Nat
          /\ Cardinality(Blocking(d, s)) <= Cardinality(B) - Cardinality(X(s)) + Cardinality(Y(s)) + Cardinality(J)
      <3> DEFINE M == (B \ X(s)) \union Y(s)
      <3> HIDE DEF B, X, Y, J
      <3>1. IsFiniteSet(M)
        BY <2>3, <2>4, FS_Union
      <3>2. Cardinality(M) \in Nat /\ Cardinality(M) <= Cardinality(B \ X(s)) + Cardinality(Y(s))
        BY <2>3, <2>4, CountedBoth
      <3>3. Blocking(d, s) \subseteq M \union J
        BY <2>6
      <3>4. Cardinality(Blocking(d, s)) \in Nat /\ Cardinality(Blocking(d, s)) <= Cardinality(M) + Cardinality(J)
        <4> HIDE DEF M
        <4> QED
          BY <2>5, <3>1, <3>3, CountedBoth
      <3>5. Cardinality(J) \in Nat
        BY <2>5, FS_CardinalityType
      <3> HIDE DEF M
      <3> QED
        BY <2>4, <2>7, <3>2, <3>4, <3>5
    <2> HIDE DEF B, J, before, come, gone, ending, instant, X, Y
    <2> QED
      BY <1>0, <2>1, <2>3, <2>4, <2>5, <2>7, <2>8
  <1> QED
    BY <1>10, <1>11, Zenon DEF WithinCapacity

\* The images of the elements of a finite set are finitely many.
LEMMA ImageFinite == ASSUME NEW f, NEW K, IsFiniteSet(K) PROVE IsFiniteSet({f[v] : v \in K})
  <1> DEFINE T == {f[v] : v \in K}
             g == [v \in K |-> f[v]]
  <1>1. g \in [K -> T]
    OBVIOUS
  <1>2. \A y \in T : \E v \in K : g[v] = y
    OBVIOUS
  <1> HIDE DEF T, g
  <1>3. g \in Surjection(K, T)
    BY <1>1, <1>2 DEF Surjection
  <1>4. IsFiniteSet(T)
    BY <1>3, FS_Surjection
  <1> QED
    BY <1>4 DEF T

\* Finitely many naturals are bounded: there is no smallest set of them that is not.
LEMMA BoundedIs ==
  ASSUME NEW S, IsFiniteSet(S), \A x \in S : x \in Nat
  PROVE  \E b \in Nat : \A x \in S : x <= b
  <1> DEFINE Bounded(T) == \E b \in Nat : \A x \in T : x <= b
             C == {n \in Nat : \E T \in SUBSET S : IsFiniteSet(T) /\ Cardinality(T) = n /\ ~Bounded(T)}
  <1> SUFFICES ASSUME ~Bounded(S) PROVE FALSE
    OBVIOUS
  <1>1. Cardinality(S) \in C
    BY FS_CardinalityType
  <1>2. PICK n \in C : \A m \in C : n <= m
    <2>1. (\A m \in C : m \in Nat) /\ C # {}
      BY <1>1
    <2> HIDE DEF C
    <2> QED
      BY <2>1, LeastNatural
  <1>3. PICK T \in SUBSET S : IsFiniteSet(T) /\ Cardinality(T) = n /\ ~Bounded(T)
    OBVIOUS
  <1>4. PICK x \in T : TRUE
    BY <1>3
  <1> DEFINE R == T \ {x}
  <1>5. IsFiniteSet(R) /\ Cardinality(R) = n - 1 /\ n - 1 \in Nat
    <2>1. IsFiniteSet(R) /\ Cardinality(R) = n - 1
      BY <1>3, <1>4, FS_RemoveElement
    <2> QED
      BY <2>1, FS_CardinalityType
  <1>6. Bounded(R)
    <2>1. n - 1 \notin C
      BY <1>2
    <2>2. R \in SUBSET S
      OBVIOUS
    <2> HIDE DEF Bounded, R
    <2> QED
      BY <1>5, <2>1, <2>2
  <1>7. PICK b \in Nat : \A y \in R : y <= b
    BY <1>6
  <1>8. x \in Nat /\ \A y \in T : y \in Nat /\ (y = x \/ y \in R)
    OBVIOUS
  <1>9. b + x \in Nat /\ \A y \in T : y <= b + x
    <2> HIDE DEF R
    <2> QED
      BY <1>7, <1>8
  <1> QED
    BY <1>3, <1>9

\* The links that the snapshots' routes take, and whether one is up in a snapshot.
Taken == UNION {EdgesOf(Snapshots[n].frame.path) : n \in DOMAIN Snapshots}
Up(shot, e) ==
  shot.frame.edges[e].rate > 0 /\ (IsGround(e) => shot.state = "ready" /\ e \in Selected(shot.frame.path))

\* The row of a snapshot, and the last row.
RowOf(row, shot) ==
  /\ row.time = shot.time /\ row.state = shot.state
  /\ row.path = IF shot.state = "ready" THEN shot.frame.path ELSE <<>>
  /\ DOMAIN row.edges = Taken
  /\ \A e \in Taken : /\ row.edges[e].rate = IF Up(shot, e) THEN shot.frame.edges[e].rate ELSE 0
                      /\ row.edges[e].delay = shot.frame.edges[e].delay
                      /\ row.edges[e].available = Up(shot, e)
StopRow(row) ==
  /\ row.time = End /\ row.state = "stop" /\ row.path = <<>> /\ DOMAIN row.edges = Taken
  /\ \A e \in Taken : row.edges[e].rate = 0 /\ row.edges[e].delay = 0 /\ row.edges[e].available = FALSE

\* The rows of the table that is prepared.
LEMMA TableIs ==
  ASSUME Chosen, NEW table, table = Prepared
  PROVE  LET c == Len(Snapshots)
         IN /\ c \in Nat /\ DOMAIN table = 1..(c + 1) /\ Len(table) = c + 1
            /\ \A n \in 1..c : RowOf(table[n], Snapshots[n])
            /\ StopRow(table[c + 1])
  <1> DEFINE shots == Snapshots
             c == Len(Snapshots)
             state(shot, e) == [rate |-> IF Up(shot, e) THEN shot.frame.edges[e].rate ELSE 0,
                                delay |-> shot.frame.edges[e].delay, available |-> Up(shot, e)]
             row(shot) == [time |-> shot.time, state |-> shot.state,
                           path |-> IF shot.state = "ready" THEN shot.frame.path ELSE <<>>,
                           edges |-> [e \in Taken |-> state(shot, e)]]
             stop == [time |-> End, state |-> "stop", path |-> <<>>,
                      edges |-> [e \in Taken |-> [rate |-> 0, delay |-> 0, available |-> FALSE]]]
             before == [n \in DOMAIN shots |-> row(shots[n])]
  <1>1. table = Append(before, stop)
    BY Zenon DEF Prepared, Taken, Up
  <1>2. shots \in Seq(Shots)
    BY SnapshotsCover DEF Covers
  <1>3. c \in Nat /\ DOMAIN shots = 1..c
    BY <1>2, LenProperties
  <1> DEFINE R == {row(shots[n]) : n \in 1..c} \union {stop}
  <1>4. before \in [1..c -> R] /\ stop \in R
    BY <1>3
  <1>5. \A n \in 1..c : before[n] = row(shots[n])
    BY <1>3
  <1> HIDE DEF shots, c, stop, row, before
  <1>6. before \in Seq(R) /\ Len(before) = c
    <2> HIDE DEF R
    <2>1. before \in Seq(R)
      BY <1>3, <1>4, IsASeq
    <2> QED
      BY <1>3, <1>4, <2>1, LenProperties
  <1>7. table \in Seq(R) /\ Len(table) = c + 1 /\ table[c + 1] = stop /\ \A n \in 1..c : table[n] = before[n]
    <2> HIDE DEF R
    <2> QED
      BY <1>1, <1>4, <1>6, AppendProperties
  <1>8. DOMAIN table = 1..(c + 1)
    <2> HIDE DEF R
    <2> QED
      BY <1>7, LenProperties
  <1>9. \A n \in 1..c : table[n] = row(shots[n])
    BY <1>5, <1>7
  <1>10. \A shot : RowOf(row(shot), shot)
    BY DEF row, RowOf
  <1>11. StopRow(stop)
    BY DEF stop, StopRow
  <1>12. \A n \in 1..c : RowOf(table[n], shots[n])
    BY <1>9, <1>10
  <1> QED
    BY <1>3, <1>7, <1>8, <1>11, <1>12 DEF shots, c

\* What the simulator and the parser rely on in a table.
IsRow(row, edges) ==
  /\ row.time \in Nat
  /\ row.state \in {"disconnected", "acquiring", "ready", "stop"}
  /\ row.state = "ready" => IsRoute(row.path) /\ \A e \in EdgesOf(row.path) : e \in edges /\ row.edges[e].available
  /\ row.state # "ready" => row.path = <<>>
  /\ DOMAIN row.edges = edges
  /\ \A e \in edges :
       LET edge == row.edges[e]
       IN /\ edge.rate \in Nat /\ edge.delay \in Nat /\ edge.available \in BOOLEAN
          /\ edge.rate > 0 <=> edge.available
          /\ edge.available =>
               /\ Serialization[edge.rate] \in Nat \ {0} /\ Serialization[edge.rate] + replay.rounding \in Nat \ {0}
               /\ row.state # "stop"
               /\ IsGround(e) => row.state = "ready" /\ e \in Selected(row.path)

IsTable(table) ==
  LET edges == DOMAIN table[1].edges
  IN /\ Len(table) \in Nat /\ Len(table) >= 2 /\ DOMAIN table = 1..Len(table)
     /\ table[1].time = 0 /\ table[Len(table)].time = End
     /\ \A m, n \in 1..Len(table) : m < n => table[m].time < table[n].time
     /\ \A n \in 1..Len(table) : IsRow(table[n], edges) /\ (table[n].state = "stop" <=> n = Len(table))
     /\ \A e \in edges : e = <<e[1], e[2]>> /\ e[1] \in Nat /\ e[2] \in Nat /\ e[1] < e[2]
     /\ IsFiniteSet(edges)

\* A route's links join its nodes in their order.
LEMMA RouteEdges ==
  ASSUME NEW path, IsRoute(path), NEW e \in EdgesOf(path)
  PROVE  e = <<e[1], e[2]>> /\ e[1] \in Nat /\ e[2] \in Nat /\ e[1] < e[2]
  <1>1. PICK i \in 1..(Len(path) - 1) : e = Edge(path[i], path[i + 1])
    BY DEF EdgesOf
  <1>2. path \in Seq(Nat) /\ Len(path) \in Nat
    BY LenProperties DEF IsRoute
  <1>3. i \in 1..Len(path) /\ i + 1 \in 1..Len(path)
    BY <1>2
  <1>4. path[i] \in Nat /\ path[i + 1] \in Nat
    BY <1>2, <1>3, ElementOfSeq
  <1>5. path[i] # path[i + 1]
    BY <1>3 DEF IsRoute
  <1> QED
    BY <1>1, <1>4, <1>5 DEF Edge

\* What is held of a route and of the links.
LEMMA FrameIs ==
  ASSUME Chosen, NEW h \in DOMAIN holding
  PROVE  LET frame == holding[h]
         IN /\ frame.path = <<>> \/ IsRoute(frame.path)
            /\ Taken \subseteq DOMAIN frame.edges
            /\ \A e \in EdgesOf(frame.path) : frame.edges[e].rate > 0
            /\ \A e \in Taken :
                 /\ frame.edges[e].rate \in Nat /\ frame.edges[e].delay \in Nat
                 /\ frame.edges[e].rate > 0 =>
                      /\ Serialization[frame.edges[e].rate] \in Nat \ {0}
                      /\ Serialization[frame.edges[e].rate] + replay.rounding \in Nat \ {0}
  <1> DEFINE taken == UNION {EdgesOf(holding[t].path) : t \in DOMAIN holding}
             frame == holding[h]
  <1>1. Taken \subseteq taken
    <2> SUFFICES ASSUME NEW n \in DOMAIN Snapshots PROVE Snapshots[n].frame \in Frames
      BY DEF Taken, Frames
    <2>1. Snapshots \in Seq(Shots)
      BY SnapshotsCover DEF Covers
    <2>2. Snapshots[n] \in Shots
      BY <2>1, LenProperties, ElementOfSeq
    <2> QED
      BY <2>2 DEF Shots
  <1>2. /\ frame.path = <<>> \/ IsRoute(frame.path)
        /\ taken \subseteq DOMAIN frame.edges
        /\ \A e \in EdgesOf(frame.path) : frame.edges[e].rate > 0
        /\ \A e \in taken :
             /\ frame.edges[e].rate \in Nat /\ frame.edges[e].delay \in Nat
             /\ frame.edges[e].rate > 0 =>
                  /\ Serialization[frame.edges[e].rate] \in Nat \ {0}
                  /\ \A r \in Replays : Serialization[frame.edges[e].rate] + r.rounding >= 1
    BY NetworkReplayAssumption, ZenonT(60) DEF NetworkReplayAssumption, Chosen
  <1>3. replay \in Replays /\ replay.rounding \in Int
    BY NetworkReplayAssumption DEF NetworkReplayAssumption, Chosen
  <1> HIDE DEF taken, frame
  <1>4. ASSUME NEW e \in Taken, frame.edges[e].rate > 0
        PROVE  Serialization[frame.edges[e].rate] + replay.rounding \in Nat \ {0}
    BY <1>1, <1>2, <1>3, <1>4
  <1>5. \A e \in Taken : /\ frame.edges[e].rate \in Nat /\ frame.edges[e].delay \in Nat
                         /\ frame.edges[e].rate > 0 => Serialization[frame.edges[e].rate] \in Nat \ {0}
    BY <1>1, <1>2
  <1> QED
    BY <1>1, <1>2, <1>4, <1>5 DEF frame

\* The routes take finitely many links.
LEMMA TakenFinite == ASSUME Chosen PROVE IsFiniteSet(Taken)
  <1> DEFINE f == [n \in DOMAIN Snapshots |-> EdgesOf(Snapshots[n].frame.path)]
  <1>1. Snapshots \in Seq(Shots) /\ Len(Snapshots) \in Nat /\ DOMAIN Snapshots = 1..Len(Snapshots)
    BY SnapshotsCover, LenProperties DEF Covers
  <1>2. IsFiniteSet(DOMAIN Snapshots)
    BY <1>1, FS_Interval
  <1>3. ASSUME NEW n \in DOMAIN Snapshots PROVE IsFiniteSet(f[n])
    <2> DEFINE path == Snapshots[n].frame.path
               g == [i \in 1..(Len(path) - 1) |-> Edge(path[i], path[i + 1])]
    <2>1. Snapshots[n] \in Shots
      BY <1>1, ElementOfSeq
    <2>2. PICK h \in DOMAIN holding : Snapshots[n].frame = holding[h]
      BY <2>1 DEF Shots, Frames
    <2>3. path = <<>> \/ IsRoute(path)
      BY <2>2, FrameIs
    <2>4. Len(path) \in Nat
      BY <2>3, LenProperties DEF IsRoute
    <2>5. IsFiniteSet(1..(Len(path) - 1))
      <3> DEFINE b == Len(path) - 1
      <3>1. b \in Int /\ 1 \in Int
        BY <2>4
      <3>2. IsFiniteSet(1..b)
        <4> HIDE DEF b
        <4> QED
          BY <3>1, FS_Interval
      <3> QED
        BY <3>2
    <2>6. EdgesOf(path) = {g[i] : i \in 1..(Len(path) - 1)}
      BY DEF EdgesOf
    <2> HIDE DEF g
    <2>7. IsFiniteSet(EdgesOf(path))
      BY <2>5, <2>6, ImageFinite
    <2> QED
      BY <2>7
  <1>4. Taken = UNION {f[n] : n \in DOMAIN Snapshots}
    BY DEF Taken
  <1> HIDE DEF f
  <1>5. IsFiniteSet({f[n] : n \in DOMAIN Snapshots})
    BY <1>2, ImageFinite
  <1> QED
    BY <1>3, <1>4, <1>5, FS_UNION

\* The table that is prepared is one.
LEMMA PreparedIsTable == ASSUME Chosen, NEW table, table = Prepared PROVE IsTable(table)
  <1> DEFINE c == Len(Snapshots)
  <1>1. /\ c \in Nat /\ DOMAIN table = 1..(c + 1) /\ Len(table) = c + 1
        /\ \A n \in 1..c : RowOf(table[n], Snapshots[n])
        /\ StopRow(table[c + 1])
    BY TableIs
  <1>2. End \in Nat \ {0} /\ c > 0 /\ Covers(Snapshots, End)
    BY ReplayIs, SnapshotsCover
  <1>3. ASSUME NEW n \in 1..c
        PROVE  /\ Snapshots[n].time \in Nat /\ Snapshots[n].time < End
               /\ Snapshots[n].state \in {"disconnected", "acquiring", "ready"}
               /\ \E h \in DOMAIN holding : Snapshots[n].frame = holding[h]
               /\ Snapshots[n].state = "ready" => Snapshots[n].frame.path # <<>>
    <2>1. Snapshots[n] \in Shots
      BY <1>2, ElementOfSeq DEF Covers
    <2>2. Snapshots[n].time < End
      BY <1>2 DEF Covers
    <2>3. Snapshots[n].state = "ready" => Snapshots[n].frame.path # <<>>
      <3> DEFINE s == Snapshots[n].time
                 stop == IF n = c THEN End ELSE Snapshots[n + 1].time
      <3>1. Right(Snapshots[n], s, stop) /\ s \in Nat
        BY <1>2, <2>1 DEF Covers, Shots
      <3>2. stop \in Nat /\ s < stop
        <4>1. CASE n = c
          BY <1>2, <2>2, <4>1
        <4>2. CASE n # c
          <5>1. n + 1 \in 1..c
            BY <1>1, <4>2
          <5>2. Snapshots[n + 1] \in Shots
            BY <1>2, <5>1, ElementOfSeq DEF Covers
          <5>3. Snapshots[n].time < Snapshots[n + 1].time
            BY <1>2, <5>1 DEF Covers
          <5> QED
            BY <4>2, <5>2, <5>3 DEF Shots
        <4> QED
          BY <4>1, <4>2
      <3>3. s \in s..(stop - 1)
        BY <3>1, <3>2
      <3>4. Snapshots[n].frame = HeldAt(s) /\ Snapshots[n].state = StateAt(s)
        BY <3>1, <3>3 DEF Right
      <3> QED
        BY <3>4 DEF StateAt
    <2> QED
      BY <2>1, <2>2, <2>3 DEF Shots, Frames
  <1>4. DOMAIN table[1].edges = Taken
    <2>1. 1 \in 1..c
      BY <1>1, <1>2
    <2> QED
      BY <1>1, <2>1 DEF RowOf
  <1>5. ASSUME NEW n \in 1..c PROVE IsRow(table[n], Taken) /\ table[n].state # "stop"
    <2> DEFINE shot == Snapshots[n]
               row == table[n]
    <2>1. PICK h \in DOMAIN holding : shot.frame = holding[h]
      BY <1>3
    <2>2. /\ shot.frame.path = <<>> \/ IsRoute(shot.frame.path)
          /\ \A e \in EdgesOf(shot.frame.path) : shot.frame.edges[e].rate > 0
          /\ \A e \in Taken :
               /\ shot.frame.edges[e].rate \in Nat /\ shot.frame.edges[e].delay \in Nat
               /\ shot.frame.edges[e].rate > 0 =>
                    /\ Serialization[shot.frame.edges[e].rate] \in Nat \ {0}
                    /\ Serialization[shot.frame.edges[e].rate] + replay.rounding \in Nat \ {0}
      BY <2>1, FrameIs
    <2>3. /\ row.time = shot.time /\ row.state = shot.state
          /\ row.path = IF shot.state = "ready" THEN shot.frame.path ELSE <<>>
          /\ DOMAIN row.edges = Taken
          /\ \A e \in Taken : /\ row.edges[e].rate = IF Up(shot, e) THEN shot.frame.edges[e].rate ELSE 0
                              /\ row.edges[e].delay = shot.frame.edges[e].delay
                              /\ row.edges[e].available = Up(shot, e)
      BY <1>1 DEF RowOf
    <2>4. /\ shot.time \in Nat /\ shot.state \in {"disconnected", "acquiring", "ready"}
          /\ shot.state = "ready" => shot.frame.path # <<>>
      BY <1>3
    <2>5. \A e : Up(shot, e) <=>
            shot.frame.edges[e].rate > 0 /\ (IsGround(e) => shot.state = "ready" /\ e \in Selected(shot.frame.path))
      BY DEF Up
    <2>6. EdgesOf(shot.frame.path) \subseteq Taken
      <3>1. n \in DOMAIN Snapshots
        BY <1>2, LenProperties DEF Covers
      <3> QED
        BY <3>1 DEF Taken
    <2>7. ASSUME NEW e \in Taken
          PROVE  LET edge == row.edges[e]
                 IN /\ edge.rate \in Nat /\ edge.delay \in Nat /\ edge.available \in BOOLEAN
                    /\ edge.rate > 0 <=> edge.available
                    /\ edge.available =>
                         /\ Serialization[edge.rate] \in Nat \ {0}
                         /\ Serialization[edge.rate] + replay.rounding \in Nat \ {0}
                         /\ row.state # "stop"
                         /\ IsGround(e) => row.state = "ready" /\ e \in Selected(row.path)
      <3>1. Up(shot, e) \in BOOLEAN
        BY DEF Up
      <3> QED
        BY <2>2, <2>3, <2>4, <2>5, <3>1, SMTT(30)
    <2>8. row.state = "ready" =>
            IsRoute(row.path) /\ \A e \in EdgesOf(row.path) : e \in Taken /\ row.edges[e].available
      <3> SUFFICES ASSUME row.state = "ready"
                   PROVE  IsRoute(row.path) /\ \A e \in EdgesOf(row.path) : e \in Taken /\ row.edges[e].available
        OBVIOUS
      <3>1. row.path = shot.frame.path /\ shot.state = "ready"
        BY <2>3
      <3>2. IsRoute(row.path)
        BY <2>2, <2>4, <3>1
      <3>3. \A e \in EdgesOf(row.path) : e \in Taken /\ Up(shot, e)
        BY <2>2, <2>5, <2>6, <3>1 DEF Selected
      <3> QED
        BY <2>3, <3>2, <3>3
    <2> HIDE DEF shot, row
    <2>9. IsRow(row, Taken)
      BY <2>3, <2>4, <2>7, <2>8 DEF IsRow
    <2> QED
      BY <2>3, <2>4, <2>9 DEF row
  <1>6. IsRow(table[c + 1], Taken) /\ table[c + 1].state = "stop" /\ table[c + 1].time = End
    <2> DEFINE last == table[c + 1]
    <2>1. StopRow(last) /\ End \in Nat
      BY <1>1, <1>2
    <2> HIDE DEF last
    <2>2. /\ last.time = End /\ last.state = "stop" /\ last.path = <<>> /\ DOMAIN last.edges = Taken
          /\ \A e \in Taken : last.edges[e].rate = 0 /\ last.edges[e].delay = 0 /\ last.edges[e].available = FALSE
      BY <2>1 DEF StopRow
    <2>3. \A e \in Taken : /\ last.edges[e].rate \in Nat /\ last.edges[e].delay \in Nat
                           /\ last.edges[e].available \in BOOLEAN /\ ~last.edges[e].available
                           /\ ~(last.edges[e].rate > 0)
      <3> TAKE e \in Taken
      <3>1. last.edges[e].available \in BOOLEAN /\ ~last.edges[e].available
        BY <2>2, Zenon
      <3>2. last.edges[e].rate \in Nat /\ last.edges[e].delay \in Nat /\ ~(last.edges[e].rate > 0)
        BY <2>2
      <3> QED
        BY <3>1, <3>2
    <2>4. IsRow(last, Taken)
      BY <2>1, <2>2, <2>3 DEF IsRow
    <2> QED
      BY <2>2, <2>4 DEF last
  <1>7. ASSUME NEW e \in Taken PROVE e = <<e[1], e[2]>> /\ e[1] \in Nat /\ e[2] \in Nat /\ e[1] < e[2]
    <2>1. PICK n \in DOMAIN Snapshots : e \in EdgesOf(Snapshots[n].frame.path)
      BY DEF Taken
    <2>2. n \in 1..c
      BY <1>2, LenProperties DEF Covers
    <2>3. PICK h \in DOMAIN holding : Snapshots[n].frame = holding[h]
      BY <1>3, <2>2
    <2>4. Snapshots[n].frame.path = <<>> \/ IsRoute(Snapshots[n].frame.path)
      BY <2>3, FrameIs
    <2>5. EdgesOf(<<>>) = {}
      BY DEF EdgesOf
    <2> QED
      BY <2>1, <2>4, <2>5, RouteEdges
  <1>8. \A m, n \in 1..(c + 1) : m < n => table[m].time < table[n].time
    <2> SUFFICES ASSUME NEW m \in 1..(c + 1), NEW n \in 1..(c + 1), m < n PROVE table[m].time < table[n].time
      OBVIOUS
    <2>1. m \in 1..c /\ table[m].time = Snapshots[m].time
      BY <1>1 DEF RowOf
    <2>2. CASE n = c + 1
      BY <1>3, <1>6, <2>1, <2>2
    <2>3. CASE n # c + 1
      <3>1. n \in 1..c /\ table[n].time = Snapshots[n].time
        BY <1>1, <2>3 DEF RowOf
      <3>2. Snapshots[m].time < Snapshots[n].time
        BY <1>2, <2>1, <3>1 DEF Covers
      <3> QED
        BY <2>1, <3>1, <3>2
    <2> QED
      BY <2>2, <2>3
  <1>9. table[1].time = 0
    <2>1. 1 \in 1..c /\ Snapshots[1].time = 0
      BY <1>1, <1>2 DEF Covers
    <2> QED
      BY <1>1, <2>1 DEF RowOf
  <1> HIDE DEF c
  <1>10. \A n \in 1..Len(table) : IsRow(table[n], Taken) /\ (table[n].state = "stop" <=> n = Len(table))
    <2> TAKE n \in 1..Len(table)
    <2>1. CASE n \in 1..c
      BY <1>1, <1>5, <2>1
    <2>2. CASE n = c + 1
      BY <1>1, <1>6, <2>2
    <2> QED
      BY <1>1, <2>1, <2>2
  <1> QED
    BY <1>1, <1>2, <1>4, <1>6, <1>7, <1>8, <1>9, <1>10, TakenFinite DEF IsTable

Tabled == Chosen /\ IsTable(rows)

\* The devices, by the nodes they join, and the link of one.
Links == DOMAIN rows[1].edges \union {<<e[2], e[1]>> : e \in DOMAIN rows[1].edges}
Across(link) == Edge(link[1], link[2])

\* The rows' times.
LEMMA RowTimes ==
  ASSUME Tabled
  PROVE  /\ Len(rows) \in Nat /\ Len(rows) >= 2 /\ DOMAIN rows = 1..Len(rows) /\ Len(rows) \in 1..Len(rows)
         /\ rows[1].time = 0 /\ rows[Len(rows)].time = End /\ End \in Nat \ {0}
         /\ \A n \in 1..Len(rows) : rows[n].time \in Nat
         /\ \A m, n \in 1..Len(rows) : m < n => rows[m].time < rows[n].time
  <1>1. /\ Len(rows) \in Nat /\ Len(rows) >= 2 /\ DOMAIN rows = 1..Len(rows)
        /\ rows[1].time = 0 /\ rows[Len(rows)].time = End /\ End \in Nat \ {0}
        /\ \A m, n \in 1..Len(rows) : m < n => rows[m].time < rows[n].time
    BY ReplayIs, Zenon DEF Tabled, IsTable
  <1>2. \A n \in 1..Len(rows) : rows[n].time \in Nat
    BY Zenon DEF Tabled, IsTable, IsRow
  <1>3. Len(rows) \in 1..Len(rows)
    BY <1>1
  <1> QED
    BY <1>1, <1>2, <1>3

LEMMA RowIs ==
  ASSUME Tabled, NEW k \in 1..Len(rows)
  PROVE  /\ rows[k].time \in Nat /\ rows[k].time <= End /\ (k < Len(rows) => rows[k].time < End)
         /\ IsRow(rows[k], DOMAIN rows[1].edges) /\ (rows[k].state = "stop" <=> k = Len(rows))
  <1>1. rows[k].time \in Nat /\ rows[k].time <= End /\ (k < Len(rows) => rows[k].time < End)
    BY RowTimes
  <1>2. IsRow(rows[k], DOMAIN rows[1].edges) /\ (rows[k].state = "stop" <=> k = Len(rows))
    BY Zenon DEF Tabled, IsTable
  <1> QED
    BY <1>1, <1>2

\* The row of a time.
LEMMA RowAtIs ==
  ASSUME Tabled, NEW k \in 1..Len(rows), NEW t \in Nat, rows[k].time <= t, k < Len(rows) => t < rows[k + 1].time
  PROVE  RowAt(t) = rows[k]
  <1> DEFINE S == {n \in DOMAIN rows : rows[n].time <= t}
  <1>1. /\ Len(rows) \in Nat /\ DOMAIN rows = 1..Len(rows) /\ \A m \in 1..Len(rows) : rows[m].time \in Nat
    BY RowTimes
  <1>2. \A m \in S : m \in Int /\ m <= k
    <2> SUFFICES ASSUME NEW m \in 1..Len(rows), rows[m].time <= t, m > k PROVE FALSE
      BY <1>1
    <2>1. k + 1 \in 1..Len(rows) /\ k < Len(rows)
      BY <1>1
    <2>2. m = k + 1 \/ rows[k + 1].time < rows[m].time
      BY <2>1, RowTimes, <1>1, SMTT(30)
    <2> QED
      BY <1>1, <2>1, <2>2
  <1>3. k \in S
    BY <1>1
  <1>4. Max(S) = k
    <2> HIDE DEF S
    <2> QED
      BY <1>2, <1>3, MaxOf
  <1> QED
    BY <1>4 DEF RowAt

\* The route's next node either way, and the link to it.
LEMMA NextIs ==
  ASSUME Tabled, NEW k \in 1..Len(rows), NEW v, NEW aim \in {Source, Target}, NextNode(rows[k], v, aim) # None
  PROVE  LET u == NextNode(rows[k], v, aim)
         IN /\ rows[k].state = "ready" /\ k < Len(rows)
            /\ v \in Nat /\ u \in Nat /\ v # u /\ v # aim
            /\ <<v, u>> \in Links /\ Across(<<v, u>>) \in DOMAIN rows[1].edges
            /\ rows[k].edges[Across(<<v, u>>)].available
  <1> DEFINE path == rows[k].path
             step == IF aim = Target THEN 1 ELSE -1
             places == {j \in DOMAIN path : j + step \in DOMAIN path}
             i == CHOOSE j \in places : path[j] = v
             u == NextNode(rows[k], v, aim)
             edges == DOMAIN rows[1].edges
  <1>1. (\E j \in places : path[j] = v) /\ u = path[step + i]
    BY Zenon DEF NextNode
  <1>2. i \in places /\ path[i] = v
    BY <1>1
  <1> HIDE DEF i, u
  <1>3. IsRow(rows[k], edges) /\ Len(rows) \in Nat /\ (rows[k].state = "stop" <=> k = Len(rows))
    BY RowIs, RowTimes, Zenon
  <1>4. rows[k].state = "ready"
    <2> SUFFICES ASSUME rows[k].state # "ready" PROVE FALSE
      OBVIOUS
    <2>1. path = <<>>
      BY <1>3 DEF IsRow
    <2> QED
      BY <1>2, <2>1
  <1>5. IsRoute(path) /\ \A e \in EdgesOf(path) : e \in edges /\ rows[k].edges[e].available
    BY <1>3, <1>4 DEF IsRow
  <1>6. /\ path \in Seq(Nat) /\ Len(path) \in Nat /\ DOMAIN path = 1..Len(path)
        /\ Len(path) >= 3 /\ path[1] = Source /\ path[Len(path)] = Target
        /\ \A j, m \in 1..Len(path) : path[j] = path[m] => j = m
    BY <1>5, LenProperties DEF IsRoute
  <1> HIDE DEF path
  <1>a. step \in {1, -1} /\ (step = 1 <=> aim = Target)
    OBVIOUS
  <1> HIDE DEF step
  <1>c. Len(path) \in Nat /\ Len(path) >= 3
    BY <1>6
  <1>b. i \in 1..Len(path) /\ step + i \in 1..Len(path) /\ i # step + i
    BY <1>2, <1>6, <1>a
  <1>7. v \in Nat /\ u \in Nat
    BY <1>1, <1>2, <1>6, <1>b, ElementOfSeq
  <1>8. v # u
    BY <1>1, <1>2, <1>6, <1>b
  <1>9. v # aim
    <2>1. CASE aim = Target
      <3>0. step = 1
        BY <1>a, <2>1
      <3>1. i # Len(path) /\ Len(path) \in 1..Len(path)
        BY <1>c, <1>b, <3>0
      <3> QED
        BY <1>2, <1>6, <1>b, <2>1, <3>1
    <2>2. CASE aim # Target
      <3>1. i # 1 /\ 1 \in 1..Len(path) /\ aim = Source
        BY <1>6, <1>a, <1>b, <2>2
      <3> QED
        BY <1>2, <1>6, <1>b, <3>1
    <2> QED
      BY <2>1, <2>2
  <1>10. Edge(v, u) \in EdgesOf(path)
    <2>1. CASE aim = Target
      <3>1. i \in 1..(Len(path) - 1) /\ step + i = i + 1
        BY <1>6, <1>a, <1>b, <2>1
      <3> QED
        BY <1>1, <1>2, <3>1 DEF EdgesOf
    <2>2. CASE aim # Target
      <3>1. step + i \in 1..(Len(path) - 1) /\ (step + i) + 1 = i
        BY <1>6, <1>a, <1>b, <2>2
      <3>2. Edge(u, v) \in EdgesOf(path)
        BY <1>1, <1>2, <3>1 DEF EdgesOf
      <3>3. Edge(u, v) = Edge(v, u)
        BY <1>7, <1>8 DEF Edge
      <3> QED
        BY <3>2, <3>3
    <2> QED
      BY <2>1, <2>2
  <1>11. Across(<<v, u>>) = Edge(v, u)
    BY DEF Across
  <1>12. <<v, u>> \in Links
    <2>1. CASE v < u
      BY <1>5, <1>10, <2>1 DEF Edge, Links
    <2>2. CASE ~(v < u)
      <3>1. <<u, v>> \in edges
        BY <1>5, <1>10, <2>2 DEF Edge
      <3> QED
        BY <3>1 DEF Links
    <2> QED
      BY <2>1, <2>2
  <1>13. k # Len(rows)
    BY <1>3, <1>4
  <1> QED
    BY <1>3, <1>4, <1>5, <1>7, <1>8, <1>9, <1>10, <1>11, <1>12, <1>13 DEF u, path

\* A route that is ready leads on from both ends.
LEMMA NextOrigin ==
  ASSUME Tabled, NEW k \in 1..Len(rows), rows[k].state = "ready", NEW aim \in {Source, Target}
  PROVE  NextNode(rows[k], Origin(aim), aim) # None
  <1> DEFINE path == rows[k].path
             step == IF aim = Target THEN 1 ELSE -1
             places == {j \in DOMAIN path : j + step \in DOMAIN path}
             i == CHOOSE j \in places : path[j] = Origin(aim)
  <1>1. IsRoute(path)
    BY RowIs DEF IsRow
  <1>2. /\ path \in Seq(Nat) /\ Len(path) \in Nat /\ DOMAIN path = 1..Len(path)
        /\ Len(path) >= 3 /\ path[1] = Source /\ path[Len(path)] = Target
    BY <1>1, LenProperties DEF IsRoute
  <1>3. \E j \in places : path[j] = Origin(aim)
    <2> HIDE DEF path
    <2>1. CASE aim = Target
      <3>1. 1 \in places /\ path[1] = Origin(aim)
        BY <1>2, <2>1 DEF Origin
      <3> QED
        BY <3>1
    <2>2. CASE aim # Target
      <3>1. Len(path) \in places /\ path[Len(path)] = Origin(aim)
        BY <1>2, <2>2 DEF Origin
      <3> QED
        BY <3>1
    <2> QED
      BY <2>1, <2>2
  <1>4. i \in places
    BY <1>3
  <1>5. NextNode(rows[k], Origin(aim), aim) = path[step + i]
    BY <1>3, Zenon DEF NextNode
  <1> HIDE DEF i
  <1>6. path[step + i] \in Nat
    <2> HIDE DEF path
    <2>1. step + i \in 1..Len(path)
      BY <1>2, <1>4
    <2> QED
      BY <1>2, <2>1, ElementOfSeq
  <1> QED
    BY <1>5, <1>6 DEF None

\* A device's link.
LEMMA LinkIs ==
  ASSUME Tabled, NEW link \in Links
  PROVE  /\ link = <<link[1], link[2]>> /\ link[1] \in Nat /\ link[2] \in Nat
         /\ Across(link) \in DOMAIN rows[1].edges
  <1>1. \A e \in DOMAIN rows[1].edges : e = <<e[1], e[2]>> /\ e[1] \in Nat /\ e[2] \in Nat /\ e[1] < e[2]
    BY Zenon DEF Tabled, IsTable
  <1>2. CASE link \in DOMAIN rows[1].edges
    BY <1>1, <1>2 DEF Across, Edge
  <1>3. CASE link \notin DOMAIN rows[1].edges
    <2>1. PICK e \in DOMAIN rows[1].edges : link = <<e[2], e[1]>>
      BY <1>3 DEF Links
    <2>2. e = <<e[1], e[2]>> /\ e[1] \in Nat /\ e[2] \in Nat /\ e[1] < e[2]
      BY <1>1
    <2>3. link[1] = e[2] /\ link[2] = e[1]
      BY <2>1
    <2>4. Across(link) = e
      BY <2>2, <2>3 DEF Across, Edge
    <2> QED
      BY <2>1, <2>2, <2>3, <2>4
  <1> QED
    BY <1>2, <1>3

----------------------------------------------------------------------------
(* Outages.                                                                *)

LEMMA OutageIs ==
  ASSUME Tabled, NEW e, NEW o
  PROVE  o \in Outages(e) <=>
           \E n \in 1..(Len(rows) - 1) : o = <<rows[n].time, rows[n + 1].time>> /\ ~rows[n].edges[e].available
  BY DEF Outages

LEMMA OutageTimes ==
  ASSUME Tabled, NEW e, NEW o \in Outages(e)
  PROVE  o[1] \in Nat /\ o[2] \in Nat /\ o[1] < o[2] /\ o[1] < End
  <1>1. PICK n \in 1..(Len(rows) - 1) : o = <<rows[n].time, rows[n + 1].time>>
    BY OutageIs
  <1>2. Len(rows) \in Nat
    BY RowTimes
  <1>3. n \in 1..Len(rows) /\ n + 1 \in 1..Len(rows) /\ n < n + 1 /\ n < Len(rows)
    BY <1>2
  <1>4. rows[n].time \in Nat /\ rows[n + 1].time \in Nat /\ rows[n].time < rows[n + 1].time /\ rows[n].time < End
    BY <1>3, RowTimes, RowIs, Zenon
  <1> QED
    BY <1>1, <1>4

\* An outage in a time that is longer by a tick begins in the time or covers the tick.
LEMMA OverlapsTick ==
  ASSUME Tabled, NEW e, NEW a \in Nat, NEW t \in Nat, a <= t, ~Overlaps(e, a, t),
         NEW k \in 1..Len(rows), k < Len(rows), rows[k].time <= t, t < rows[k + 1].time, rows[k].edges[e].available
  PROVE  ~Overlaps(e, a, t + 1)
  <1> SUFFICES ASSUME NEW o \in Outages(e), a < o[2], o[1] < t + 1 PROVE FALSE
    BY DEF Overlaps
  <1>1. o[1] \in Nat /\ o[2] \in Nat /\ o[1] < o[2]
    BY OutageTimes
  <1>2. PICK n \in 1..(Len(rows) - 1) : o = <<rows[n].time, rows[n + 1].time>> /\ ~rows[n].edges[e].available
    BY OutageIs
  <1>3. o[1] = rows[n].time /\ o[2] = rows[n + 1].time
    BY <1>2
  <1>4. ~(a < t /\ o[1] < t)
    BY DEF Overlaps
  <1>5. o[1] <= t /\ t < o[2]
    BY <1>1, <1>4
  <1>6. Len(rows) \in Nat /\ n \in 1..Len(rows) /\ n + 1 \in 1..Len(rows) /\ k + 1 \in 1..Len(rows)
    BY RowTimes
  <1>7. n = k
    <2>1. CASE n < k
      <3>1. n + 1 = k \/ rows[n + 1].time < rows[k].time
        BY <1>6, <2>1, RowTimes
      <3>2. rows[n + 1].time \in Nat /\ rows[k].time \in Nat
        BY <1>6, RowTimes
      <3> QED
        BY <1>3, <1>5, <3>1, <3>2, SMTT(30)
    <2>2. CASE k < n
      <3>1. k + 1 = n \/ rows[k + 1].time < rows[n].time
        BY <1>6, <2>2, RowTimes
      <3>2. rows[k + 1].time \in Nat /\ rows[n].time \in Nat
        BY <1>6, RowTimes
      <3> QED
        BY <1>3, <1>5, <3>1, <3>2, SMTT(30)
    <2> QED
      BY <1>6, <2>1, <2>2
  <1> QED
    BY <1>2, <1>7

\* The outages that begin with a row.
LEMMA OutageBegins ==
  ASSUME Tabled, NEW e, NEW k \in 1..Len(rows), k < Len(rows), ~rows[k].edges[e].available
  PROVE  <<rows[k].time, rows[k + 1].time>> \in Outages(e)
  <1>1. k \in 1..(Len(rows) - 1)
    BY RowTimes
  <1> QED
    BY <1>1, OutageIs

\* The first outage after a time that is free of them until one begins.
LEMMA OutageFirst ==
  ASSUME Tabled, NEW e, NEW a \in Nat, NEW k \in 1..Len(rows), k < Len(rows), a < rows[k].time,
         ~Overlaps(e, a, rows[k].time), ~rows[k].edges[e].available
  PROVE  Min({o[1] : o \in {q \in Outages(e) : q[1] > a}}) = rows[k].time
  <1> DEFINE T == {o[1] : o \in {q \in Outages(e) : q[1] > a}}
             r == rows[k].time
  <1>1. r \in Nat
    BY RowIs
  <1>2. r \in T
    <2>1. <<r, rows[k + 1].time>> \in Outages(e) /\ <<r, rows[k + 1].time>>[1] = r
      BY OutageBegins
    <2> QED
      BY <2>1
  <1>3. \A x \in T : x \in Nat /\ r <= x
    <2> SUFFICES ASSUME NEW o \in Outages(e), o[1] > a PROVE o[1] \in Nat /\ r <= o[1]
      OBVIOUS
    <2>1. o[1] \in Nat /\ o[2] \in Nat /\ o[1] < o[2]
      BY OutageTimes
    <2>2. ~(a < o[2] /\ o[1] < r)
      BY DEF Overlaps
    <2> QED
      BY <1>1, <2>1, <2>2
  <1> HIDE DEF T
  <1>4. Min(T) \in T /\ \A y \in T : Min(T) <= y
    <2>1. \E x \in T : \A y \in T : x <= y
      BY <1>2, <1>3
    <2> QED
      BY <2>1 DEF Min
  <1>5. Min(T) = r
    BY <1>1, <1>2, <1>3, <1>4
  <1> QED
    BY <1>5 DEF T

----------------------------------------------------------------------------
(* The table as the parser checks it, and the times of the offers.         *)

LEMMA TableAccepted == ASSUME Tabled PROVE IsPrepared
  <1>0. /\ Len(rows) \in Nat /\ Len(rows) >= 2 /\ DOMAIN rows = 1..Len(rows)
        /\ rows[1].time = 0 /\ rows[Len(rows)].time = End
        /\ \A m, n \in 1..Len(rows) : m < n => rows[m].time < rows[n].time
    BY Zenon DEF Tabled, IsTable
  <1>1. \A n \in 1..(Len(rows) - 1) : rows[n].time < rows[n + 1].time
    BY <1>0
  <1>2. ASSUME NEW n \in DOMAIN rows
        PROVE  LET row == rows[n]
                   ground == {e \in DOMAIN row.edges : IsGround(e) /\ row.edges[e].available}
               IN /\ (row.state = "stop") <=> (n = Len(rows))
                  /\ \A e \in DOMAIN row.edges : (row.edges[e].rate > 0) <=> row.edges[e].available
                  /\ row.state = "stop" => \A e \in DOMAIN row.edges : ~row.edges[e].available
                  /\ row.state # "ready" => row.path = <<>> /\ ground = {}
                  /\ row.state = "ready" =>
                       LET path == row.path
                       IN /\ Len(path) >= 3 /\ path[1] = Source /\ path[Len(path)] = Target
                          /\ \A i \in 2..(Len(path) - 1) : path[i] < Source
                          /\ Cardinality(ToSet(path)) = Len(path)
                          /\ ground = Selected(path)
                          /\ \A e \in EdgesOf(path) : row.edges[e].available
    <2> DEFINE row == rows[n]
               edges == DOMAIN rows[1].edges
               ground == {e \in DOMAIN row.edges : IsGround(e) /\ row.edges[e].available}
               path == row.path
    <2>1. IsRow(row, edges) /\ (row.state = "stop" <=> n = Len(rows))
      BY <1>0, RowIs, Zenon
    <2> HIDE DEF row, edges
    <2>2. ASSUME row.state = "ready" PROVE Cardinality(ToSet(path)) = Len(path) /\ ground = Selected(path)
      <3>1. IsRoute(path)
        BY <2>1, <2>2 DEF IsRow
      <3>2. path \in Seq(Nat) /\ Len(path) \in Nat /\ DOMAIN path = 1..Len(path)
        BY <3>1, LenProperties DEF IsRoute
      <3>3. IsFiniteSet(1..Len(path)) /\ Cardinality(1..Len(path)) = Len(path)
        BY <3>2, FS_Interval
      <3>4. \A i, j \in 1..Len(path) : path[i] = path[j] => i = j
        BY <3>1 DEF IsRoute
      <3>5. Cardinality({path[i] : i \in 1..Len(path)}) = Len(path)
        BY <3>3, <3>4, Counted
      <3>6. ToSet(path) = {path[i] : i \in 1..Len(path)}
        BY <3>2 DEF ToSet
      <3>7. ground = Selected(path)
        BY <2>1, <2>2 DEF IsRow, Selected
      <3> QED
        BY <3>5, <3>6, <3>7
    <2>3. row.state # "ready" => path = <<>> /\ ground = {}
      BY <2>1 DEF IsRow
    <2>4. (\A e \in DOMAIN row.edges : (row.edges[e].rate > 0) <=> row.edges[e].available)
          /\ (row.state = "stop" => \A e \in DOMAIN row.edges : ~row.edges[e].available)
      BY <2>1 DEF IsRow
    <2>5. row.state = "ready" => IsRoute(path) /\ \A e \in EdgesOf(path) : row.edges[e].available
      BY <2>1 DEF IsRow
    <2>6. row.state = "ready" =>
            /\ Len(path) >= 3 /\ path[1] = Source /\ path[Len(path)] = Target
            /\ \A i \in 2..(Len(path) - 1) : path[i] < Source
      BY <2>5 DEF IsRoute
    <2> QED
      BY <2>1, <2>2, <2>3, <2>4, <2>5, <2>6 DEF row
  <1> QED
    BY <1>0, <1>1, <1>2, Zenon DEF IsPrepared

LEMMA FlowTimesAre ==
  ASSUME Chosen
  PROVE  /\ Len(FlowTimes) \in Nat
         /\ \A n \in 1..Len(FlowTimes) : FlowTimes[n] \in Nat /\ FlowTimes[n] < End
         /\ \A m, n \in 1..Len(FlowTimes) : m < n => FlowTimes[m] < FlowTimes[n]
  <1> DEFINE times(flow) == {t \in FlowPhase(flow)..(End - 1) : (t - FlowPhase(flow)) % replay.interval = 0}
             S == UNION {times(flow) : flow \in 0..(replay.flows - 1)}
  <1>1. replay.flows \in Nat \ {0} /\ replay.interval \in Nat \ {0} /\ End \in Nat \ {0}
    BY NetworkReplayAssumption DEF NetworkReplayAssumption, Chosen, End
  <1>2. ASSUME NEW flow \in 0..(replay.flows - 1) PROVE FlowPhase(flow) \in Nat
    <2>1. flow \in Nat /\ flow * replay.interval \in Nat
      BY <1>1
    <2> QED
      BY <1>1, <2>1, SMTT(30) DEF FlowPhase
  <1>3. S \subseteq 0..(End - 1)
    <2> SUFFICES ASSUME NEW flow \in 0..(replay.flows - 1), NEW t \in times(flow) PROVE t \in 0..(End - 1)
      OBVIOUS
    <2>1. FlowPhase(flow) \in Nat /\ t \in FlowPhase(flow)..(End - 1)
      BY <1>2
    <2> QED
      BY <1>1, <2>1
  <1>4. IsFiniteSet(S)
    <2> HIDE DEF S
    <2>1. IsFiniteSet(0..(End - 1))
      BY <1>1, FS_Interval
    <2> QED
      BY <1>3, <2>1, FS_Subset
  <1>5. FlowTimes = Ascending(S)
    BY DEF FlowTimes
  <1>6. \A x \in S : x \in Nat /\ x < End
    <2> HIDE DEF S
    <2> QED
      BY <1>1, <1>3
  <1> HIDE DEF S
  <1>7. /\ Len(Ascending(S)) = Cardinality(S) /\ Cardinality(S) \in Nat
        /\ \A n \in 1..Cardinality(S) : Ascending(S)[n] \in S
        /\ \A m, n \in 1..Cardinality(S) : m < n => Ascending(S)[m] < Ascending(S)[n]
    BY <1>4, <1>6, AscendingIs
  <1> QED
    BY <1>5, <1>6, <1>7

LEMMA OfferTimesAre ==
  ASSUME Chosen
  PROVE  /\ Len(OfferTimes) \in Nat
         /\ \A n \in 1..Len(OfferTimes) : OfferTimes[n] \in Nat /\ OfferTimes[n] < End
         /\ \A m, n \in 1..Len(OfferTimes) : m < n => OfferTimes[m] <= OfferTimes[n]
  <1> DEFINE times == FlowTimes
             count == Len(times)
             half(n) == (n + 1) \div 2
  <1>1. /\ count \in Nat /\ \A n \in 1..count : times[n] \in Nat /\ times[n] < End
        /\ \A m, n \in 1..count : m < n => times[m] < times[n]
    BY FlowTimesAre
  <1>2. OfferTimes = [n \in 1..(2 * count) |-> times[half(n)]]
    BY DEF OfferTimes
  <1> HIDE DEF times
  <1>3. 2 * count \in Nat
    BY <1>1
  <1>4. Len(OfferTimes) = 2 * count
    BY <1>2, <1>3
  <1>5. \A n \in 1..(2 * count) : half(n) \in 1..count
    BY <1>1
  <1>6. \A m, n \in 1..(2 * count) : m < n => half(m) <= half(n)
    BY <1>1
  <1> HIDE DEF half
  <1>7. \A n \in 1..(2 * count) : OfferTimes[n] = times[half(n)]
    BY <1>2
  <1>8. \A m, n \in 1..(2 * count) : m < n => OfferTimes[m] <= OfferTimes[n]
    BY <1>1, <1>5, <1>6, <1>7, SMTT(30)
  <1> QED
    BY <1>1, <1>3, <1>4, <1>5, <1>7, <1>8

\* A packet's record, while it is handled too: "loose" is its status between its arrival and its fate.
Statuses == Suppressed \union Delivered \union InQueue \union {"rx_outage_drop", "route_drop", "loose"}
Hops == [from : Nat, to : Nat, tx : Nat, rx : Int, rate : Nat, delay : Nat, serialization : Nat,
         status : {"unresolved", "received", "rx_outage_drop"}]
Records == [aim : {Source, Target}, udp : Int, rx : Int, status : Statuses, hops : Seq(Hops)]

Flies(p) == p.hops # <<>> /\ p.hops[Len(p.hops)].rx = None
Lost(p) == p.hops # <<>> /\ p.hops[Len(p.hops)].status = "rx_outage_drop"

\* The device that a packet goes to from where it is.
Onward(p) == <<AtLast(p).node, NextNode(RowAt(AtLast(p).time), AtLast(p).node, p.aim)>>

\* A hop follows the route at the decision and the link's state when it is sent; it is under way, or it has ended.
Follows(hop, before, aim, t) ==
  /\ before.time # None /\ before.time <= hop.tx /\ hop.tx < End /\ hop.tx <= t
  /\ hop.from = before.node /\ hop.from # aim
  /\ NextNode(RowAt(before.time), hop.from, aim) = hop.to
  /\ ~Overlaps(Edge(hop.from, hop.to), before.time, hop.tx)
  /\ <<hop.from, hop.to>> \in Links
  /\ RowAt(hop.tx).edges[Edge(hop.from, hop.to)].available
  /\ hop.rate = RowAt(hop.tx).edges[Edge(hop.from, hop.to)].rate
  /\ hop.delay = RowAt(hop.tx).edges[Edge(hop.from, hop.to)].delay
  /\ hop.serialization = Serialization[hop.rate] + replay.rounding /\ hop.serialization >= 1

Way(hop, t) == hop.rx = None /\ hop.status = "unresolved" /\ t <= hop.tx + hop.serialization + hop.delay

Fell(hop, t) ==
  \/ Overlaps(Edge(hop.from, hop.to), hop.tx, hop.tx + hop.serialization)
  \/ Overlaps(Edge(hop.from, hop.to), hop.tx + hop.delay, t)

Over(hop, t) ==
  /\ hop.rx = hop.tx + hop.serialization + hop.delay /\ hop.rx <= t
  /\ hop.status = IF Fell(hop, hop.rx) THEN "rx_outage_drop" ELSE "received"

Traced(p, t) ==
  \A i \in 1..Len(p.hops) :
    /\ Follows(p.hops[i], Before(p, i), p.aim, t)
    /\ Over(p.hops[i], t) \/ (Way(p.hops[i], t) /\ i = Len(p.hops) /\ p.status = "unresolved")
    /\ i > 1 => p.hops[i - 1].status = "received"

\* A packet in a queue: its link has been there all the time.
Waiting(p, t) ==
  /\ ~Flies(p) /\ ~Lost(p) /\ AtLast(p).time \in 0..(End - 1) /\ Onward(p) \in Links
  /\ ~Overlaps(Across(Onward(p)), AtLast(p).time, t)

Tracked(n, p, t) ==
  /\ p \in Records
  /\ IsPacket(n, p) /\ OfferTimes[n] <= t /\ AtLast(p).time <= t
  /\ Traced(p, t)
  /\ p.status = "unresolved" => Flies(p) \/ Waiting(p, t)
  /\ p.status = "loose" => ~Flies(p) /\ ~Lost(p) /\ AtLast(p).time = t
  /\ p.status \notin {"unresolved", "loose"} => EndsRight(p)

LEMMA RowAtSome == ASSUME Tabled, NEW t \in Nat PROVE \E k \in 1..Len(rows) : RowAt(t) = rows[k] /\ rows[k].time <= t
  <1> DEFINE S == {n \in DOMAIN rows : rows[n].time <= t}
  <1>1. /\ Len(rows) \in Nat /\ Len(rows) >= 2 /\ DOMAIN rows = 1..Len(rows) /\ rows[1].time = 0
    BY RowTimes
  <1>2. (\A m \in S : m \in Int /\ m <= Len(rows)) /\ 1 \in S
    BY <1>1
  <1>3. Max(S) \in S
    <2> HIDE DEF S
    <2> QED
      BY <1>1, <1>2, MaxIs
  <1> QED
    BY <1>1, <1>3 DEF RowAt

\* A packet's place, and its types.
LEMMA PlaceIs ==
  ASSUME NEW p \in Records
  PROVE  /\ Len(p.hops) \in Nat /\ DOMAIN p.hops = 1..Len(p.hops) /\ (p.hops = <<>> <=> Len(p.hops) = 0)
         /\ p.aim \in {Source, Target} /\ p.udp \in Int /\ p.rx \in Int /\ p.status \in Statuses
         /\ \A i \in 1..Len(p.hops) : p.hops[i] \in Hops
         /\ \A i \in 1..(Len(p.hops) + 1) : Before(p, i).time \in Int
         /\ AtLast(p) = IF Len(p.hops) = 0 THEN [node |-> Origin(p.aim), time |-> p.udp]
                        ELSE [node |-> p.hops[Len(p.hops)].to, time |-> p.hops[Len(p.hops)].rx]
         /\ AtLast(p) = Before(p, Len(p.hops) + 1)
  <1>1. p.hops \in Seq(Hops) /\ p.aim \in {Source, Target} /\ p.udp \in Int /\ p.rx \in Int /\ p.status \in Statuses
    BY DEF Records
  <1>2. Len(p.hops) \in Nat /\ DOMAIN p.hops = 1..Len(p.hops) /\ (p.hops = <<>> <=> Len(p.hops) = 0)
    BY <1>1, LenProperties, EmptySeq
  <1>3. \A i \in 1..Len(p.hops) : p.hops[i] \in Hops
    BY <1>1, <1>2, ElementOfSeq
  <1>4. ASSUME NEW i \in 1..(Len(p.hops) + 1) PROVE Before(p, i).time \in Int
    <2>1. CASE i = 1
      BY <1>1, <2>1 DEF Before
    <2>2. CASE i # 1
      <3>1. i - 1 \in 1..Len(p.hops)
        BY <1>2, <2>2
      <3> QED
        BY <1>3, <2>2, <3>1 DEF Before, Hops
    <2> QED
      BY <2>1, <2>2
  <1>5. AtLast(p) = IF Len(p.hops) = 0 THEN [node |-> Origin(p.aim), time |-> p.udp]
                    ELSE [node |-> p.hops[Len(p.hops)].to, time |-> p.hops[Len(p.hops)].rx]
    <2>1. CASE Len(p.hops) = 0
      BY <2>1 DEF AtLast, Before
    <2>2. CASE Len(p.hops) # 0
      <3>1. Len(p.hops) + 1 # 1 /\ Len(p.hops) + 1 - 1 = Len(p.hops)
        BY <1>2, <2>2
      <3> QED
        BY <2>2, <3>1 DEF AtLast, Before
    <2> QED
      BY <2>1, <2>2
  <1> QED
    BY <1>1, <1>2, <1>3, <1>4, <1>5 DEF AtLast

\* What was so stays so.
LEMMA FollowsOn ==
  ASSUME NEW hop \in Hops, NEW before, NEW t \in Nat, NEW u \in Nat, NEW aim, t <= u, Follows(hop, before, aim, t)
  PROVE  Follows(hop, before, aim, u)
  BY DEF Follows, Hops

LEMMA OverOn ==
  ASSUME NEW hop \in Hops, NEW t \in Nat, NEW u \in Nat, t <= u, Over(hop, t)
  PROVE  Over(hop, u)
  BY DEF Over, Hops

\* Where a packet in flight is.
LEMMA TracedIs ==
  ASSUME NEW p \in Records, NEW t \in Nat, Traced(p, t)
  PROVE  /\ \A i \in 1..Len(p.hops) :
              /\ Over(p.hops[i], t) => p.hops[i].rx # None /\ p.hops[i].rx \in Nat /\ p.hops[i].status # "unresolved"
              /\ p.hops[i].tx <= t /\ p.hops[i].tx < End
         /\ Flies(p) => Way(p.hops[Len(p.hops)], t) /\ p.status = "unresolved" /\ Len(p.hops) \in 1..Len(p.hops)
         /\ ~Flies(p) => \A i \in 1..Len(p.hops) : Over(p.hops[i], t)
  <1>1. Len(p.hops) \in Nat /\ (p.hops = <<>> <=> Len(p.hops) = 0) /\ \A i \in 1..Len(p.hops) : p.hops[i] \in Hops
    BY PlaceIs
  <1>2. ASSUME NEW hop \in Hops, Over(hop, t) PROVE hop.rx # None /\ hop.rx \in Nat /\ hop.status # "unresolved"
    BY <1>2 DEF Over, Hops, None
  <1>3. ASSUME NEW i \in 1..Len(p.hops)
        PROVE  /\ Over(p.hops[i], t) \/ (Way(p.hops[i], t) /\ i = Len(p.hops) /\ p.status = "unresolved")
               /\ p.hops[i].tx <= t /\ p.hops[i].tx < End
    BY DEF Traced, Follows
  <1>4. Flies(p) => Way(p.hops[Len(p.hops)], t) /\ p.status = "unresolved" /\ Len(p.hops) \in 1..Len(p.hops)
    <2> SUFFICES ASSUME Flies(p)
                 PROVE  Way(p.hops[Len(p.hops)], t) /\ p.status = "unresolved" /\ Len(p.hops) \in 1..Len(p.hops)
      OBVIOUS
    <2>1. Len(p.hops) \in 1..Len(p.hops) /\ p.hops[Len(p.hops)].rx = None
      BY <1>1 DEF Flies
    <2> QED
      BY <1>1, <1>2, <1>3, <2>1
  <1>5. ASSUME ~Flies(p), NEW i \in 1..Len(p.hops) PROVE Over(p.hops[i], t)
    <2>1. CASE Way(p.hops[i], t) /\ i = Len(p.hops)
      <3>1. Len(p.hops) \in 1..Len(p.hops) /\ p.hops # <<>> /\ p.hops[Len(p.hops)].rx = None
        BY <1>1, <2>1 DEF Way
      <3> QED
        BY <1>5, <3>1 DEF Flies
    <2> QED
      BY <1>3, <2>1
  <1> QED
    BY <1>1, <1>2, <1>3, <1>4, <1>5

LEMMA SamePlace ==
  ASSUME NEW p, NEW q, q.hops = p.hops, q.udp = p.udp, q.aim = p.aim
  PROVE  /\ \A i : Before(q, i) = Before(p, i)
         /\ AtLast(q) = AtLast(p) /\ Onward(q) = Onward(p)
         /\ (Flies(q) <=> Flies(p)) /\ (Lost(q) <=> Lost(p))
  <1>1. \A i : Before(q, i) = Before(p, i)
    BY DEF Before
  <1>2. AtLast(q) = AtLast(p)
    BY DEF AtLast, Before
  <1> QED
    BY <1>1, <1>2 DEF Onward, Flies, Lost

LEMMA TracedStill ==
  ASSUME NEW p \in Records, NEW q \in Records, q.hops = p.hops, q.udp = p.udp, q.aim = p.aim, NEW t \in Nat, Traced(p, t), ~Flies(p)
  PROVE  Traced(q, t)
  <1>1. \A i : Before(q, i) = Before(p, i)
    BY SamePlace
  <1>2. \A i \in 1..Len(p.hops) : Over(p.hops[i], t)
    BY TracedIs
  <1> QED
    BY <1>1, <1>2 DEF Traced

\* A packet that is neither suppressed nor delivered keeps its row.
LEMMA PacketGoesOn ==
  ASSUME NEW n, NEW p, NEW q, IsPacket(n, p), q.udp = p.udp, q.aim = p.aim, q.rx = p.rx,
         p.status \notin Suppressed \union Delivered, q.status \notin Suppressed \union Delivered
  PROVE  IsPacket(n, q)
  BY DEF IsPacket, Suppressed, Delivered

\* The route leads on from where a packet waits, which is not the target.
LEMMA LeadsOn ==
  ASSUME Tabled, NEW p, p.aim \in {Source, Target}, AtLast(p).time \in 0..(End - 1), Onward(p) \in Links
  PROVE  /\ NextNode(RowAt(AtLast(p).time), AtLast(p).node, p.aim) # None /\ AtLast(p).node # p.aim
         /\ Across(Onward(p)) = Edge(AtLast(p).node, NextNode(RowAt(AtLast(p).time), AtLast(p).node, p.aim))
  <1> DEFINE v == AtLast(p).node
             r == AtLast(p).time
  <1>1. Onward(p) = <<v, NextNode(RowAt(r), v, p.aim)>>
    BY DEF Onward
  <1> HIDE DEF v, r
  <1>2. NextNode(RowAt(r), v, p.aim) \in Nat
    BY <1>1, LinkIs
  <1>3. NextNode(RowAt(r), v, p.aim) # None
    BY <1>2 DEF None
  <1>4. r \in Nat
    BY RowTimes DEF r
  <1>5. PICK k \in 1..Len(rows) : RowAt(r) = rows[k]
    BY <1>4, RowAtSome
  <1>6. v # p.aim
    BY <1>3, <1>5, NextIs, ZenonT(60)
  <1>7. Across(Onward(p)) = Edge(v, NextNode(RowAt(r), v, p.aim))
    BY <1>1 DEF Across
  <1> QED
    BY <1>3, <1>6, <1>7 DEF v, r

\* How a packet ends that never left a queue.
LEMMA QueueEnd ==
  ASSUME Tabled, NEW p, p.aim \in {Source, Target}, AtLast(p).time \in 0..(End - 1), Onward(p) \in Links, ~Lost(p),
         p.status \in {"queue_drop", "outage_queue_drop", "end_of_window_drop"},
         p.status = "outage_queue_drop" => \E o \in Outages(Across(Onward(p))) : AtLast(p).time < o[1] /\ o[1] < End,
         p.status = "end_of_window_drop" => ~Overlaps(Across(Onward(p)), AtLast(p).time, End)
  PROVE  EndsRight(p)
  <1>1. /\ NextNode(RowAt(AtLast(p).time), AtLast(p).node, p.aim) # None /\ AtLast(p).node # p.aim
        /\ Across(Onward(p)) = Edge(AtLast(p).node, NextNode(RowAt(AtLast(p).time), AtLast(p).node, p.aim))
    BY LeadsOn
  <1>2. ~(AtLast(p).time >= End)
    BY RowTimes
  <1> QED
    BY <1>1, <1>2, Zenon DEF EndsRight, Lost, Delivered, InQueue

----------------------------------------------------------------------------
(* A packet's steps.                                                       *)

\* A tick passes.
LEMMA PacketTicks ==
  ASSUME Tabled, NEW n \in 1..Len(OfferTimes), NEW p, NEW t \in Nat, Tracked(n, p, t), p.status # "loose",
         Flies(p) => p.hops[Len(p.hops)].tx + p.hops[Len(p.hops)].serialization + p.hops[Len(p.hops)].delay # t,
         Waiting(p, t) => ~Overlaps(Across(Onward(p)), AtLast(p).time, t + 1)
  PROVE  Tracked(n, p, t + 1)
  <1>1. p \in Records /\ IsPacket(n, p) /\ OfferTimes[n] <= t /\ AtLast(p).time <= t /\ Traced(p, t)
    BY DEF Tracked
  <1>2. OfferTimes[n] <= t + 1 /\ AtLast(p).time <= t + 1
    <2>1. OfferTimes[n] \in Nat
      BY OfferTimesAre DEF Tabled
    <2>2. AtLast(p).time \in Int
      BY <1>1, PlaceIs
    <2> QED
      BY <1>1, <2>1, <2>2
  <1>3. Traced(p, t + 1)
    <2> SUFFICES ASSUME NEW i \in 1..Len(p.hops)
                 PROVE  /\ Follows(p.hops[i], Before(p, i), p.aim, t + 1)
                        /\ Over(p.hops[i], t + 1) \/ (Way(p.hops[i], t + 1) /\ i = Len(p.hops) /\ p.status = "unresolved")
                        /\ i > 1 => p.hops[i - 1].status = "received"
      BY DEF Traced
    <2>1. /\ Follows(p.hops[i], Before(p, i), p.aim, t)
          /\ Over(p.hops[i], t) \/ (Way(p.hops[i], t) /\ i = Len(p.hops) /\ p.status = "unresolved")
          /\ i > 1 => p.hops[i - 1].status = "received"
      BY <1>1 DEF Traced
    <2>2. p.hops[i] \in Hops /\ Len(p.hops) \in Nat /\ (p.hops = <<>> <=> Len(p.hops) = 0)
      BY <1>1, PlaceIs
    <2>3. Follows(p.hops[i], Before(p, i), p.aim, t + 1)
      BY <2>1, <2>2, FollowsOn
    <2>4. Over(p.hops[i], t) => Over(p.hops[i], t + 1)
      BY <2>2, OverOn
    <2>5. ASSUME Way(p.hops[i], t), i = Len(p.hops) PROVE Way(p.hops[i], t + 1)
      <3>1. Flies(p)
        BY <2>2, <2>5 DEF Way, Flies
      <3>2. p.hops[i].tx + p.hops[i].serialization + p.hops[i].delay # t
        BY <2>5, <3>1
      <3>3. p.hops[i].tx \in Nat /\ p.hops[i].serialization \in Nat /\ p.hops[i].delay \in Nat
        BY <2>2 DEF Hops
      <3> QED
        BY <2>5, <3>2, <3>3, SMTT(30) DEF Way
    <2> QED
      BY <2>1, <2>3, <2>4, <2>5
  <1>4. Waiting(p, t) => Waiting(p, t + 1)
    BY DEF Waiting
  <1> QED
    BY <1>1, <1>2, <1>3, <1>4 DEF Tracked

\* The queue is flushed that it waits in.
LEMMA PacketFlushed ==
  ASSUME Tabled, NEW n, NEW p, NEW t \in Nat, Tracked(n, p, t), p.status = "unresolved", Waiting(p, t),
         NEW q \in Records, q.udp = p.udp, q.aim = p.aim, q.rx = p.rx, q.hops = p.hops,
         \/ /\ q.status = "outage_queue_drop"
            /\ \E o \in Outages(Across(Onward(p))) : AtLast(p).time < o[1] /\ o[1] < End
         \/ q.status = "end_of_window_drop" /\ t = End
  PROVE  Tracked(n, q, t)
  <1>1. p \in Records /\ IsPacket(n, p) /\ OfferTimes[n] <= t /\ AtLast(p).time <= t /\ Traced(p, t)
    BY DEF Tracked
  <1>2. /\ AtLast(q) = AtLast(p) /\ Onward(q) = Onward(p)
        /\ (Flies(q) <=> Flies(p)) /\ (Lost(q) <=> Lost(p))
    BY SamePlace
  <1>3. Traced(q, t)
    BY <1>1, TracedStill DEF Waiting
  <1>4. IsPacket(n, q)
    BY <1>1, PacketGoesOn DEF Suppressed, Delivered
  <1>5. EndsRight(q)
    BY <1>2, QueueEnd, PlaceIs DEF Waiting
  <1> QED
    BY <1>1, <1>2, <1>3, <1>4, <1>5 DEF Tracked

\* A new packet.
LEMMA PacketOffered ==
  ASSUME Tabled, NEW n \in 1..Len(OfferTimes), NEW p \in Records, NEW t \in Nat, t = OfferTimes[n], p.hops = <<>>, p.rx = None,
         p.aim = Aim(n),
         \/ p.status = "loose" /\ p.udp = t /\ RowAt(t).state \notin {"disconnected", "acquiring"}
         \/ p.status = "no_route" /\ p.udp = None /\ RowAt(t).state = "disconnected"
         \/ p.status = "acquisition_suppressed" /\ p.udp = None /\ RowAt(t).state = "acquiring"
  PROVE  Tracked(n, p, t)
  <1>1. Len(p.hops) = 0 /\ AtLast(p).time = p.udp
    BY PlaceIs
  <1>2. Traced(p, t)
    BY <1>1 DEF Traced
  <1>3. IsPacket(n, p)
    BY DEF IsPacket, Suppressed, Delivered
  <1>4. ~Flies(p) /\ ~Lost(p)
    BY DEF Flies, Lost
  <1>5. p.status # "loose" => EndsRight(p)
    BY DEF EndsRight, Delivered, InQueue
  <1>6. AtLast(p).time <= t
    BY <1>1 DEF None
  <1> QED
    BY <1>1, <1>2, <1>3, <1>4, <1>5, <1>6 DEF Tracked

\* It waits for its link's device.
LEMMA PacketQueues ==
  ASSUME Tabled, NEW n, NEW p, NEW t \in Nat, t < End, Tracked(n, p, t), p.status = "loose", Onward(p) \in Links,
         NEW q \in Records, q.udp = p.udp, q.aim = p.aim, q.rx = p.rx, q.hops = p.hops, q.status \in {"unresolved", "queue_drop"}
  PROVE  Tracked(n, q, t)
  <1>1. /\ p \in Records /\ IsPacket(n, p) /\ OfferTimes[n] <= t /\ AtLast(p).time = t /\ Traced(p, t)
        /\ ~Flies(p) /\ ~Lost(p)
    BY DEF Tracked
  <1>2. /\ AtLast(q) = AtLast(p) /\ Onward(q) = Onward(p)
        /\ (Flies(q) <=> Flies(p)) /\ (Lost(q) <=> Lost(p))
    BY SamePlace
  <1>3. Traced(q, t)
    BY <1>1, TracedStill
  <1>4. IsPacket(n, q)
    BY <1>1, PacketGoesOn DEF Suppressed, Delivered
  <1>5. t \in 0..(End - 1)
    BY RowTimes
  <1>6. Waiting(q, t)
    BY <1>1, <1>2, <1>5 DEF Waiting, Overlaps
  <1>7. q.status = "queue_drop" => EndsRight(q)
    BY <1>1, <1>2, <1>5, QueueEnd, PlaceIs
  <1> QED
    BY <1>1, <1>2, <1>3, <1>4, <1>6, <1>7 DEF Tracked

\* It ends where it has come to.
LEMMA PacketEnds ==
  ASSUME Tabled, NEW n \in 1..Len(OfferTimes), NEW p, NEW t \in Nat, Tracked(n, p, t), p.status = "loose", p.hops # <<>>,
         NEW q \in Records, q.udp = p.udp, q.aim = p.aim, q.hops = p.hops,
         \/ /\ AtLast(p).node = p.aim /\ q.rx = t
            /\ q.status = IF t < End THEN "received" ELSE "received_after_window"
         \/ /\ AtLast(p).node # p.aim /\ q.rx = None /\ NextNode(RowAt(t), AtLast(p).node, p.aim) = None
            /\ q.status = IF t >= End THEN "end_of_window_drop" ELSE "route_drop"
  PROVE  Tracked(n, q, t)
  <1>1. /\ p \in Records /\ IsPacket(n, p) /\ OfferTimes[n] <= t /\ AtLast(p).time = t /\ Traced(p, t)
        /\ ~Flies(p) /\ ~Lost(p)
    BY DEF Tracked
  <1>2. /\ AtLast(q) = AtLast(p) /\ Onward(q) = Onward(p)
        /\ (Flies(q) <=> Flies(p)) /\ (Lost(q) <=> Lost(p))
    BY SamePlace
  <1>3. Traced(q, t)
    BY <1>1, TracedStill
  <1>4. End \in Nat
    BY RowTimes
  <1>5. OfferTimes[n] \in Nat
    BY OfferTimesAre DEF Tabled
  <1>6. p.udp = OfferTimes[n]
    BY <1>1 DEF IsPacket, Suppressed
  <1>7. IsPacket(n, q)
    BY <1>1, <1>4, <1>5, <1>6 DEF IsPacket, Suppressed, Delivered, None
  <1>8. EndsRight(q)
    BY <1>1, <1>2, <1>4 DEF EndsRight, Lost, Delivered, InQueue
  <1>9. q.status \notin {"unresolved", "loose"}
    BY <1>4
  <1> QED
    BY <1>1, <1>2, <1>3, <1>7, <1>8, <1>9 DEF Tracked

\* A packet that may be sent, and the one that is.
Handed(p, t) == p.status = "loose" \/ (p.status = "unresolved" /\ Waiting(p, t))

SentOn(q, p, hop) ==
  q \in Records /\ q.udp = p.udp /\ q.aim = p.aim /\ q.rx = p.rx /\ q.status = "unresolved" /\ q.hops = Append(p.hops, hop)

HopOn(hop, link, edge, t) ==
  /\ hop \in Hops /\ hop.from = link[1] /\ hop.to = link[2] /\ hop.tx = t /\ hop.rx = None
  /\ hop.rate = edge.rate /\ hop.delay = edge.delay
  /\ hop.serialization = Serialization[edge.rate] + replay.rounding /\ hop.status = "unresolved"

LEMMA SentOnIs ==
  ASSUME NEW p \in Records, NEW q, NEW hop \in Hops, SentOn(q, p, hop)
  PROVE  LET c == Len(p.hops)
         IN /\ c \in Nat /\ Len(q.hops) = c + 1 /\ q.hops[c + 1] = hop /\ \A i \in 1..c : q.hops[i] = p.hops[i]
            /\ \A i \in 1..(c + 1) : Before(q, i) = Before(p, i)
            /\ AtLast(q).time = hop.rx
  <1> DEFINE c == Len(p.hops)
  <1>1. p.hops \in Seq(Hops) /\ c \in Nat
    BY PlaceIs DEF Records
  <1>2. q.hops = Append(p.hops, hop) /\ q.udp = p.udp /\ q.aim = p.aim /\ q \in Records
    BY DEF SentOn
  <1>3. Len(q.hops) = c + 1 /\ q.hops[c + 1] = hop /\ \A i \in 1..c : q.hops[i] = p.hops[i]
    BY <1>1, <1>2, AppendProperties
  <1>4. \A i \in 1..(c + 1) : Before(q, i) = Before(p, i)
    <2> TAKE i \in 1..(c + 1)
    <2>1. i # 1 => i - 1 \in 1..c
      BY <1>1
    <2> QED
      BY <1>2, <1>3, <2>1 DEF Before
  <1>5. AtLast(q).time = hop.rx
    BY <1>1, <1>2, <1>3, PlaceIs
  <1> QED
    BY <1>1, <1>3, <1>4, <1>5

LEMMA PacketSends ==
  ASSUME Tabled, NEW n, NEW p, NEW t \in Nat, t < End, Tracked(n, p, t), Handed(p, t),
         NEW link \in Links, Onward(p) = link, RowAt(t).edges[Across(link)].available,
         NEW hop, HopOn(hop, link, RowAt(t).edges[Across(link)], t),
         NEW q, SentOn(q, p, hop)
  PROVE  Tracked(n, q, t)
  <1> DEFINE c == Len(p.hops)
             edge == RowAt(t).edges[Across(link)]
  <1>1. /\ p \in Records /\ IsPacket(n, p) /\ OfferTimes[n] <= t /\ AtLast(p).time <= t /\ Traced(p, t)
        /\ ~Flies(p) /\ ~Lost(p)
    BY DEF Tracked, Handed, Waiting
  <1>2. q \in Records /\ q.udp = p.udp /\ q.aim = p.aim /\ q.rx = p.rx /\ q.status = "unresolved"
    BY DEF SentOn
  <1>3. hop \in Hops
    BY DEF HopOn
  <1>4. /\ c \in Nat /\ Len(q.hops) = c + 1 /\ q.hops[c + 1] = hop /\ \A i \in 1..c : q.hops[i] = p.hops[i]
        /\ \A i \in 1..(c + 1) : Before(q, i) = Before(p, i)
        /\ AtLast(q).time = None
    BY <1>1, <1>3, SentOnIs DEF HopOn
  <1>5. IsPacket(n, q)
    BY <1>1, <1>2, PacketGoesOn DEF Suppressed, Delivered, Handed
  <1>6. Before(p, c + 1) = AtLast(p) /\ AtLast(p).time \in Int
    BY <1>1, PlaceIs
  <1>7. AtLast(p).time \in 0..(End - 1) /\ ~Overlaps(Across(link), AtLast(p).time, t)
    <2>1. CASE p.status = "loose"
      <3>1. AtLast(p).time = t
        BY <2>1 DEF Tracked
      <3> QED
        BY <3>1, RowTimes DEF Overlaps
    <2>2. CASE Waiting(p, t)
      BY <2>2 DEF Waiting
    <2> QED
      BY <2>1, <2>2 DEF Handed
  <1>8. Follows(hop, AtLast(p), p.aim, t)
    <2>1. /\ hop.from = link[1] /\ hop.to = link[2] /\ hop.tx = t
          /\ hop.rate = edge.rate /\ hop.delay = edge.delay /\ hop.serialization = Serialization[edge.rate] + replay.rounding
      BY DEF HopOn
    <2>2. link = <<link[1], link[2]>> /\ Across(link) \in DOMAIN rows[1].edges
      BY LinkIs
    <2>3. Across(link) = Edge(hop.from, hop.to) /\ <<hop.from, hop.to>> \in Links
      BY <2>1, <2>2 DEF Across
    <2>4. AtLast(p).node = hop.from /\ NextNode(RowAt(AtLast(p).time), hop.from, p.aim) = hop.to
      BY <2>1, <2>2 DEF Onward
    <2>5. hop.from # p.aim
      BY <1>1, <1>7, <2>4, LeadsOn, PlaceIs
    <2>6. Serialization[edge.rate] + replay.rounding \in Nat \ {0}
      <3>1. PICK k \in 1..Len(rows) : RowAt(t) = rows[k]
        BY RowAtSome
      <3>2. IsRow(rows[k], DOMAIN rows[1].edges)
        BY RowIs
      <3> QED
        BY <2>2, <3>1, <3>2 DEF IsRow
    <2>7. AtLast(p).time # None /\ AtLast(p).time <= t
      BY <1>1, <1>7 DEF None
    <2> HIDE DEF edge
    <2>8. hop.serialization >= 1 /\ hop.serialization = Serialization[hop.rate] + replay.rounding
      BY <2>1, <2>6
    <2>9. /\ RowAt(t).edges[Edge(hop.from, hop.to)].available
          /\ hop.rate = RowAt(t).edges[Edge(hop.from, hop.to)].rate
          /\ hop.delay = RowAt(t).edges[Edge(hop.from, hop.to)].delay
      BY <2>1, <2>3 DEF edge
    <2>10. ~Overlaps(Edge(hop.from, hop.to), AtLast(p).time, t)
      BY <1>7, <2>3
    <2> QED
      BY <2>1, <2>3, <2>4, <2>5, <2>7, <2>8, <2>9, <2>10 DEF Follows
  <1>9. Way(hop, t)
    <2>1. hop.tx = t /\ hop.rx = None /\ hop.status = "unresolved"
      BY DEF HopOn
    <2>2. hop.serialization \in Nat /\ hop.delay \in Nat
      BY <1>3 DEF Hops
    <2> QED
      BY <2>1, <2>2 DEF Way
  <1>10. Traced(q, t)
    <2> SUFFICES ASSUME NEW i \in 1..(c + 1)
                 PROVE  /\ Follows(q.hops[i], Before(q, i), q.aim, t)
                        /\ Over(q.hops[i], t) \/ (Way(q.hops[i], t) /\ i = c + 1)
                        /\ i > 1 => q.hops[i - 1].status = "received"
      BY <1>2, <1>4 DEF Traced
    <2>1. CASE i \in 1..c
      <3>1. Over(p.hops[i], t)
        BY <1>1, <2>1, TracedIs
      <3>2. Follows(p.hops[i], Before(p, i), p.aim, t) /\ (i > 1 => p.hops[i - 1].status = "received")
        BY <1>1, <2>1 DEF Traced
      <3>3. i > 1 => i - 1 \in 1..c
        BY <1>4
      <3> QED
        BY <1>2, <1>4, <2>1, <3>1, <3>2, <3>3
    <2>2. CASE i = c + 1
      <3>1. Follows(q.hops[i], Before(q, i), q.aim, t) /\ Way(q.hops[i], t)
        BY <1>2, <1>4, <1>6, <1>8, <1>9, <2>2
      <3>2. ASSUME i > 1 PROVE q.hops[c].status = "received"
        <4>1. c \in 1..c /\ p.hops # <<>>
          BY <1>1, <1>4, <2>2, <3>2, PlaceIs
        <4>2. Over(p.hops[c], t) /\ p.hops[c].status # "rx_outage_drop"
          BY <1>1, <4>1, TracedIs DEF Lost
        <4> QED
          BY <1>4, <4>1, <4>2 DEF Over
      <3>3. i - 1 = c
        BY <1>4, <2>2
      <3> QED
        BY <2>2, <3>1, <3>2, <3>3
    <2> QED
      BY <1>4, <2>1, <2>2
  <1>11. Flies(q)
    <2>1. q.hops # <<>>
      BY <1>2, <1>4, PlaceIs
    <2>2. q.hops[Len(q.hops)].rx = None
      BY <1>4 DEF HopOn
    <2> QED
      BY <2>1, <2>2 DEF Flies
  <1> QED
    BY <1>1, <1>2, <1>4, <1>5, <1>10, <1>11 DEF Tracked, None

\* A packet in flight has come to the other end.
LandedOn(q, p, hop, lost) ==
  /\ q \in Records /\ q.udp = p.udp /\ q.aim = p.aim /\ q.rx = p.rx /\ q.status = IF lost THEN "rx_outage_drop" ELSE "loose"
  /\ q.hops = [p.hops EXCEPT ![Len(p.hops)] = hop]

HopOver(hop, last, t, lost) ==
  /\ hop \in Hops /\ hop.from = last.from /\ hop.to = last.to /\ hop.tx = last.tx /\ hop.rx = t
  /\ hop.rate = last.rate /\ hop.delay = last.delay /\ hop.serialization = last.serialization
  /\ hop.status = IF lost THEN "rx_outage_drop" ELSE "received"

\* The record after its last hop is over.
Relaid(q, p, hop) ==
  LET c == Len(p.hops)
  IN /\ c \in Nat /\ Len(q.hops) = c /\ q.hops[c] = hop /\ \A i \in 1..(c - 1) : q.hops[i] = p.hops[i]
     /\ \A i \in 1..c : Before(q, i) = Before(p, i)
     /\ AtLast(q) = [node |-> hop.to, time |-> hop.rx] /\ q.hops # <<>>

LEMMA LandedOnIs ==
  ASSUME NEW p \in Records, NEW q, NEW hop \in Hops, NEW lost, LandedOn(q, p, hop, lost), Len(p.hops) > 0
  PROVE  Relaid(q, p, hop)
  <1> DEFINE c == Len(p.hops)
  <1>1. p.hops \in Seq(Hops) /\ c \in Nat /\ c \in 1..c
    BY PlaceIs DEF Records
  <1>2. q.hops = [p.hops EXCEPT ![c] = hop] /\ q.udp = p.udp /\ q.aim = p.aim /\ q \in Records
    BY DEF LandedOn
  <1>3. Len(q.hops) = c /\ q.hops[c] = hop /\ \A i \in 1..(c - 1) : q.hops[i] = p.hops[i]
    BY <1>1, <1>2, ExceptSeq
  <1>4. \A i \in 1..c : Before(q, i) = Before(p, i)
    <2> TAKE i \in 1..c
    <2>1. i # 1 => i - 1 \in 1..(c - 1)
      BY <1>1
    <2> QED
      BY <1>2, <1>3, <2>1 DEF Before
  <1>5. AtLast(q) = [node |-> hop.to, time |-> hop.rx] /\ q.hops # <<>>
    BY <1>1, <1>2, <1>3, PlaceIs
  <1> QED
    BY <1>1, <1>3, <1>4, <1>5 DEF Relaid

LEMMA PacketLands ==
  ASSUME Tabled, NEW n, NEW p, NEW t \in Nat, Tracked(n, p, t), Flies(p), NEW last, last = p.hops[Len(p.hops)],
         t = last.tx + last.serialization + last.delay, NEW lost \in BOOLEAN, lost <=> Fell(last, t),
         NEW hop, HopOver(hop, last, t, lost), NEW q, LandedOn(q, p, hop, lost)
  PROVE  Tracked(n, q, t)
  <1> DEFINE c == Len(p.hops)
  <1>1. p \in Records /\ IsPacket(n, p) /\ OfferTimes[n] <= t /\ Traced(p, t)
    BY DEF Tracked
  <1>2. c \in 1..c /\ c \in Nat /\ p.status = "unresolved" /\ last \in Hops
    BY <1>1, TracedIs, PlaceIs
  <1>3. hop \in Hops
    BY DEF HopOver
  <1>4. /\ Len(q.hops) = c /\ q.hops[c] = hop /\ \A i \in 1..(c - 1) : q.hops[i] = p.hops[i]
        /\ \A i \in 1..c : Before(q, i) = Before(p, i)
        /\ AtLast(q) = [node |-> hop.to, time |-> hop.rx] /\ q.hops # <<>>
    <2>1. c > 0
      BY <1>2
    <2> HIDE DEF c
    <2>2. p \in Records
      BY <1>1
    <2>3. Relaid(q, p, hop)
      BY <1>3, <2>1, <2>2, LandedOnIs, Zenon DEF c
    <2> QED
      BY <2>3 DEF Relaid, c
  <1>5. /\ q \in Records /\ q.udp = p.udp /\ q.aim = p.aim /\ q.rx = p.rx /\ q.status = IF lost THEN "rx_outage_drop" ELSE "loose"
    BY DEF LandedOn
  <1>6. IsPacket(n, q)
    BY <1>1, <1>2, <1>5, PacketGoesOn DEF Suppressed, Delivered
  <1>7. Over(hop, t)
    BY <1>3 DEF HopOver, Over, Fell
  <1>8. Follows(hop, Before(p, c), p.aim, t)
    <2>1. Follows(last, Before(p, c), p.aim, t)
      BY <1>1, <1>2 DEF Traced
    <2> QED
      BY <2>1, Zenon DEF Follows, HopOver
  <1>9. Traced(q, t)
    <2> SUFFICES ASSUME NEW i \in 1..c
                 PROVE  Follows(q.hops[i], Before(q, i), q.aim, t) /\ Over(q.hops[i], t) /\ (i > 1 => q.hops[i - 1].status = "received")
      BY <1>4 DEF Traced
    <2>1. /\ Follows(p.hops[i], Before(p, i), p.aim, t) /\ (i > 1 => p.hops[i - 1].status = "received")
          /\ Over(p.hops[i], t) \/ (Way(p.hops[i], t) /\ i = Len(p.hops) /\ p.status = "unresolved")
      BY <1>1 DEF Traced
    <2>2. i > 1 => i - 1 \in 1..(c - 1)
      BY <1>2
    <2>3. CASE i = c
      BY <1>4, <1>5, <1>7, <1>8, <2>1, <2>2, <2>3, ZenonT(30)
    <2>4. CASE i # c
      <3>1. i \in 1..(c - 1)
        BY <1>2, <2>4
      <3> QED
        BY <1>4, <1>5, <2>1, <2>2, <2>4, <3>1
    <2> QED
      BY <2>3, <2>4
  <1>10. ~Flies(q) /\ (Lost(q) <=> lost)
    <2>1. hop.rx = t /\ hop.status = IF lost THEN "rx_outage_drop" ELSE "received"
      BY DEF HopOver
    <2>2. q.hops[Len(q.hops)] = hop
      BY <1>4
    <2> QED
      BY <1>4, <2>1, <2>2 DEF Flies, Lost, None
  <1>11. AtLast(q).time = t
    BY <1>4 DEF HopOver
  <1>12. lost => EndsRight(q)
    BY <1>5, <1>10 DEF EndsRight, Lost, Delivered, InQueue
  <1> QED
    BY <1>1, <1>5, <1>6, <1>9, <1>10, <1>11, <1>12 DEF Tracked

\* A packet's visits to a device: it was sent, it waits or did so until it was dropped, or it found the queue full.
Goes(p, i, link) == i \in 1..Len(p.hops) /\ <<p.hops[i].from, p.hops[i].to>> = link
Rests(p, link) ==
  /\ p.status \in {"unresolved", "outage_queue_drop", "end_of_window_drop"}
  /\ AtLast(p).time \in 0..(End - 1) /\ Onward(p) = link
Balked(p, link) == p.status = "queue_drop" /\ Onward(p) = link
Queued(p, link) == p.status = "unresolved" /\ Rests(p, link)

\* When it left the queue.
Freed(p, link) ==
  IF p.status = "unresolved" THEN End + 1
  ELSE IF p.status = "outage_queue_drop"
       THEN Min({o[1] : o \in {q \in Outages(Across(link)) : q[1] > AtLast(p).time}})
       ELSE End

Sent(P, link) == {v \in (DOMAIN P) \X Nat : Goes(P[v[1]], v[2], link)}
Rested(P, link) == {v \in (DOMAIN P) \X Nat : v[2] = Len(P[v[1]].hops) + 1 /\ Rests(P[v[1]], link)}

\* The device's history, in its visits.
Device(P, link) ==
  [sent |-> Sent(P, link), rested |-> Rested(P, link),
   adm |-> [v \in Sent(P, link) \union Rested(P, link) |-> Before(P[v[1]], v[2]).time],
   out |-> [v \in Sent(P, link) \union Rested(P, link) |->
              IF v \in Sent(P, link) THEN P[v[1]].hops[v[2]].tx ELSE Freed(P[v[1]], link)],
   end |-> [v \in Sent(P, link) |-> P[v[1]].hops[v[2]].tx + P[v[1]].hops[v[2]].serialization],
   drops |-> {AtLast(P[n]).time : n \in {m \in DOMAIN P : Balked(P[m], link)}}]

\* Its queue, and what it sends.
InLine(P, link, line) ==
  /\ line \in Seq(Nat) /\ Len(line) <= replay.queue /\ \A i \in 1..Len(line) : line[i] \in DOMAIN P
  /\ \A i, j \in 1..Len(line) :
       i < j => line[i] # line[j] /\ AtLast(P[line[i]]).time <= AtLast(P[line[j]]).time
  /\ \A n \in DOMAIN P : Queued(P[n], link) <=> \E i \in 1..Len(line) : line[i] = n

Busy(d, line, sends, t) ==
  /\ line # <<>> => sends # Idle
  /\ sends.until \in Nat
  /\ IF sends = Idle THEN \A v \in d.sent : d.end[v] <= t
     ELSE /\ sends.until >= t /\ \A v \in d.sent : d.end[v] <= sends.until
          /\ \E v \in d.sent : d.end[v] = sends.until

Linked(P, link, line, sends, t, k) ==
  /\ IsDevice(Device(P, link), t) /\ InLine(P, link, line) /\ Busy(Device(P, link), line, sends, t)
  /\ line # <<>> => k > 0 /\ rows[k].edges[Across(link)].available

LEMMA DeviceIs ==
  ASSUME NEW P, NEW link, \A n \in DOMAIN P : P[n] \in Records
  PROVE  LET d == Device(P, link)
         IN /\ \A v : v \in d.sent <=> v \in (DOMAIN P) \X Nat /\ Goes(P[v[1]], v[2], link)
            /\ \A v : v \in d.rested <=> v \in (DOMAIN P) \X Nat /\ v[2] = Len(P[v[1]].hops) + 1 /\ Rests(P[v[1]], link)
            /\ \A v \in d.sent : v \notin d.rested
            /\ \A v \in d.sent \union d.rested : d.adm[v] = Before(P[v[1]], v[2]).time
            /\ \A v \in d.sent : /\ d.out[v] = P[v[1]].hops[v[2]].tx
                                 /\ d.end[v] = P[v[1]].hops[v[2]].tx + P[v[1]].hops[v[2]].serialization
            /\ \A v \in d.rested : d.adm[v] = AtLast(P[v[1]]).time /\ d.out[v] = Freed(P[v[1]], link)
            /\ d.drops = {AtLast(P[n]).time : n \in {m \in DOMAIN P : Balked(P[m], link)}}
  <1> DEFINE d == Device(P, link)
  <1>1. /\ d.sent = Sent(P, link) /\ d.rested = Rested(P, link)
        /\ d.adm = [v \in Sent(P, link) \union Rested(P, link) |-> Before(P[v[1]], v[2]).time]
        /\ d.out = [v \in Sent(P, link) \union Rested(P, link) |->
                      IF v \in Sent(P, link) THEN P[v[1]].hops[v[2]].tx ELSE Freed(P[v[1]], link)]
        /\ d.end = [v \in Sent(P, link) |-> P[v[1]].hops[v[2]].tx + P[v[1]].hops[v[2]].serialization]
        /\ d.drops = {AtLast(P[n]).time : n \in {m \in DOMAIN P : Balked(P[m], link)}}
    BY Zenon DEF Device
  <1> HIDE DEF d
  <1>2. \A v : v \in Sent(P, link) <=> v \in (DOMAIN P) \X Nat /\ Goes(P[v[1]], v[2], link)
    BY Zenon DEF Sent
  <1>3. \A v : v \in Rested(P, link) <=>
                 v \in (DOMAIN P) \X Nat /\ v[2] = Len(P[v[1]].hops) + 1 /\ Rests(P[v[1]], link)
    BY Zenon DEF Rested
  <1>4. ASSUME NEW v \in Sent(P, link) PROVE v \notin Rested(P, link)
    <2>1. v[1] \in DOMAIN P /\ v[2] \in 1..Len(P[v[1]].hops)
      BY <1>2 DEF Goes
    <2>2. Len(P[v[1]].hops) \in Nat
      BY <2>1, PlaceIs
    <2> QED
      BY <1>3, <2>1, <2>2
  <1>5. \A v \in d.sent \union d.rested : d.adm[v] = Before(P[v[1]], v[2]).time
    BY <1>1, Zenon
  <1>6. \A v \in d.sent : /\ d.out[v] = P[v[1]].hops[v[2]].tx
                          /\ d.end[v] = P[v[1]].hops[v[2]].tx + P[v[1]].hops[v[2]].serialization
    <2> TAKE v \in d.sent
    <2>1. v \in Sent(P, link) /\ v \in Sent(P, link) \union Rested(P, link)
      BY <1>1
    <2>2. d.out[v] = P[v[1]].hops[v[2]].tx
      BY <1>1, <2>1, Zenon
    <2>3. d.end[v] = P[v[1]].hops[v[2]].tx + P[v[1]].hops[v[2]].serialization
      BY <1>1, <2>1, Zenon
    <2> QED
      BY <2>2, <2>3
  <1>7. ASSUME NEW v \in d.rested PROVE d.adm[v] = AtLast(P[v[1]]).time /\ d.out[v] = Freed(P[v[1]], link)
    <2>1. d.out[v] = Freed(P[v[1]], link)
      BY <1>1, <1>4, Zenon
    <2>2. v[2] = Len(P[v[1]].hops) + 1
      BY <1>1, <1>3
    <2> QED
      BY <1>5, <2>1, <2>2 DEF AtLast
  <1>8. /\ \A v : v \in d.sent <=> v \in (DOMAIN P) \X Nat /\ Goes(P[v[1]], v[2], link)
        /\ \A v : v \in d.rested <=> v \in (DOMAIN P) \X Nat /\ v[2] = Len(P[v[1]].hops) + 1 /\ Rests(P[v[1]], link)
        /\ \A v \in d.sent : v \notin d.rested
        /\ d.drops = {AtLast(P[n]).time : n \in {m \in DOMAIN P : Balked(P[m], link)}}
    <2>1. \A v : v \in d.sent <=> v \in (DOMAIN P) \X Nat /\ Goes(P[v[1]], v[2], link)
      BY <1>1, <1>2
    <2>2. \A v : v \in d.rested <=> v \in (DOMAIN P) \X Nat /\ v[2] = Len(P[v[1]].hops) + 1 /\ Rests(P[v[1]], link)
      BY <1>1, <1>3
    <2>3. \A v \in d.sent : v \notin d.rested
      BY <1>1, <1>4
    <2> QED
      BY <1>1, <2>1, <2>2, <2>3
  <1> QED
    BY <1>5, <1>6, <1>7, <1>8, Zenon DEF d

\* What two packets, or none and one, leave alike at a device.
Alike(p, q, link) ==
  /\ \A i : Goes(q, i, link) <=> Goes(p, i, link)
  /\ \A i : Goes(p, i, link) => /\ q.hops[i].tx = p.hops[i].tx /\ q.hops[i].serialization = p.hops[i].serialization
                                /\ Before(q, i).time = Before(p, i).time
  /\ Rests(q, link) <=> Rests(p, link)
  /\ Rests(p, link) => q.hops = p.hops /\ q.udp = p.udp /\ q.aim = p.aim /\ q.status = p.status
  /\ Balked(q, link) <=> Balked(p, link)
  /\ Balked(p, link) => AtLast(q).time = AtLast(p).time

Blank(q, link) == (\A i : ~Goes(q, i, link)) /\ ~Rests(q, link) /\ ~Balked(q, link)

LEMMA LinkSame ==
  ASSUME NEW P, NEW R, NEW link, DOMAIN P \subseteq DOMAIN R, NEW line, InLine(P, link, line),
         \A m \in DOMAIN P : Alike(P[m], R[m], link), \A m \in DOMAIN R : m \notin DOMAIN P => Blank(R[m], link)
  PROVE  Device(R, link) = Device(P, link) /\ InLine(R, link, line)
  <1>1. Sent(R, link) = Sent(P, link)
    BY DEF Sent, Alike, Blank
  <1>2. Rested(R, link) = Rested(P, link)
    BY DEF Rested, Alike, Blank
  <1>3. ASSUME NEW v \in Sent(P, link)
        PROVE  /\ Before(R[v[1]], v[2]).time = Before(P[v[1]], v[2]).time
               /\ R[v[1]].hops[v[2]].tx = P[v[1]].hops[v[2]].tx
               /\ R[v[1]].hops[v[2]].serialization = P[v[1]].hops[v[2]].serialization
    BY DEF Sent, Alike
  <1>4. ASSUME NEW v \in Rested(P, link)
        PROVE  Before(R[v[1]], v[2]).time = Before(P[v[1]], v[2]).time /\ Freed(R[v[1]], link) = Freed(P[v[1]], link)
    <2>1. LET p == P[v[1]]
              q == R[v[1]]
          IN q.hops = p.hops /\ q.udp = p.udp /\ q.aim = p.aim /\ q.status = p.status
      BY DEF Rested, Alike
    <2>2. Before(R[v[1]], v[2]) = Before(P[v[1]], v[2]) /\ AtLast(R[v[1]]) = AtLast(P[v[1]])
      BY <2>1, SamePlace
    <2> QED
      BY <2>1, <2>2 DEF Freed
  <1>5. {AtLast(R[n]).time : n \in {m \in DOMAIN R : Balked(R[m], link)}}
          = {AtLast(P[n]).time : n \in {m \in DOMAIN P : Balked(P[m], link)}}
    <2>1. {m \in DOMAIN R : Balked(R[m], link)} = {m \in DOMAIN P : Balked(P[m], link)}
      BY DEF Alike, Blank
    <2>2. \A n \in {m \in DOMAIN P : Balked(P[m], link)} : AtLast(R[n]).time = AtLast(P[n]).time
      BY DEF Alike
    <2> QED
      BY <2>1, <2>2
  <1>6. /\ [v \in Sent(R, link) \union Rested(R, link) |-> Before(R[v[1]], v[2]).time]
             = [v \in Sent(P, link) \union Rested(P, link) |-> Before(P[v[1]], v[2]).time]
        /\ [v \in Sent(R, link) \union Rested(R, link) |->
              IF v \in Sent(R, link) THEN R[v[1]].hops[v[2]].tx ELSE Freed(R[v[1]], link)]
             = [v \in Sent(P, link) \union Rested(P, link) |->
                  IF v \in Sent(P, link) THEN P[v[1]].hops[v[2]].tx ELSE Freed(P[v[1]], link)]
        /\ [v \in Sent(R, link) |-> R[v[1]].hops[v[2]].tx + R[v[1]].hops[v[2]].serialization]
             = [v \in Sent(P, link) |-> P[v[1]].hops[v[2]].tx + P[v[1]].hops[v[2]].serialization]
    BY <1>1, <1>2, <1>3, <1>4
  <1>7. Device(R, link) = Device(P, link)
    BY <1>1, <1>2, <1>5, <1>6, Zenon DEF Device
  <1>8. InLine(R, link, line)
    <2>1. /\ line \in Seq(Nat) /\ Len(line) <= replay.queue /\ \A i \in 1..Len(line) : line[i] \in DOMAIN P
          /\ \A i, j \in 1..Len(line) :
               i < j => line[i] # line[j] /\ AtLast(P[line[i]]).time <= AtLast(P[line[j]]).time
          /\ \A n \in DOMAIN P : Queued(P[n], link) <=> \E i \in 1..Len(line) : line[i] = n
      BY DEF InLine
    <2>2. ASSUME NEW i \in 1..Len(line) PROVE line[i] \in DOMAIN R /\ AtLast(R[line[i]]).time = AtLast(P[line[i]]).time
      <3>1. line[i] \in DOMAIN P /\ Queued(P[line[i]], link)
        BY <2>1
      <3>2. R[line[i]].hops = P[line[i]].hops /\ R[line[i]].udp = P[line[i]].udp /\ R[line[i]].aim = P[line[i]].aim
        BY <3>1 DEF Queued, Alike
      <3> QED
        BY <3>1, <3>2, SamePlace
    <2>3. \A n \in DOMAIN P : Queued(R[n], link) <=> Queued(P[n], link)
      BY DEF Queued, Alike
    <2>4. \A n \in DOMAIN R : n \notin DOMAIN P => ~Queued(R[n], link)
      BY DEF Queued, Blank
    <2> QED
      BY <2>1, <2>2, <2>3, <2>4 DEF InLine
  <1> QED
    BY <1>7, <1>8

\* The packets so far.
Packets(P, t) == \A n \in DOMAIN P : n \in Nat /\ Tracked(n, P[n], t)

\* A packet is in the queue until it has left it.
LEMMA FreedIs ==
  ASSUME Tabled, NEW n, NEW p, NEW t \in Nat, Tracked(n, p, t), NEW link, Rests(p, link)
  PROVE  Freed(p, link) = End + 1 <=> p.status = "unresolved"
  <1> DEFINE T == {o[1] : o \in {q \in Outages(Across(link)) : q[1] > AtLast(p).time}}
  <1>1. End \in Nat
    BY RowTimes
  <1>2. ASSUME p.status = "outage_queue_drop" PROVE Min(T) # End + 1
    <2>1. EndsRight(p) /\ ~(AtLast(p).time >= End) /\ p.status \in InQueue
      BY <1>1, <1>2 DEF Tracked, Rests, InQueue
    <2>2. Across(link) = Edge(AtLast(p).node, NextNode(RowAt(AtLast(p).time), AtLast(p).node, p.aim))
      BY DEF Rests, Onward, Across
    <2>3. \E o \in Outages(Across(link)) : AtLast(p).time < o[1] /\ o[1] < End
      BY <1>2, <2>1, <2>2, Zenon DEF EndsRight
    <2>4. AtLast(p).time \in Int
      BY PlaceIs DEF Tracked
    <2>5. T # {} /\ \A x \in T : x \in Nat /\ x < End
      BY <2>3, <2>4, OutageTimes
    <2> HIDE DEF T
    <2>6. \E x \in T : \A y \in T : x <= y
      BY <2>5, LeastNatural
    <2>7. Min(T) \in T
      BY <2>6 DEF Min
    <2> QED
      BY <1>1, <2>5, <2>7
  <1>3. End # End + 1
    BY <1>1
  <1> QED
    BY <1>2, <1>3 DEF Freed, Rests

\* Who waits is in the line.
LEMMA LineIs ==
  ASSUME Tabled, NEW P, NEW t \in Nat, Packets(P, t), NEW link, NEW line, InLine(P, link, line)
  PROVE  /\ WaitingAt(Device(P, link)) = {<<line[i], Len(P[line[i]].hops) + 1>> : i \in 1..Len(line)}
         /\ Cardinality(WaitingAt(Device(P, link))) = Len(line) /\ Len(line) \in Nat
         /\ line = <<>> <=> Len(line) = 0
  <1> DEFINE d == Device(P, link)
             f == [i \in 1..Len(line) |-> <<line[i], Len(P[line[i]].hops) + 1>>]
  <1>1. /\ line \in Seq(Nat) /\ \A i \in 1..Len(line) : line[i] \in DOMAIN P
        /\ \A i, j \in 1..Len(line) : i < j => line[i] # line[j]
        /\ \A n \in DOMAIN P : Queued(P[n], link) <=> \E i \in 1..Len(line) : line[i] = n
    BY DEF InLine
  <1>2. Len(line) \in Nat /\ (line = <<>> <=> Len(line) = 0)
    BY <1>1, LenProperties, EmptySeq
  <1>3. \A n \in DOMAIN P : P[n] \in Records
    BY DEF Packets, Tracked
  <1>4. /\ \A v : v \in d.rested <=> v \in (DOMAIN P) \X Nat /\ v[2] = Len(P[v[1]].hops) + 1 /\ Rests(P[v[1]], link)
        /\ \A v \in d.rested : d.out[v] = Freed(P[v[1]], link)
    BY <1>3, DeviceIs
  <1> HIDE DEF d
  <1>5. ASSUME NEW w \in d.rested, d.out[w] = End + 1 PROVE \E i \in 1..Len(line) : w = f[i]
    <2>1. w \in (DOMAIN P) \X Nat /\ w[2] = Len(P[w[1]].hops) + 1 /\ Rests(P[w[1]], link) /\ Freed(P[w[1]], link) = End + 1
      BY <1>4, <1>5
    <2>2. w = <<w[1], w[2]>> /\ w[1] \in DOMAIN P
      BY <2>1
    <2>3. P[w[1]].status = "unresolved"
      BY <2>1, <2>2, FreedIs DEF Packets
    <2>4. PICK i \in 1..Len(line) : line[i] = w[1]
      BY <1>1, <2>1, <2>2, <2>3 DEF Queued
    <2> QED
      BY <2>1, <2>2, <2>4
  <1>6. ASSUME NEW i \in 1..Len(line) PROVE f[i] \in d.rested /\ d.out[f[i]] = End + 1
    <2>1. line[i] \in DOMAIN P /\ Queued(P[line[i]], link)
      BY <1>1
    <2>2. Len(P[line[i]].hops) \in Nat
      BY <1>3, <2>1, PlaceIs
    <2>3. f[i] \in d.rested /\ f[i][1] = line[i]
      BY <1>4, <2>1, <2>2 DEF Queued
    <2>4. Freed(P[line[i]], link) = End + 1
      BY <2>1 DEF Freed, Queued
    <2> QED
      BY <1>4, <2>3, <2>4
  <1>7. WaitingAt(d) = {f[i] : i \in 1..Len(line)}
    <2> HIDE DEF f
    <2> QED
      BY <1>5, <1>6 DEF WaitingAt
  <1>8. \A i, j \in 1..Len(line) : f[i] = f[j] => i = j
    BY <1>1, <1>2
  <1>9. IsFiniteSet(1..Len(line)) /\ Cardinality(1..Len(line)) = Len(line)
    <2> DEFINE b == Len(line)
    <2>1. b \in Int /\ ~(1 > b /\ b # 0) /\ b - 1 + 1 = b
      BY <1>2
    <2> HIDE DEF b
    <2>2. 1 \in Int
      OBVIOUS
    <2>3. IsFiniteSet(1..b) /\ Cardinality(1..b) = IF 1 > b THEN 0 ELSE b - 1 + 1
      BY <2>1, <2>2, FS_Interval, Zenon
    <2>4. Cardinality(1..b) = b
      BY <2>1, <2>3
    <2> QED
      BY <2>3, <2>4 DEF b
  <1>10. Cardinality({f[i] : i \in 1..Len(line)}) = Len(line)
    <2> DEFINE K == 1..Len(line)
    <2>1. IsFiniteSet(K) /\ Cardinality(K) = Len(line) /\ \A i, j \in K : f[i] = f[j] => i = j
      BY <1>8, <1>9
    <2> HIDE DEF f, K
    <2>2. Cardinality({f[i] : i \in K}) = Cardinality(K)
      BY <2>1, Counted
    <2> QED
      BY <2>1, <2>2 DEF K
  <1>11. {f[i] : i \in 1..Len(line)} = {<<line[i], Len(P[line[i]].hops) + 1>> : i \in 1..Len(line)}
    OBVIOUS
  <1> QED
    BY <1>2, <1>7, <1>10, <1>11, Zenon DEF d

LEMMA LinkTicks ==
  ASSUME Tabled, NEW P, NEW t \in Nat, Packets(P, t), NEW link, NEW line, NEW sends, NEW k,
         Linked(P, link, line, sends, t, k), sends # Idle => sends.until # t
  PROVE  Linked(P, link, line, sends, t + 1, k)
  <1> DEFINE d == Device(P, link)
  <1>1. /\ IsDevice(d, t) /\ InLine(P, link, line) /\ Busy(d, line, sends, t)
        /\ line # <<>> => k > 0 /\ rows[k].edges[Across(link)].available
    BY DEF Linked
  <1>2. Cardinality(WaitingAt(d)) <= replay.queue
    BY <1>1, LineIs DEF InLine
  <1> HIDE DEF d
  <1>3. IsDevice(d, t + 1)
    BY <1>1, <1>2, DeviceTicks DEF Tabled
  <1>4. Busy(d, line, sends, t + 1)
    BY <1>1 DEF Busy, IsDevice, Timed
  <1> QED
    BY <1>1, <1>3, <1>4 DEF Linked, d

\* The snapshot's link is gone: its queue is flushed.
LEMMA LinkFlushes ==
  ASSUME Tabled, NEW P, NEW t \in Nat, Packets(P, t), NEW link \in Links, NEW line, NEW sends, NEW k \in Nat,
         Linked(P, link, line, sends, t, k), k < Len(rows), rows[k + 1].time = t, ~rows[k + 1].edges[Across(link)].available,
         \A n \in DOMAIN P : AtLast(P[n]).time < t /\ \A i \in 1..Len(P[n].hops) : P[n].hops[i].tx < t,
         NEW R, DOMAIN R = DOMAIN P, NEW s, s = IF rows[k + 1].state = "stop" THEN "end_of_window_drop" ELSE "outage_queue_drop",
         \A n \in DOMAIN P :
           /\ R[n] \in Records /\ R[n].hops = P[n].hops /\ R[n].udp = P[n].udp /\ R[n].aim = P[n].aim
           /\ R[n].status = P[n].status \/ (P[n].status = "unresolved" /\ R[n].status = s)
           /\ Queued(P[n], link) => R[n].status = s
  PROVE  Linked(R, link, <<>>, sends, t, k + 1)
  <1> DEFINE d == Device(P, link)
             c == Device(R, link)
  <1>1. /\ IsDevice(d, t) /\ InLine(P, link, line) /\ Busy(d, line, sends, t)
    BY DEF Linked
  <1>2. \A n \in DOMAIN P : P[n] \in Records
    BY DEF Packets, Tracked
  <1>3. /\ \A v : v \in d.sent <=> v \in (DOMAIN P) \X Nat /\ Goes(P[v[1]], v[2], link)
        /\ \A v : v \in d.rested <=> v \in (DOMAIN P) \X Nat /\ v[2] = Len(P[v[1]].hops) + 1 /\ Rests(P[v[1]], link)
        /\ \A v \in d.sent \union d.rested : d.adm[v] = Before(P[v[1]], v[2]).time
        /\ \A v \in d.sent : /\ d.out[v] = P[v[1]].hops[v[2]].tx
                             /\ d.end[v] = P[v[1]].hops[v[2]].tx + P[v[1]].hops[v[2]].serialization
        /\ \A v \in d.rested : d.adm[v] = AtLast(P[v[1]]).time /\ d.out[v] = Freed(P[v[1]], link)
        /\ d.drops = {AtLast(P[n]).time : n \in {m \in DOMAIN P : Balked(P[m], link)}}
    BY <1>2, DeviceIs
  <1>4. /\ \A v : v \in c.sent <=> v \in (DOMAIN R) \X Nat /\ Goes(R[v[1]], v[2], link)
        /\ \A v : v \in c.rested <=> v \in (DOMAIN R) \X Nat /\ v[2] = Len(R[v[1]].hops) + 1 /\ Rests(R[v[1]], link)
        /\ \A v \in c.sent \union c.rested : c.adm[v] = Before(R[v[1]], v[2]).time
        /\ \A v \in c.sent : /\ c.out[v] = R[v[1]].hops[v[2]].tx
                             /\ c.end[v] = R[v[1]].hops[v[2]].tx + R[v[1]].hops[v[2]].serialization
        /\ \A v \in c.rested : c.adm[v] = AtLast(R[v[1]]).time /\ c.out[v] = Freed(R[v[1]], link)
        /\ c.drops = {AtLast(R[n]).time : n \in {m \in DOMAIN R : Balked(R[m], link)}}
    BY DeviceIs
  <1> HIDE DEF d, c
  <1>5. \A n \in DOMAIN P : /\ \A i : Before(R[n], i) = Before(P[n], i)
                            /\ AtLast(R[n]) = AtLast(P[n]) /\ Onward(R[n]) = Onward(P[n])
    BY SamePlace
  <1>6. s \in {"outage_queue_drop", "end_of_window_drop"}
    OBVIOUS
  <1>7. ASSUME NEW n \in DOMAIN P
        PROVE  /\ \A i : Goes(R[n], i, link) <=> Goes(P[n], i, link)
               /\ (Rests(R[n], link) <=> Rests(P[n], link)) /\ (Balked(R[n], link) <=> Balked(P[n], link))
    BY <1>5, <1>6 DEF Goes, Rests, Balked
  <1>8. c.sent = d.sent
    <2>1. \A v : v \in c.sent <=> v \in d.sent
      BY <1>3, <1>4, <1>7
    <2> QED
      BY <2>1 DEF c, d, Device, Sent
  <1>9. c.rested = d.rested
    <2>1. \A v : v \in c.rested <=> v \in d.rested
      BY <1>3, <1>4, <1>7, SMTT(30)
    <2> QED
      BY <2>1 DEF c, d, Device, Rested
  <1>10. c.drops = d.drops
    <2>1. {m \in DOMAIN R : Balked(R[m], link)} = {m \in DOMAIN P : Balked(P[m], link)}
      BY <1>7
    <2> QED
      BY <1>3, <1>4, <1>5, <2>1
  <1>11. \A v \in d.sent \union d.rested : c.adm[v] = d.adm[v]
    BY <1>3, <1>4, <1>5, <1>8, <1>9
  <1>12. \A v \in d.sent : c.end[v] = d.end[v] /\ c.out[v] = d.out[v] /\ d.out[v] < t
    <2> TAKE v \in d.sent
    <2>1. v[1] \in DOMAIN P /\ v[2] \in 1..Len(P[v[1]].hops)
      BY <1>3 DEF Goes
    <2> QED
      BY <1>3, <1>4, <1>8, <2>1, SMTT(30)
  <1>13. ASSUME NEW w \in d.rested PROVE c.out[w] = IF d.out[w] = End + 1 THEN t ELSE d.out[w]
    <2> DEFINE p == P[w[1]]
               q == R[w[1]]
               a == AtLast(p).time
    <2>1. w[1] \in DOMAIN P /\ Rests(p, link) /\ d.out[w] = Freed(p, link) /\ c.out[w] = Freed(q, link)
      BY <1>3, <1>4, <1>9
    <2>2. Tracked(w[1], p, t) /\ p \in Records
      BY <2>1 DEF Packets, Tracked
    <2>3. Freed(p, link) = End + 1 <=> p.status = "unresolved"
      BY <2>1, <2>2, FreedIs
    <2>4. ASSUME p.status # "unresolved" PROVE Freed(q, link) = Freed(p, link)
      BY <1>5, <2>1, <2>4 DEF Freed
    <2>5. ASSUME p.status = "unresolved" PROVE Freed(q, link) = t
      <3>1. q.status = s
        BY <2>1, <2>5 DEF Queued
      <3>2. AtLast(q).time = a /\ a < t /\ a \in Nat
        BY <1>5, <2>1, RowTimes DEF Rests
      <3>3. ~Flies(p)
        <4>1. AtLast(p).time # None
          BY <3>2 DEF None
        <4> QED
          BY <2>2, <4>1, PlaceIs DEF Flies
      <3>4. ~Overlaps(Across(link), a, t)
        BY <2>1, <2>2, <2>5, <3>3 DEF Tracked, Waiting, Rests
      <3>5. k + 1 \in 1..Len(rows) /\ Len(rows) \in Nat
        BY RowTimes
      <3>6. CASE rows[k + 1].state = "stop"
        <4>1. k + 1 = Len(rows)
          BY <3>5, <3>6, RowIs
        <4>2. t = End
          BY <4>1, RowTimes
        <4> QED
          BY <3>1, <3>6, <4>2 DEF Freed
      <3>7. CASE rows[k + 1].state # "stop"
        <4>1. k + 1 < Len(rows)
          BY <3>5, <3>7, RowIs
        <4>2. Min({o[1] : o \in {x \in Outages(Across(link)) : x[1] > a}}) = t
          BY <3>2, <3>4, <3>5, <4>1, OutageFirst
        <4> QED
          BY <3>1, <3>2, <3>7, <4>2 DEF Freed
      <3> QED
        BY <3>6, <3>7
    <2> QED
      BY <2>1, <2>3, <2>4, <2>5
  <1>14. \A w \in WaitingAt(d) : d.adm[w] < t
    BY <1>3 DEF WaitingAt
  <1>15. WaitingAt(d) # {} => \E x \in d.sent : d.end[x] >= t
    <2> SUFFICES ASSUME WaitingAt(d) # {} PROVE \E x \in d.sent : d.end[x] >= t
      OBVIOUS
    <2>1. line # <<>>
      <3>1. WaitingAt(d) = {<<line[i], Len(P[line[i]].hops) + 1>> : i \in 1..Len(line)} /\ (line = <<>> <=> Len(line) = 0)
        BY <1>1, LineIs DEF d
      <3> QED
        BY <3>1
    <2> QED
      BY <1>1, <2>1 DEF Busy
  <1>16. \A x \in d.drops : x < t
    BY <1>3
  <1>17. t <= End
    <2>1. k + 1 \in 1..Len(rows)
      BY RowTimes
    <2> QED
      BY <2>1, RowIs
  <1>18. IsDevice(c, t)
    BY <1>1, <1>8, <1>9, <1>10, <1>11, <1>12, <1>13, <1>14, <1>15, <1>16, <1>17, DeviceFlushes DEF Tabled
  <1>19. InLine(R, link, <<>>)
    <2>1. \A n \in DOMAIN R : ~Queued(R[n], link)
      BY <1>6, <1>7 DEF Queued
    <2>2. <<>> \in Seq(Nat) /\ Len(<<>>) = 0
      BY EmptySeq
    <2>3. replay.queue \in Nat
      BY NetworkReplayAssumption DEF NetworkReplayAssumption, Tabled, Chosen
    <2> QED
      BY <2>1, <2>2, <2>3 DEF InLine
  <1>20. Busy(c, <<>>, sends, t)
    BY <1>1, <1>8, <1>12 DEF Busy
  <1> QED
    BY <1>18, <1>19, <1>20 DEF Linked, c

\* One packet's record is another.
Sets(R, P, n, q) ==
  DOMAIN R = DOMAIN P /\ n \in DOMAIN P /\ R[n] = q /\ \A m \in DOMAIN P : m # n => R[m] = P[m]

LEMMA LinkElse ==
  ASSUME NEW P, NEW R, NEW n, NEW q, Sets(R, P, n, q), NEW link, NEW line, InLine(P, link, line), Alike(P[n], q, link)
  PROVE  Device(R, link) = Device(P, link) /\ InLine(R, link, line)
  <1>1. \A p : Alike(p, p, link)
    BY DEF Alike
  <1>2. \A m \in DOMAIN P : Alike(P[m], R[m], link)
    BY <1>1 DEF Sets
  <1>3. DOMAIN P \subseteq DOMAIN R /\ \A m \in DOMAIN R : m \notin DOMAIN P => Blank(R[m], link)
    BY DEF Sets
  <1> QED
    BY <1>2, <1>3, LinkSame

\* A packet in flight visits no queue.
LEMMA FlightRests ==
  ASSUME NEW p, AtLast(p).time = None, NEW link
  PROVE  ~Rests(p, link)
  <1>1. None \notin 0..(End - 1)
    BY DEF None
  <1> QED
    BY <1>1 DEF Rests

LEMMA FliesIs == ASSUME NEW p \in Records, Flies(p) PROVE AtLast(p).time = None
  BY PlaceIs DEF Flies

\* Visits after a packet is sent.
LEMMA SentGoes ==
  ASSUME NEW p \in Records, NEW link, link = <<link[1], link[2]>>, NEW hop \in Hops, hop.from = link[1], hop.to = link[2],
         NEW q, SentOn(q, p, hop), NEW other
  PROVE  \A i : Goes(q, i, other) <=> Goes(p, i, other) \/ (i = Len(p.hops) + 1 /\ other = link)
  <1> DEFINE c == Len(p.hops)
  <1>1. /\ c \in Nat /\ Len(q.hops) = c + 1 /\ q.hops[c + 1] = hop /\ \A i \in 1..c : q.hops[i] = p.hops[i]
    BY SentOnIs
  <1>2. \A i : i \in 1..(c + 1) <=> i \in 1..c \/ i = c + 1
    BY <1>1
  <1>3. c + 1 \notin 1..c
    BY <1>1
  <1> HIDE DEF c
  <1>4. ASSUME NEW i PROVE Goes(q, i, other) <=> Goes(p, i, other) \/ (i = c + 1 /\ other = link)
    <2>1. CASE i = c + 1
      BY <1>1, <1>2, <1>3, <2>1 DEF Goes, c
    <2>2. CASE i # c + 1
      BY <1>1, <1>2, <2>2 DEF Goes, c
    <2> QED
      BY <2>1, <2>2
  <1> QED
    BY <1>4 DEF c

\* Of the other devices.
LEMMA AlikeSent ==
  ASSUME NEW p \in Records, NEW t, Handed(p, t), NEW link, Onward(p) = link, link = <<link[1], link[2]>>,
         NEW hop \in Hops, hop.from = link[1], hop.to = link[2], hop.rx = None,
         NEW q, SentOn(q, p, hop), NEW other, other # link
  PROVE  Alike(p, q, other)
  <1> DEFINE c == Len(p.hops)
  <1>1. /\ c \in Nat /\ Len(q.hops) = c + 1 /\ q.hops[c + 1] = hop /\ \A i \in 1..c : q.hops[i] = p.hops[i]
        /\ \A i \in 1..(c + 1) : Before(q, i) = Before(p, i)
        /\ AtLast(q).time = None
    BY SentOnIs
  <1>2. \A i : Goes(q, i, other) <=> Goes(p, i, other)
    BY SentGoes
  <1>3. \A i : Goes(p, i, other) => i \in 1..c /\ i \in 1..(c + 1)
    BY <1>1 DEF Goes
  <1>4. ~Rests(q, other) /\ ~Rests(p, other)
    BY <1>1, FlightRests DEF Rests
  <1>5. ~Balked(q, other) /\ ~Balked(p, other)
    BY DEF Balked, SentOn, Handed
  <1> QED
    BY <1>1, <1>2, <1>3, <1>4, <1>5 DEF Alike

\* Of each device, when a packet lands or ends.
LEMMA AlikeLanded ==
  ASSUME NEW p \in Records, Flies(p), p.status = "unresolved", NEW hop, NEW t, NEW lost \in BOOLEAN,
         HopOver(hop, p.hops[Len(p.hops)], t, lost),
         NEW q, LandedOn(q, p, hop, lost), NEW link
  PROVE  Alike(p, q, link)
  <1> DEFINE c == Len(p.hops)
  <1>1. c \in Nat /\ c > 0
    BY PlaceIs DEF Flies
  <1>2. hop \in Hops
    BY DEF HopOver
  <1>3. /\ Len(q.hops) = c /\ q.hops[c] = hop /\ \A i \in 1..(c - 1) : q.hops[i] = p.hops[i]
        /\ \A i \in 1..c : Before(q, i) = Before(p, i)
        /\ AtLast(q) = [node |-> hop.to, time |-> hop.rx] /\ q.hops # <<>>
    <2>1. c > 0
      BY <1>1
    <2> HIDE DEF c
    <2>2. Relaid(q, p, hop)
      BY <1>2, <2>1, LandedOnIs, ZenonT(60) DEF c
    <2> QED
      BY <2>2 DEF Relaid, c
  <1>4. /\ hop.from = p.hops[c].from /\ hop.to = p.hops[c].to /\ hop.tx = p.hops[c].tx
        /\ hop.serialization = p.hops[c].serialization
    BY DEF HopOver
  <1>5. \A i \in 1..c : /\ q.hops[i].from = p.hops[i].from /\ q.hops[i].to = p.hops[i].to /\ q.hops[i].tx = p.hops[i].tx
                        /\ q.hops[i].serialization = p.hops[i].serialization
    <2> TAKE i \in 1..c
    <2>1. i = c \/ i \in 1..(c - 1)
      BY <1>1
    <2> QED
      BY <1>3, <1>4, <2>1
  <1>6. ~Rests(p, link) /\ ~Rests(q, link)
    BY FliesIs, FlightRests DEF Rests, LandedOn
  <1>7. ~Balked(p, link) /\ ~Balked(q, link)
    BY DEF Balked, LandedOn
  <1> QED
    BY <1>3, <1>5, <1>6, <1>7 DEF Alike, Goes

LEMMA AlikeEnded ==
  ASSUME NEW p, NEW q, p.status = "loose", q.hops = p.hops, q.udp = p.udp, q.aim = p.aim, NEW link,
         q.status \in {"received", "received_after_window", "route_drop"}
           \/ (q.status = "end_of_window_drop" /\ AtLast(p).time \notin 0..(End - 1))
  PROVE  Alike(p, q, link)
  <1>1. (\A i : Before(q, i) = Before(p, i)) /\ AtLast(q) = AtLast(p)
    BY SamePlace
  <1> QED
    BY <1>1 DEF Alike, Goes, Rests, Balked

\* Of the other devices, when a packet waits for its device or finds its queue full.
LEMMA AlikeQueued ==
  ASSUME NEW p, NEW q, p.status = "loose", q.hops = p.hops, q.udp = p.udp, q.aim = p.aim, q.status \in {"unresolved", "queue_drop"},
         NEW other, Onward(p) # other
  PROVE  Alike(p, q, other)
  <1>1. (\A i : Before(q, i) = Before(p, i)) /\ AtLast(q) = AtLast(p) /\ Onward(q) = Onward(p)
    BY SamePlace
  <1> QED
    BY <1>1 DEF Alike, Goes, Rests, Balked

\* The device sends a packet: one that comes when it is idle, or the head of its queue when it has sent another.
LEMMA LinkSends ==
  ASSUME Tabled, NEW P, NEW t \in Nat, Packets(P, t), t < End, NEW link \in Links, NEW line, NEW sends, NEW k,
         Linked(P, link, line, sends, t, k), k \in 1..Len(rows), rows[k].edges[Across(link)].available,
         NEW n \in DOMAIN P, Handed(P[n], t), Onward(P[n]) = link, NEW rest,
         \/ P[n].status = "loose" /\ sends = Idle /\ rest = <<>>
         \/ P[n].status = "unresolved" /\ line # <<>> /\ n = line[1] /\ sends # Idle /\ sends.until = t /\ rest = Tail(line),
         NEW hop, HopOn(hop, link, RowAt(t).edges[Across(link)], t), hop.serialization > 0,
         NEW q, SentOn(q, P[n], hop), NEW R, Sets(R, P, n, q), NEW next, next.until = t + hop.serialization
  PROVE  Linked(R, link, rest, next, t, k)
  <1> DEFINE d == Device(P, link)
             c == Device(R, link)
             p == P[n]
             v0 == <<n, Len(p.hops) + 1>>
             a == AtLast(p).time
  <1>1. IsDevice(d, t) /\ InLine(P, link, line) /\ Busy(d, line, sends, t)
    BY DEF Linked
  <1>2. \A m \in DOMAIN P : P[m] \in Records
    BY DEF Packets, Tracked
  <1>3. q \in Records /\ q.status = "unresolved" /\ hop \in Hops /\ hop.rx = None /\ hop.from = link[1] /\ hop.to = link[2]
        /\ hop.tx = t /\ hop.serialization \in Nat
    BY DEF SentOn, HopOn, Hops
  <1>4. \A m \in DOMAIN R : R[m] \in Records
    BY <1>2, <1>3 DEF Sets
  <1>5. /\ \A v : v \in d.sent <=> v \in (DOMAIN P) \X Nat /\ Goes(P[v[1]], v[2], link)
        /\ \A v : v \in d.rested <=> v \in (DOMAIN P) \X Nat /\ v[2] = Len(P[v[1]].hops) + 1 /\ Rests(P[v[1]], link)
        /\ \A v \in d.sent : v \notin d.rested
        /\ \A v \in d.sent \union d.rested : d.adm[v] = Before(P[v[1]], v[2]).time
        /\ \A v \in d.sent : /\ d.out[v] = P[v[1]].hops[v[2]].tx
                             /\ d.end[v] = P[v[1]].hops[v[2]].tx + P[v[1]].hops[v[2]].serialization
        /\ \A v \in d.rested : d.adm[v] = AtLast(P[v[1]]).time /\ d.out[v] = Freed(P[v[1]], link)
        /\ d.drops = {AtLast(P[m]).time : m \in {l \in DOMAIN P : Balked(P[l], link)}}
    BY <1>2, DeviceIs
  <1>6. /\ \A v : v \in c.sent <=> v \in (DOMAIN R) \X Nat /\ Goes(R[v[1]], v[2], link)
        /\ \A v : v \in c.rested <=> v \in (DOMAIN R) \X Nat /\ v[2] = Len(R[v[1]].hops) + 1 /\ Rests(R[v[1]], link)
        /\ \A v \in c.sent : v \notin c.rested
        /\ \A v \in c.sent \union c.rested : c.adm[v] = Before(R[v[1]], v[2]).time
        /\ \A v \in c.sent : /\ c.out[v] = R[v[1]].hops[v[2]].tx
                             /\ c.end[v] = R[v[1]].hops[v[2]].tx + R[v[1]].hops[v[2]].serialization
        /\ \A v \in c.rested : c.adm[v] = AtLast(R[v[1]]).time /\ c.out[v] = Freed(R[v[1]], link)
        /\ c.drops = {AtLast(R[m]).time : m \in {l \in DOMAIN R : Balked(R[l], link)}}
    BY <1>4, DeviceIs
  <1>7. link = <<link[1], link[2]>>
    BY LinkIs
  <1>8. /\ \A m \in DOMAIN P : m # n => R[m] = P[m]
        /\ R[n] = q /\ DOMAIN R = DOMAIN P /\ n \in Nat /\ p \in Records
    BY <1>2 DEF Sets, Packets
  <1>9. /\ Len(p.hops) \in Nat /\ Len(q.hops) = Len(p.hops) + 1 /\ q.hops[Len(p.hops) + 1] = hop
        /\ \A i \in 1..Len(p.hops) : q.hops[i] = p.hops[i]
        /\ \A i \in 1..(Len(p.hops) + 1) : Before(q, i) = Before(p, i)
        /\ AtLast(q).time = None
    BY <1>3, <1>8, SentOnIs
  <1>10. \A i : Goes(q, i, link) <=> Goes(p, i, link) \/ i = Len(p.hops) + 1
    BY <1>3, <1>7, <1>8, SentGoes
  <1>11. ~Rests(q, link) /\ ~Balked(q, link) /\ ~Balked(p, link)
    BY <1>3, <1>9, FlightRests DEF Balked, Handed
  <1>12. v0 \notin d.sent /\ v0 \in (DOMAIN P) \X Nat /\ v0[1] = n /\ v0[2] = Len(p.hops) + 1
    <2>1. v0 \in (DOMAIN P) \X Nat /\ v0[1] = n /\ v0[2] = Len(p.hops) + 1
      BY <1>8, <1>9
    <2>2. ~Goes(p, Len(p.hops) + 1, link)
      BY <1>9 DEF Goes
    <2> QED
      BY <1>5, <2>1, <2>2
  <1> HIDE DEF v0
  <1>13. \A v : v \in (DOMAIN P) \X Nat /\ v[1] = n /\ v[2] = Len(p.hops) + 1 => v = v0
    BY DEF v0
  <1> HIDE DEF d, c
  <1>14. c.sent = d.sent \union {v0}
    <2>1. ASSUME NEW v PROVE v \in c.sent <=> v \in d.sent \/ v = v0
      <3>1. CASE v \in (DOMAIN P) \X Nat /\ v[1] = n
        <4>1. v \in c.sent <=> Goes(q, v[2], link)
          BY <1>6, <1>8, <3>1
        <4>2. v \in d.sent <=> Goes(p, v[2], link)
          BY <1>5, <3>1
        <4> QED
          BY <1>10, <1>12, <1>13, <3>1, <4>1, <4>2
      <3>2. CASE v \in (DOMAIN P) \X Nat /\ v[1] # n
        <4>1. v[1] \in DOMAIN P
          BY <3>2
        <4> QED
          BY <1>5, <1>6, <1>8, <1>12, <3>2, <4>1
      <3>3. CASE v \notin (DOMAIN P) \X Nat
        BY <1>5, <1>6, <1>8, <1>12, <3>3
      <3> QED
        BY <3>1, <3>2, <3>3
    <2> QED
      BY <2>1 DEF c, d, Device, Sent
  <1>15. c.rested = d.rested \ {v0}
    <2>1. ASSUME NEW v PROVE v \in c.rested <=> v \in d.rested /\ v # v0
      <3>1. CASE v \in (DOMAIN P) \X Nat /\ v[1] = n
        <4>1. v \notin c.rested
          BY <1>6, <1>8, <1>11, <3>1
        <4>2. v \in d.rested => v[2] = Len(p.hops) + 1
          BY <1>5, <3>1
        <4> QED
          BY <1>13, <3>1, <4>1, <4>2
      <3>2. CASE v \in (DOMAIN P) \X Nat /\ v[1] # n
        <4>1. v[1] \in DOMAIN P
          BY <3>2
        <4> QED
          BY <1>5, <1>6, <1>8, <1>12, <3>2, <4>1
      <3>3. CASE v \notin (DOMAIN P) \X Nat
        BY <1>5, <1>6, <1>8, <1>12, <3>3
      <3> QED
        BY <3>1, <3>2, <3>3
    <2> QED
      BY <2>1 DEF c, d, Device, Rested
  <1>16. c.drops = d.drops
    <2>1. {l \in DOMAIN R : Balked(R[l], link)} = {l \in DOMAIN P : Balked(P[l], link)}
      BY <1>8, <1>11
    <2>2. \A m \in {l \in DOMAIN P : Balked(P[l], link)} : R[m] = P[m]
      BY <1>8, <1>11
    <2> QED
      BY <1>5, <1>6, <2>1, <2>2
  <1>17. ASSUME NEW v \in d.sent \union d.rested PROVE c.adm[v] = d.adm[v] /\ (v # v0 => c.out[v] = d.out[v])
    <2>1. v \in c.sent \union c.rested
      BY <1>14, <1>15
    <2>2. v \in (DOMAIN P) \X Nat /\ v[1] \in DOMAIN P
      BY <1>5
    <2>3. CASE v[1] # n
      <3>1. R[v[1]] = P[v[1]]
        BY <1>8, <2>2, <2>3
      <3>2. v # v0
        BY <1>12, <2>3
      <3>3. c.out[v] = d.out[v]
        <4>1. CASE v \in d.sent
          BY <1>5, <1>6, <1>14, <3>1, <4>1
        <4>2. CASE v \in d.rested
          BY <1>5, <1>6, <1>15, <3>1, <3>2, <4>2
        <4> QED
          BY <4>1, <4>2
      <3> QED
        BY <1>5, <1>6, <2>1, <3>1, <3>3
    <2>4. CASE v[1] = n
      <3>1. CASE v \in d.sent
        <4>1. v[2] \in 1..Len(p.hops)
          BY <1>5, <2>4, <3>1 DEF Goes
        <4>2. Before(q, v[2]) = Before(p, v[2]) /\ q.hops[v[2]] = p.hops[v[2]]
          BY <1>9, <4>1
        <4> QED
          BY <1>5, <1>6, <1>8, <1>14, <2>1, <2>4, <3>1, <4>2
      <3>2. CASE v \in d.rested
        <4>1. v[2] = Len(p.hops) + 1
          BY <1>5, <2>4, <3>2
        <4>2. v = v0
          BY <1>13, <2>2, <2>4, <4>1
        <4>3. Before(q, v[2]) = Before(p, v[2])
          BY <1>9, <4>1
        <4> QED
          BY <1>5, <1>6, <1>8, <2>1, <2>4, <4>2, <4>3
      <3> QED
        BY <3>1, <3>2
    <2> QED
      BY <2>3, <2>4
  <1>18. \A v \in d.sent : c.end[v] = d.end[v]
    <2> TAKE v \in d.sent
    <2>1. v \in c.sent /\ v[1] \in DOMAIN P /\ v[2] \in 1..Len(P[v[1]].hops)
      BY <1>5, <1>14 DEF Goes
    <2>2. R[v[1]].hops[v[2]] = P[v[1]].hops[v[2]]
      <3>1. CASE v[1] = n
        <4>1. v[2] \in 1..Len(p.hops) /\ R[v[1]] = q
          BY <1>8, <2>1, <3>1
        <4> QED
          BY <1>9, <3>1, <4>1
      <3>2. CASE v[1] # n
        BY <1>8, <2>1, <3>2
      <3> QED
        BY <3>1, <3>2
    <2> QED
      BY <1>5, <1>6, <2>1, <2>2
  <1>19. c.adm[v0] = a /\ c.out[v0] = t /\ c.end[v0] = t + hop.serialization
    <2>1. v0 \in c.sent
      BY <1>14
    <2>2. Before(q, Len(p.hops) + 1) = AtLast(p)
      BY <1>9 DEF AtLast
    <2>3. R[v0[1]] = q /\ v0[2] = Len(p.hops) + 1
      BY <1>8, <1>12
    <2>4. /\ c.adm[v0] = Before(R[v0[1]], v0[2]).time /\ c.out[v0] = R[v0[1]].hops[v0[2]].tx
          /\ c.end[v0] = R[v0[1]].hops[v0[2]].tx + R[v0[1]].hops[v0[2]].serialization
      BY <1>6, <2>1, ZenonT(60)
    <2>5. R[v0[1]].hops[v0[2]] = hop
      BY <1>9, <2>3
    <2>6. Before(R[v0[1]], v0[2]) = AtLast(p)
      BY <2>2, <2>3
    <2>7. hop.tx = t
      BY <1>3
    <2> QED
      BY <2>4, <2>5, <2>6, <2>7
  <1>20. a \in Nat /\ a <= t
    <2>1. a <= t /\ (p.status = "loose" => a = t) /\ (p.status = "unresolved" => Waiting(p, t))
      BY DEF Packets, Tracked, Handed
    <2>2. Waiting(p, t) => a \in Nat
      BY RowTimes DEF Waiting
    <2> QED
      BY <2>1, <2>2 DEF Handed
  <1>21. /\ WaitingAt(d) = {<<line[i], Len(P[line[i]].hops) + 1>> : i \in 1..Len(line)}
         /\ Len(line) \in Nat /\ (line = <<>> <=> Len(line) = 0)
    BY <1>1, LineIs DEF d
  <1> HIDE DEF a
  <1>22. /\ Chosen /\ IsDevice(d, t) /\ t < End /\ a \in Nat /\ a <= t /\ v0 \notin d.sent
         /\ c.sent = d.sent \union {v0} /\ c.rested = d.rested \ {v0} /\ c.drops = d.drops
         /\ \A v \in d.sent \union d.rested : c.adm[v] = d.adm[v] /\ (v # v0 => c.out[v] = d.out[v])
         /\ \A v \in d.sent : c.end[v] = d.end[v]
         /\ c.adm[v0] = a /\ c.out[v0] = t /\ c.end[v0] \in Nat /\ c.end[v0] > t
    <2>1. c.end[v0] \in Nat /\ c.end[v0] > t
      BY <1>3, <1>19
    <2>2. Chosen
      BY DEF Tabled
    <2> QED
      BY <1>1, <1>12, <1>14, <1>15, <1>16, <1>17, <1>18, <1>19, <1>20, <2>1, <2>2
  <1>23. CASE P[n].status = "loose" /\ sends = Idle /\ rest = <<>>
    <2>1. line = <<>> /\ WaitingAt(d) = {}
      BY <1>1, <1>21, <1>23 DEF Busy
    <2>2. \A u \in d.sent : d.end[u] <= t
      BY <1>1, <1>23 DEF Busy
    <2>3. a = t
      BY <1>23 DEF Packets, Tracked, a
    <2>4. \A u \in d.sent : d.adm[u] <= a
      BY <1>1, <2>3 DEF IsDevice, Timed
    <2>5. v0 \notin d.rested
      BY <1>5, <1>12, <1>23 DEF Rests
    <2>6. IsDevice(c, t)
      <3>1. /\ \A u \in d.sent : d.end[u] <= t /\ d.adm[u] <= a
            /\ \A w \in WaitingAt(d) : a <= d.adm[w]
            /\ v0 \notin d.rested /\ a = t /\ WaitingAt(d) = {}
        BY <2>1, <2>2, <2>3, <2>4, <2>5
      <3>2. \/ v0 \notin d.rested /\ a = t /\ WaitingAt(d) = {}
            \/ v0 \in WaitingAt(d) /\ \E u \in d.sent : d.end[u] = t
        BY <3>1
      <3>3. Sends(d, c, v0, a, t)
        BY <1>22, <3>1, <3>2 DEF Sends
      <3> QED
        BY <1>22, <3>3, DeviceSends
    <2>7. InLine(R, link, rest)
      <3>2. \A m \in DOMAIN P : ~Queued(P[m], link)
        BY <1>1, <1>21, <2>1 DEF InLine
      <3>3. \A m \in DOMAIN R : ~Queued(R[m], link)
        BY <1>8, <1>11, <3>2 DEF Queued
      <3>4. rest \in Seq(Nat) /\ Len(rest) = 0
        BY <1>23, EmptySeq
      <3>5. replay.queue \in Nat
        BY NetworkReplayAssumption DEF NetworkReplayAssumption, Tabled, Chosen
      <3> QED
        BY <3>3, <3>4, <3>5 DEF InLine
    <2>8. Busy(c, rest, next, t)
      <3>1. next # Idle
        BY <1>3 DEF Idle
      <3>2. \A v \in c.sent : c.end[v] <= next.until
        BY <1>1, <1>3, <1>14, <1>18, <1>19, <2>2 DEF IsDevice, Timed
      <3>3. v0 \in c.sent /\ c.end[v0] = next.until
        BY <1>14, <1>19
      <3> QED
        BY <1>3, <3>1, <3>2, <3>3 DEF Busy
    <2> QED
      BY <2>6, <2>7, <2>8, Zenon, <1>23 DEF Linked, c
  <1>24. CASE P[n].status = "unresolved" /\ line # <<>> /\ n = line[1] /\ sends # Idle /\ sends.until = t /\ rest = Tail(line)
    <2>1. 1 \in 1..Len(line) /\ line \in Seq(Nat)
      BY <1>1, <1>21, <1>24 DEF InLine
    <2>2. Queued(p, link)
      BY <1>1, <1>24, <2>1 DEF InLine
    <2>3. v0 \in d.rested /\ v0 \in WaitingAt(d)
      <3>1. Freed(p, link) = End + 1
        BY <1>24 DEF Freed
      <3> QED
        BY <1>5, <1>12, <2>2, <3>1 DEF Queued, WaitingAt
    <2>4. \A u \in d.sent : d.end[u] <= t
      BY <1>1, <1>24 DEF Busy
    <2>5. \E u \in d.sent : d.end[u] = t
      BY <1>1, <1>24 DEF Busy
    <2>6. \A u \in d.sent : d.adm[u] <= a
      <3>1. Patient(d, v0) /\ d.out[v0] = End + 1 /\ d.adm[v0] = a
        BY <1>1, <1>5, <1>12, <2>3 DEF IsDevice, WaitingAt, a
      <3>2. \A u \in d.sent : d.out[u] < End + 1
        BY <1>1, RowTimes DEF IsDevice, Timed
      <3> QED
        BY <3>1, <3>2 DEF Patient
    <2>7. \A w \in WaitingAt(d) : a <= d.adm[w]
      <3> SUFFICES ASSUME NEW w \in WaitingAt(d) PROVE a <= d.adm[w]
        OBVIOUS
      <3>1. PICK i \in 1..Len(line) : w = <<line[i], Len(P[line[i]].hops) + 1>>
        BY <1>21
      <3>2. d.adm[w] = AtLast(P[line[i]]).time
        BY <1>5, <3>1 DEF WaitingAt
      <3>3. i = 1 \/ AtLast(P[line[1]]).time <= AtLast(P[line[i]]).time
        BY <1>1, <2>1, <3>1 DEF InLine
      <3> QED
        BY <1>20, <1>24, <3>2, <3>3 DEF a
    <2>8. IsDevice(c, t)
      <3>1. /\ \A u \in d.sent : d.end[u] <= t /\ d.adm[u] <= a
            /\ \A w \in WaitingAt(d) : a <= d.adm[w]
        BY <2>4, <2>6, <2>7
      <3>2. \/ v0 \notin d.rested /\ a = t /\ WaitingAt(d) = {}
            \/ v0 \in WaitingAt(d) /\ \E u \in d.sent : d.end[u] = t
        BY <2>3, <2>5
      <3>3. Sends(d, c, v0, a, t)
        BY <1>22, <3>1, <3>2 DEF Sends
      <3> QED
        BY <1>22, <3>3, DeviceSends
    <2>9. InLine(R, link, rest)
      <3>1. /\ rest \in Seq(Nat) /\ Len(rest) = Len(line) - 1
            /\ \A i \in 1..Len(rest) : rest[i] = line[i + 1] /\ i + 1 \in 1..Len(line)
        BY <1>21, <1>24, <2>1, HeadTailProperties
      <3>2. /\ Len(line) <= replay.queue /\ \A i \in 1..Len(line) : line[i] \in DOMAIN P
            /\ \A i, j \in 1..Len(line) :
                 i < j => line[i] # line[j] /\ AtLast(P[line[i]]).time <= AtLast(P[line[j]]).time
            /\ \A m \in DOMAIN P : Queued(P[m], link) <=> \E i \in 1..Len(line) : line[i] = m
        BY <1>1 DEF InLine
      <3>3. replay.queue \in Nat
        BY NetworkReplayAssumption DEF NetworkReplayAssumption, Tabled, Chosen
      <3>4. ASSUME NEW i \in 1..Len(rest)
            PROVE  rest[i] \in DOMAIN P /\ rest[i] # n /\ R[rest[i]] = P[rest[i]] /\ rest[i] \in DOMAIN R
        <4>1. i + 1 \in 1..Len(line) /\ 1 < i + 1 /\ rest[i] = line[i + 1]
          BY <3>1
        <4> QED
          BY <1>8, <1>24, <2>1, <3>2, <4>1
      <3>5. ASSUME NEW i \in 1..Len(rest), NEW j \in 1..Len(rest), i < j
            PROVE  rest[i] # rest[j] /\ AtLast(R[rest[i]]).time <= AtLast(R[rest[j]]).time
        <4>1. i + 1 \in 1..Len(line) /\ j + 1 \in 1..Len(line) /\ i + 1 < j + 1
          BY <3>1, <3>5
        <4>2. rest[i] = line[i + 1] /\ rest[j] = line[j + 1] /\ R[rest[i]] = P[rest[i]] /\ R[rest[j]] = P[rest[j]]
          BY <3>1, <3>4
        <4>3. line[i + 1] # line[j + 1] /\ AtLast(P[line[i + 1]]).time <= AtLast(P[line[j + 1]]).time
          BY <3>2, <4>1
        <4> QED
          BY <4>2, <4>3
      <3>6. ASSUME NEW m \in DOMAIN R PROVE Queued(R[m], link) <=> \E i \in 1..Len(rest) : rest[i] = m
        <4>1. CASE m = n
          BY <1>8, <1>11, <3>4, <4>1 DEF Queued
        <4>2. CASE m # n
          <5>1. m \in DOMAIN P /\ R[m] = P[m]
            BY <1>8, <4>2
          <5>2. ASSUME NEW i \in 1..Len(line), line[i] = m PROVE i - 1 \in 1..Len(rest) /\ rest[i - 1] = m
            <6>1. i # 1
              BY <1>24, <4>2, <5>2
            <6>2. i - 1 \in 1..Len(rest) /\ (i - 1) + 1 = i
              BY <1>21, <3>1, <6>1
            <6> QED
              BY <3>1, <5>2, <6>2
          <5> QED
            BY <3>1, <3>2, <5>1, <5>2
        <4> QED
          BY <4>1, <4>2
      <3>7. Len(rest) <= replay.queue
        BY <1>21, <3>1, <3>2, <3>3
      <3> QED
        BY <3>1, <3>4, <3>5, <3>6, <3>7 DEF InLine
    <2>10. Busy(c, rest, next, t)
      <3>1. next # Idle
        BY <1>3 DEF Idle
      <3>2. \A v \in c.sent : c.end[v] <= next.until
        BY <1>1, <1>3, <1>14, <1>18, <1>19, <2>4 DEF IsDevice, Timed
      <3>3. v0 \in c.sent /\ c.end[v0] = next.until
        BY <1>14, <1>19
      <3> QED
        BY <1>3, <3>1, <3>2, <3>3 DEF Busy
    <2>11. k > 0
      BY RowTimes
    <2> QED
      BY <2>8, <2>9, <2>10, <2>11 DEF Linked, c
  <1> QED
    BY <1>23, <1>24

\* The device is busy: a packet waits for it, or finds its queue full.
LEMMA LinkQueues ==
  ASSUME Tabled, NEW P, NEW t \in Nat, Packets(P, t), t < End, NEW link \in Links, NEW line, NEW sends, NEW k,
         Linked(P, link, line, sends, t, k), k > 0, rows[k].edges[Across(link)].available,
         NEW n \in DOMAIN P, P[n].status = "loose", Onward(P[n]) = link, sends # Idle,
         NEW q \in Records, q.hops = P[n].hops, q.udp = P[n].udp, q.aim = P[n].aim, NEW R, Sets(R, P, n, q), NEW more,
         \/ q.status = "unresolved" /\ Len(line) < replay.queue /\ more = Append(line, n)
         \/ q.status = "queue_drop" /\ Len(line) >= replay.queue /\ more = line
  PROVE  Linked(R, link, more, sends, t, k)
  <1> DEFINE d == Device(P, link)
             c == Device(R, link)
             p == P[n]
             w0 == <<n, Len(p.hops) + 1>>
  <1>1. IsDevice(d, t) /\ InLine(P, link, line) /\ Busy(d, line, sends, t)
    BY DEF Linked
  <1>2. \A m \in DOMAIN P : P[m] \in Records
    BY DEF Packets, Tracked
  <1>3. \A m \in DOMAIN R : R[m] \in Records
    BY <1>2 DEF Sets
  <1>4. /\ \A v : v \in d.sent <=> v \in (DOMAIN P) \X Nat /\ Goes(P[v[1]], v[2], link)
        /\ \A v : v \in d.rested <=> v \in (DOMAIN P) \X Nat /\ v[2] = Len(P[v[1]].hops) + 1 /\ Rests(P[v[1]], link)
        /\ \A v \in d.sent : v \notin d.rested
        /\ \A v \in d.sent \union d.rested : d.adm[v] = Before(P[v[1]], v[2]).time
        /\ \A v \in d.sent : /\ d.out[v] = P[v[1]].hops[v[2]].tx
                             /\ d.end[v] = P[v[1]].hops[v[2]].tx + P[v[1]].hops[v[2]].serialization
        /\ \A v \in d.rested : d.adm[v] = AtLast(P[v[1]]).time /\ d.out[v] = Freed(P[v[1]], link)
        /\ d.drops = {AtLast(P[m]).time : m \in {l \in DOMAIN P : Balked(P[l], link)}}
    BY <1>2, DeviceIs
  <1>5. /\ \A v : v \in c.sent <=> v \in (DOMAIN R) \X Nat /\ Goes(R[v[1]], v[2], link)
        /\ \A v : v \in c.rested <=> v \in (DOMAIN R) \X Nat /\ v[2] = Len(R[v[1]].hops) + 1 /\ Rests(R[v[1]], link)
        /\ \A v \in c.sent : v \notin c.rested
        /\ \A v \in c.sent \union c.rested : c.adm[v] = Before(R[v[1]], v[2]).time
        /\ \A v \in c.sent : /\ c.out[v] = R[v[1]].hops[v[2]].tx
                             /\ c.end[v] = R[v[1]].hops[v[2]].tx + R[v[1]].hops[v[2]].serialization
        /\ \A v \in c.rested : c.adm[v] = AtLast(R[v[1]]).time /\ c.out[v] = Freed(R[v[1]], link)
        /\ c.drops = {AtLast(R[m]).time : m \in {l \in DOMAIN R : Balked(R[l], link)}}
    BY <1>3, DeviceIs
  <1>6. /\ \A m \in DOMAIN P : m # n => R[m] = P[m]
        /\ R[n] = q /\ DOMAIN R = DOMAIN P /\ n \in Nat /\ p \in Records /\ Len(p.hops) \in Nat
    BY <1>2, PlaceIs DEF Sets, Packets
  <1>7. /\ \A i : Before(q, i) = Before(p, i)
        /\ AtLast(q) = AtLast(p) /\ Onward(q) = Onward(p) /\ AtLast(p).time = t
    BY SamePlace DEF Packets, Tracked
  <1>8. t \in 0..(End - 1)
    BY RowTimes
  <1>9. /\ \A i : Goes(q, i, link) <=> Goes(p, i, link)
        /\ ~Rests(p, link) /\ ~Balked(p, link)
        /\ (Rests(q, link) <=> q.status = "unresolved") /\ (Balked(q, link) <=> q.status = "queue_drop")
    BY <1>7, <1>8 DEF Goes, Rests, Balked
  <1>10. /\ WaitingAt(d) = {<<line[i], Len(P[line[i]].hops) + 1>> : i \in 1..Len(line)}
         /\ Cardinality(WaitingAt(d)) = Len(line)
         /\ Len(line) \in Nat /\ (line = <<>> <=> Len(line) = 0)
    BY <1>1, LineIs DEF d
  <1>11. w0 \in (DOMAIN P) \X Nat /\ w0[1] = n /\ w0[2] = Len(p.hops) + 1
         /\ \A v : v \in (DOMAIN P) \X Nat /\ v[1] = n /\ v[2] = Len(p.hops) + 1 => v = w0
    BY <1>6
  <1> HIDE DEF w0, d, c
  <1>12. c.sent = d.sent
    <2>1. \A v : v \in c.sent <=> v \in d.sent
      BY <1>4, <1>5, <1>6, <1>9, SMTT(30)
    <2> QED
      BY <2>1 DEF c, d, Device, Sent
  <1>13. \A v \in d.sent : c.adm[v] = d.adm[v] /\ c.out[v] = d.out[v] /\ c.end[v] = d.end[v]
    <2> TAKE v \in d.sent
    <2>1. v \in c.sent /\ v[1] \in DOMAIN P
      BY <1>4, <1>12
    <2>2. R[v[1]].hops = P[v[1]].hops /\ Before(R[v[1]], v[2]) = Before(P[v[1]], v[2])
      BY <1>6, <1>7, <2>1
    <2> QED
      BY <1>4, <1>5, <2>1, <2>2
  <1>14. \A v \in d.rested : v \in c.rested /\ v # w0 /\ c.adm[v] = d.adm[v] /\ c.out[v] = d.out[v]
    <2> TAKE v \in d.rested
    <2>1. v[1] \in DOMAIN P /\ v[1] # n /\ v \in (DOMAIN P) \X Nat
      BY <1>4, <1>9
    <2>2. R[v[1]] = P[v[1]] /\ v # w0
      BY <1>6, <1>11, <2>1
    <2>3. v \in c.rested
      BY <1>4, <1>5, <1>6, <2>1, <2>2
    <2> QED
      BY <1>4, <1>5, <2>2, <2>3
  <1>15. \A v \in c.rested : v \in d.rested \/ (v = w0 /\ q.status = "unresolved")
    <2> TAKE v \in c.rested
    <2>1. v[1] \in DOMAIN P /\ v \in (DOMAIN P) \X Nat /\ v[2] = Len(R[v[1]].hops) + 1 /\ Rests(R[v[1]], link)
      BY <1>5, <1>6
    <2>2. CASE v[1] = n
      BY <1>6, <1>9, <1>11, <2>1, <2>2
    <2>3. CASE v[1] # n
      BY <1>4, <1>6, <2>1, <2>3
    <2> QED
      BY <2>2, <2>3
  <1>16. {l \in DOMAIN R : Balked(R[l], link)} =
           {l \in DOMAIN P : Balked(P[l], link)} \union (IF q.status = "queue_drop" THEN {n} ELSE {})
    BY <1>6, <1>9
  <1>17. \A m \in {l \in DOMAIN P : Balked(P[l], link)} : R[m] = P[m]
    BY <1>6, <1>9
  <1>18. \A u \in d.sent \union d.rested : c.adm[u] = d.adm[u] /\ c.out[u] = d.out[u]
    BY <1>13, <1>14
  <1>19. \A u \in d.sent : c.end[u] = d.end[u]
    BY <1>13
  <1>20. Chosen /\ replay.queue \in Nat
    BY NetworkReplayAssumption DEF NetworkReplayAssumption, Tabled, Chosen
  <1>21. Busy(c, more, sends, t)
    BY <1>1, <1>12, <1>19 DEF Busy
  <1>22. /\ line \in Seq(Nat) /\ Len(line) <= replay.queue /\ \A i \in 1..Len(line) : line[i] \in DOMAIN P
         /\ \A i, j \in 1..Len(line) :
              i < j => line[i] # line[j] /\ AtLast(P[line[i]]).time <= AtLast(P[line[j]]).time
         /\ \A m \in DOMAIN P : Queued(P[m], link) <=> \E i \in 1..Len(line) : line[i] = m
    BY <1>1 DEF InLine
  <1>23. \A i \in 1..Len(line) : line[i] # n /\ line[i] \in DOMAIN P /\ R[line[i]] = P[line[i]] /\ AtLast(P[line[i]]).time <= t
    <2> TAKE i \in 1..Len(line)
    <2>1. line[i] \in DOMAIN P /\ Queued(P[line[i]], link)
      BY <1>22
    <2>2. line[i] # n
      BY <1>9, <2>1 DEF Queued
    <2> QED
      BY <1>6, <2>1, <2>2 DEF Packets, Tracked
  <1>24. CASE q.status = "unresolved" /\ Len(line) < replay.queue /\ more = Append(line, n)
    <2>1. c.rested = d.rested \union {w0}
      <3>1. w0 \in c.rested
        BY <1>5, <1>6, <1>9, <1>11, <1>24
      <3>2. \A v : v \in c.rested <=> v \in d.rested \/ v = w0
        BY <1>14, <1>15, <3>1
      <3> QED
        BY <3>2 DEF c, d, Device, Rested
    <2>2. c.drops = d.drops
      BY <1>4, <1>5, <1>16, <1>17, <1>24
    <2>3. c.adm[w0] = t /\ c.out[w0] = End + 1
      <3>1. w0 \in c.rested /\ R[w0[1]] = q
        BY <1>6, <1>11, <2>1
      <3>2. Freed(q, link) = End + 1
        BY <1>24 DEF Freed
      <3> QED
        BY <1>5, <1>7, <3>1, <3>2
    <2>4. w0 \notin d.sent \union d.rested
      <3>1. w0 \notin d.rested
        BY <1>14
      <3>2. w0 \notin c.sent
        BY <1>5, <2>1
      <3> QED
        BY <1>12, <3>1, <3>2
    <2>5. \E u \in d.sent : d.end[u] >= t
      BY <1>1 DEF Busy
    <2>6. IsDevice(c, t)
      BY <1>1, <1>12, <1>18, <1>19, <1>20, <2>1, <2>2, <2>3, <2>4, <2>5, DeviceQueues
    <2>7. InLine(R, link, more)
      <3>0. Len(line) \in Nat
        BY <1>10, Zenon
      <3>1. /\ more \in Seq(Nat) /\ Len(more) = Len(line) + 1 /\ more[Len(line) + 1] = n
            /\ \A i \in 1..Len(line) : more[i] = line[i]
        BY <1>6, <1>22, <1>24, AppendProperties
      <3>2. \A i \in 1..Len(more) : i \in 1..Len(line) \/ i = Len(line) + 1
        BY <3>0, <3>1
      <3>3. \A i \in 1..Len(more) : more[i] \in DOMAIN R
        BY <1>6, <1>23, <3>1, <3>2
      <3>4. ASSUME NEW i \in 1..Len(more), NEW j \in 1..Len(more), i < j
            PROVE  more[i] # more[j] /\ AtLast(R[more[i]]).time <= AtLast(R[more[j]]).time
        <4>1. i \in 1..Len(line) /\ more[i] = line[i] /\ R[more[i]] = P[line[i]]
          BY <1>23, <3>0, <3>1, <3>2, <3>4
        <4>2. CASE j \in 1..Len(line)
          <5>1. more[j] = line[j] /\ R[more[j]] = P[line[j]]
            BY <1>23, <3>1, <4>2
          <5>2. line[i] # line[j] /\ AtLast(P[line[i]]).time <= AtLast(P[line[j]]).time
            BY <1>22, <3>4, <4>1, <4>2
          <5> QED
            BY <4>1, <5>1, <5>2
        <4>3. CASE j = Len(line) + 1
          <5>1. more[j] = n /\ R[more[j]] = q
            BY <1>6, <3>1, <4>3
          <5> QED
            BY <1>7, <1>23, <4>1, <5>1
        <4> QED
          BY <3>2, <4>2, <4>3
      <3>5. ASSUME NEW m \in DOMAIN R PROVE Queued(R[m], link) <=> \E i \in 1..Len(more) : more[i] = m
        <4>1. CASE m = n
          <5>1. Queued(R[m], link)
            BY <1>6, <1>9, <1>24, <4>1 DEF Queued
          <5>2. Len(line) + 1 \in 1..Len(more)
            BY <3>0, <3>1
          <5> QED
            BY <3>1, <4>1, <5>1, <5>2
        <4>2. CASE m # n
          <5>1. m \in DOMAIN P /\ R[m] = P[m]
            BY <1>6, <4>2
          <5>2. \A i \in 1..Len(line) : i \in 1..Len(more)
            BY <3>0, <3>1
          <5>3. Queued(P[m], link) <=> \E i \in 1..Len(line) : line[i] = m
            BY <1>22, <5>1
          <5>4. ASSUME NEW i \in 1..Len(line), line[i] = m PROVE \E j \in 1..Len(more) : more[j] = m
            BY <3>1, <5>2, <5>4
          <5>5. ASSUME NEW j \in 1..Len(more), more[j] = m PROVE \E i \in 1..Len(line) : line[i] = m
            <6>1. j # Len(line) + 1
              BY <3>1, <4>2, <5>5
            <6>2. j \in 1..Len(line)
              BY <3>2, <6>1
            <6> QED
              BY <3>1, <5>5, <6>2
          <5>6. Queued(R[m], link) <=> Queued(P[m], link)
            BY <5>1
          <5> QED
            BY <5>3, <5>4, <5>5, <5>6
        <4> QED
          BY <4>1, <4>2
      <3>6. Len(more) <= replay.queue
        BY <1>20, <1>24, <3>0, <3>1
      <3> QED
        BY <3>1, <3>3, <3>4, <3>5, <3>6 DEF InLine
    <2> QED
      BY <1>21, <2>6, <2>7 DEF Linked, c
  <1>25. CASE q.status = "queue_drop" /\ Len(line) >= replay.queue /\ more = line
    <2>1. c.rested = d.rested
      <3>1. \A v : v \in c.rested <=> v \in d.rested
        BY <1>14, <1>15, <1>25
      <3> QED
        BY <3>1 DEF c, d, Device, Rested
    <2>2. c.drops = d.drops \union {t}
      <3>1. AtLast(R[n]).time = t
        BY <1>6, <1>7
      <3> QED
        BY <1>4, <1>5, <1>16, <1>17, <1>25, <3>1
    <2>3. Cardinality(WaitingAt(d)) >= replay.queue
      BY <1>10, <1>25, Zenon
    <2>4. IsDevice(c, t)
      BY <1>1, <1>12, <1>18, <1>19, <1>20, <2>1, <2>2, <2>3, DeviceDrops
    <2>5. InLine(R, link, more)
      <3>1. ASSUME NEW m \in DOMAIN R PROVE Queued(R[m], link) <=> \E i \in 1..Len(line) : line[i] = m
        <4>1. CASE m = n
          BY <1>6, <1>23, <1>25, <4>1 DEF Queued
        <4>2. CASE m # n
          BY <1>6, <1>22, <4>2
        <4> QED
          BY <4>1, <4>2
      <3>2. \A i, j \in 1..Len(line) :
              i < j => line[i] # line[j] /\ AtLast(R[line[i]]).time <= AtLast(R[line[j]]).time
        BY <1>22, <1>23
      <3> QED
        BY <1>6, <1>22, <1>25, <3>1, <3>2 DEF InLine
    <2> QED
      BY <1>21, <1>25, <2>4, <2>5 DEF Linked, c
  <1> QED
    BY <1>24, <1>25

\* The device has sent its packet and its queue is empty.
LEMMA LinkFrees ==
  ASSUME NEW P, NEW t, NEW link, NEW sends, NEW k, Linked(P, link, <<>>, sends, t, k), sends # Idle, sends.until = t
  PROVE  Linked(P, link, <<>>, Idle, t, k)
  <1>1. Idle.until \in Nat
    BY DEF Idle
  <1> QED
    BY <1>1 DEF Linked, Busy

\* The clock, between the snapshots and the offers that have been and those to come.
SnapshotDue(t, k) == k < Len(rows) /\ rows[k + 1].time = t

Clocked(P, t, k) ==
  /\ P \in Seq(Records) /\ t \in Nat /\ k \in 0..Len(rows)
  /\ k > 0 => rows[k].time <= t
  /\ k < Len(rows) => t <= rows[k + 1].time
  /\ Len(P) <= Len(OfferTimes)
  /\ Len(P) < Len(OfferTimes) => t <= OfferTimes[Len(P) + 1]
  /\ SnapshotDue(t, k) =>
       \A n \in DOMAIN P : AtLast(P[n]).time < t /\ \A i \in 1..Len(P[n].hops) : P[n].hops[i].tx < t

\* What holds of the packets, the queues and the devices at all times.
Simulated(P, Q, S, t, k) ==
  /\ Clocked(P, t, k) /\ Packets(P, t) /\ DOMAIN Q = Links /\ DOMAIN S = Links
  /\ \A link \in Links : Linked(P, link, Q[link], S[link], t, k)

LEMMA PacketsAre ==
  ASSUME Tabled, NEW P, NEW t, NEW k, Clocked(P, t, k)
  PROVE  /\ Len(P) \in Nat /\ DOMAIN P = 1..Len(P) /\ \A n \in DOMAIN P : P[n] \in Records /\ n \in 1..Len(OfferTimes)
         /\ t \in Nat /\ k \in 0..Len(rows) /\ Len(rows) \in Nat
  <1>1. P \in Seq(Records) /\ Len(P) <= Len(OfferTimes) /\ t \in Nat /\ k \in 0..Len(rows)
    BY DEF Clocked
  <1>2. Len(P) \in Nat /\ DOMAIN P = 1..Len(P)
    BY <1>1, LenProperties
  <1>3. Len(OfferTimes) \in Nat
    BY OfferTimesAre DEF Tabled
  <1>4. \A n \in DOMAIN P : P[n] \in Records
    BY <1>1, <1>2, ElementOfSeq
  <1> QED
    BY <1>1, <1>2, <1>3, <1>4, RowTimes

\* The snapshot that holds.
LEMMA RowNow ==
  ASSUME Tabled, NEW P, NEW t, NEW k, Clocked(P, t, k), ~SnapshotDue(t, k)
  PROVE  k \in 1..Len(rows) /\ RowAt(t) = rows[k] /\ rows[k].time <= t /\ (k < Len(rows) => t < rows[k + 1].time /\ t < End)
  <1>1. t \in Nat /\ k \in 0..Len(rows) /\ Len(rows) \in Nat
    BY PacketsAre
  <1>2. /\ k > 0 => rows[k].time <= t
        /\ k < Len(rows) => t <= rows[k + 1].time
    BY DEF Clocked
  <1>3. k < Len(rows) => k + 1 \in 1..Len(rows) /\ rows[k + 1].time \in Nat /\ t < rows[k + 1].time
    BY <1>1, <1>2, RowTimes DEF SnapshotDue
  <1>4. k # 0
    BY <1>1, <1>3, RowTimes
  <1>5. k \in 1..Len(rows)
    BY <1>1, <1>4
  <1>6. RowAt(t) = rows[k]
    BY <1>1, <1>2, <1>3, <1>5, RowAtIs
  <1>7. k < Len(rows) => t < End
    <2>1. k < Len(rows) => rows[k + 1].time <= End /\ End \in Nat
      BY <1>3, RowIs, RowTimes, Zenon
    <2> QED
      BY <1>1, <1>3, <2>1
  <1> QED
    BY <1>2, <1>3, <1>5, <1>6, <1>7

\* A packet in a queue, and its link.
LEMMA QueuedIs ==
  ASSUME Tabled, NEW P, NEW Q, NEW S, NEW t, NEW k, Simulated(P, Q, S, t, k), NEW n \in DOMAIN P, P[n].status = "unresolved",
         ~Flies(P[n])
  PROVE  /\ Waiting(P[n], t) /\ Onward(P[n]) \in Links /\ Queued(P[n], Onward(P[n]))
         /\ Q[Onward(P[n])] # <<>> /\ k \in 1..Len(rows) /\ k < Len(rows) /\ rows[k].edges[Across(Onward(P[n]))].available
  <1> DEFINE link == Onward(P[n])
  <1>1. Waiting(P[n], t)
    BY DEF Simulated, Packets, Tracked
  <1>2. link \in Links /\ Queued(P[n], link)
    BY <1>1 DEF Waiting, Queued, Rests
  <1>3. Linked(P, link, Q[link], S[link], t, k)
    BY <1>2 DEF Simulated
  <1>4. Q[link] # <<>>
    <2>1. PICK i \in 1..Len(Q[link]) : Q[link][i] = n
      BY <1>2, <1>3 DEF Linked, InLine
    <2> QED
      BY <2>1, EmptySeq
  <1>5. k > 0 /\ rows[k].edges[Across(link)].available
    BY <1>3, <1>4 DEF Linked
  <1>6. k \in 1..Len(rows)
    BY <1>5, PacketsAre DEF Simulated
  <1>7. k # Len(rows)
    <2>1. IsRow(rows[k], DOMAIN rows[1].edges) /\ (rows[k].state = "stop" <=> k = Len(rows))
      BY <1>6, RowIs
    <2>2. Across(link) \in DOMAIN rows[1].edges
      BY <1>2, LinkIs
    <2> QED
      BY <1>5, <2>1, <2>2 DEF IsRow
  <1>8. k < Len(rows)
    <2>1. Len(rows) \in Nat
      BY RowTimes
    <2> QED
      BY <1>6, <1>7, <2>1
  <1> QED
    BY <1>1, <1>2, <1>4, <1>5, <1>6, <1>8

\* A tick passes when nothing is due.
LEMMA SimTicks ==
  ASSUME Tabled, NEW P, NEW Q, NEW S, NEW t, NEW k, Simulated(P, Q, S, t, k), ~SnapshotDue(t, k),
         ~(Len(P) < Len(OfferTimes) /\ OfferTimes[Len(P) + 1] = t),
         \A link \in Links : S[link] # Idle => S[link].until # t,
         \A n \in DOMAIN P :
           /\ P[n].status # "loose"
           /\ Flies(P[n]) => LET hop == P[n].hops[Len(P[n].hops)] IN hop.tx + hop.serialization + hop.delay # t
  PROVE  Simulated(P, Q, S, t + 1, k)
  <1>1. Clocked(P, t, k) /\ Packets(P, t)
    BY DEF Simulated
  <1>2. /\ Len(P) \in Nat /\ DOMAIN P = 1..Len(P) /\ \A n \in DOMAIN P : P[n] \in Records /\ n \in 1..Len(OfferTimes)
        /\ t \in Nat /\ k \in 0..Len(rows) /\ Len(rows) \in Nat
    BY <1>1, PacketsAre
  <1>3. k \in 1..Len(rows) /\ rows[k].time <= t /\ (k < Len(rows) => t < rows[k + 1].time)
    BY <1>1, RowNow
  <1>4. Packets(P, t + 1)
    <2> SUFFICES ASSUME NEW n \in DOMAIN P PROVE n \in Nat /\ Tracked(n, P[n], t + 1)
      BY DEF Packets
    <2>1. n \in Nat /\ n \in 1..Len(OfferTimes) /\ Tracked(n, P[n], t)
      BY <1>1, <1>2 DEF Packets
    <2>2. ASSUME Waiting(P[n], t), P[n].status = "unresolved"
          PROVE  ~Overlaps(Across(Onward(P[n])), AtLast(P[n]).time, t + 1)
      <3>1. ~Flies(P[n]) /\ ~Overlaps(Across(Onward(P[n])), AtLast(P[n]).time, t)
        BY <2>2 DEF Waiting
      <3>2. k < Len(rows) /\ rows[k].edges[Across(Onward(P[n]))].available
        BY <2>2, <3>1, QueuedIs
      <3>3. AtLast(P[n]).time \in Nat /\ AtLast(P[n]).time <= t
        BY <2>1, <2>2, RowTimes DEF Waiting, Tracked
      <3> QED
        BY <1>2, <1>3, <3>1, <3>2, <3>3, OverlapsTick
    <2>3. CASE P[n].status = "unresolved"
      <3>1. Flies(P[n]) => P[n].hops[Len(P[n].hops)].tx + P[n].hops[Len(P[n].hops)].serialization
                             + P[n].hops[Len(P[n].hops)].delay # t
        OBVIOUS
      <3> QED
        BY <1>2, <2>1, <2>2, <2>3, <3>1, PacketTicks
    <2>4. CASE P[n].status # "unresolved"
      <3>1. Tracked(n, P[n], t + 1)
        <4> DEFINE p == P[n]
        <4>1. p \in Records /\ IsPacket(n, p) /\ OfferTimes[n] <= t /\ AtLast(p).time <= t /\ Traced(p, t) /\ p.status # "loose"
          BY <2>1 DEF Tracked
        <4>2. ~Flies(p)
          BY <1>2, <2>4, <4>1, TracedIs
        <4>3. Traced(p, t + 1)
          <5>1. \A i \in 1..Len(p.hops) : p.hops[i] \in Hops /\ Over(p.hops[i], t)
            BY <1>2, <4>1, <4>2, TracedIs, PlaceIs
          <5>2. \A i \in 1..Len(p.hops) : Over(p.hops[i], t + 1)
            BY <1>2, <5>1, OverOn
          <5>3. \A i \in 1..Len(p.hops) : Follows(p.hops[i], Before(p, i), p.aim, t + 1)
            <6> TAKE i \in 1..Len(p.hops)
            <6>1. Follows(p.hops[i], Before(p, i), p.aim, t)
              BY <4>1 DEF Traced
            <6>2. p.hops[i] \in Hops
              BY <5>1
            <6>3. t \in Nat /\ t + 1 \in Nat /\ t <= t + 1
              BY <1>2
            <6> QED
              BY <6>1, <6>2, <6>3, FollowsOn, ZenonT(60)
          <5>4. \A i \in 1..Len(p.hops) : i > 1 => p.hops[i - 1].status = "received"
            BY <4>1 DEF Traced
          <5> QED
            BY <5>2, <5>3, <5>4 DEF Traced
        <4>4. OfferTimes[n] <= t + 1 /\ AtLast(p).time <= t + 1
          <5>1. OfferTimes[n] \in Nat
            BY <2>1, OfferTimesAre DEF Tabled
          <5>2. AtLast(p).time \in Int
            BY <4>1, PlaceIs
          <5> QED
            BY <1>2, <4>1, <5>1, <5>2
        <4>5. p.status # "unresolved" /\ EndsRight(p)
          BY <2>1, <2>4, <4>1 DEF Tracked
        <4> HIDE DEF p
        <4>6. Tracked(n, p, t + 1)
          BY <4>1, <4>3, <4>4, <4>5 DEF Tracked
        <4> QED
          BY <4>6 DEF p
      <3> QED
        BY <2>1, <3>1
    <2> QED
      BY <2>1, <2>3, <2>4
  <1>5. Clocked(P, t + 1, k)
    <2>1. k < Len(rows) => t + 1 <= rows[k + 1].time
      <3>1. k < Len(rows) => k + 1 \in 1..Len(rows) /\ rows[k + 1].time \in Nat
        BY <1>3, RowTimes
      <3> QED
        BY <1>2, <1>3, <3>1
    <2>2. rows[k].time <= t + 1
      <3>1. rows[k].time \in Nat
        BY <1>3, RowTimes
      <3> QED
        BY <1>2, <1>3, <3>1
    <2>3. Len(P) < Len(OfferTimes) => t + 1 <= OfferTimes[Len(P) + 1]
      <3>1. Len(OfferTimes) \in Nat /\ (Len(P) < Len(OfferTimes) => OfferTimes[Len(P) + 1] \in Nat)
        BY <1>2, OfferTimesAre DEF Tabled
      <3>2. Len(P) < Len(OfferTimes) => t <= OfferTimes[Len(P) + 1]
        BY <1>1 DEF Clocked
      <3> QED
        BY <1>2, <3>1, <3>2
    <2>4. ASSUME NEW n \in DOMAIN P
          PROVE  AtLast(P[n]).time < t + 1 /\ \A i \in 1..Len(P[n].hops) : P[n].hops[i].tx < t + 1
      <3>1. P[n] \in Records /\ Traced(P[n], t) /\ AtLast(P[n]).time <= t
        BY <1>1 DEF Packets, Tracked
      <3>2. AtLast(P[n]).time \in Int
        BY <3>1, PlaceIs
      <3>3. \A i \in 1..Len(P[n].hops) : P[n].hops[i].tx <= t /\ P[n].hops[i].tx \in Nat
        BY <1>2, <3>1, TracedIs, PlaceIs DEF Hops
      <3> QED
        BY <1>2, <3>1, <3>2, <3>3, SMTT(30)
    <2>5. P \in Seq(Records) /\ Len(P) <= Len(OfferTimes)
      BY <1>1 DEF Clocked
    <2>6. t + 1 \in Nat
      BY <1>2
    <2> QED
      BY <1>2, <2>1, <2>2, <2>3, <2>4, <2>5, <2>6, ZenonT(60) DEF Clocked
  <1>6. \A link \in Links : Linked(P, link, Q[link], S[link], t + 1, k)
    <2> TAKE link \in Links
    <2>1. Linked(P, link, Q[link], S[link], t, k)
      BY DEF Simulated
    <2> QED
      BY <1>1, <1>2, <2>1, LinkTicks
  <1> QED
    BY <1>4, <1>5, <1>6 DEF Simulated

\* One device's queue, or what it sends, is another.
Puts(F, Q, link, v) == DOMAIN F = Links /\ F[link] = v /\ \A other \in Links : other # link => F[other] = Q[other]

LEMMA PutsIs ==
  ASSUME NEW Q, DOMAIN Q = Links, NEW link \in Links
  PROVE  Puts(Q, Q, link, Q[link]) /\ \A v : Puts([Q EXCEPT ![link] = v], Q, link, v)
  BY DEF Puts

\* A step that changes one packet, and perhaps a device.
LEMMA SimSets ==
  ASSUME Tabled, NEW P, NEW Q, NEW S, NEW t, NEW k, Simulated(P, Q, S, t, k), ~SnapshotDue(t, k),
         NEW n, NEW q, NEW R \in Seq(Records), Len(R) = Len(P), Sets(R, P, n, q), Tracked(n, q, t),
         NEW Q2, DOMAIN Q2 = Links, NEW S2, DOMAIN S2 = Links,
         \A link \in Links : Linked(R, link, Q2[link], S2[link], t, k)
  PROVE  Simulated(R, Q2, S2, t, k)
  <1>1. Clocked(P, t, k) /\ Packets(P, t)
    BY DEF Simulated
  <1>2. Clocked(R, t, k)
    BY <1>1, ZenonT(60) DEF Clocked
  <1>3. Packets(R, t)
    <2> SUFFICES ASSUME NEW m \in DOMAIN R PROVE m \in Nat /\ Tracked(m, R[m], t)
      BY DEF Packets
    <2>1. m \in DOMAIN P /\ m \in Nat /\ Tracked(m, P[m], t)
      BY <1>1 DEF Packets, Sets
    <2> QED
      BY <2>1 DEF Sets
  <1> QED
    BY <1>2, <1>3 DEF Simulated

\* One that leaves the devices alike.
LEMMA SimAlike ==
  ASSUME Tabled, NEW P, NEW Q, NEW S, NEW t, NEW k, Simulated(P, Q, S, t, k), ~SnapshotDue(t, k),
         NEW n, NEW q, NEW R \in Seq(Records), Len(R) = Len(P), Sets(R, P, n, q), Tracked(n, q, t),
         \A link \in Links : Alike(P[n], q, link)
  PROVE  Simulated(R, Q, S, t, k)
  <1>1. DOMAIN Q = Links /\ DOMAIN S = Links
    BY DEF Simulated
  <1>2. ASSUME NEW link \in Links PROVE Linked(R, link, Q[link], S[link], t, k)
    <2>1. Linked(P, link, Q[link], S[link], t, k)
      BY DEF Simulated
    <2>2. Device(R, link) = Device(P, link) /\ InLine(R, link, Q[link])
      BY <2>1, LinkElse DEF Linked
    <2> QED
      BY <2>1, <2>2 DEF Linked
  <1> QED
    BY <1>1, <1>2, SimSets

\* A device sends a packet.
LEMMA SimSends ==
  ASSUME Tabled, NEW P, NEW Q, NEW S, NEW t, NEW k, Simulated(P, Q, S, t, k), ~SnapshotDue(t, k), t < End,
         NEW link \in Links, rows[k].edges[Across(link)].available,
         NEW n \in DOMAIN P, Handed(P[n], t), Onward(P[n]) = link, NEW rest,
         \/ P[n].status = "loose" /\ S[link] = Idle /\ rest = <<>>
         \/ P[n].status = "unresolved" /\ Q[link] # <<>> /\ n = Q[link][1] /\ S[link] # Idle /\ S[link].until = t
            /\ rest = Tail(Q[link]),
         NEW hop, HopOn(hop, link, rows[k].edges[Across(link)], t), hop.serialization > 0,
         NEW q, SentOn(q, P[n], hop), NEW R \in Seq(Records), Len(R) = Len(P), Sets(R, P, n, q),
         NEW next, next.until = t + hop.serialization,
         NEW Q2, Puts(Q2, Q, link, rest), NEW S2, Puts(S2, S, link, next)
  PROVE  Simulated(R, Q2, S2, t, k)
  <1>1. Clocked(P, t, k) /\ Packets(P, t) /\ DOMAIN Q = Links /\ DOMAIN S = Links
    BY DEF Simulated
  <1>2. t \in Nat /\ P[n] \in Records /\ Tracked(n, P[n], t)
    BY <1>1, PacketsAre DEF Packets
  <1>3. k \in 1..Len(rows) /\ RowAt(t) = rows[k]
    BY <1>1, RowNow
  <1>4. HopOn(hop, link, RowAt(t).edges[Across(link)], t) /\ RowAt(t).edges[Across(link)].available
    BY <1>3
  <1>5. Tracked(n, q, t)
    BY <1>2, <1>4, PacketSends, ZenonT(60)
  <1>6. link = <<link[1], link[2]>>
    BY LinkIs
  <1>7. hop \in Hops /\ hop.from = link[1] /\ hop.to = link[2] /\ hop.rx = None
    BY DEF HopOn
  <1>8. /\ DOMAIN Q2 = Links /\ Q2[link] = rest /\ \A other \in Links : other # link => Q2[other] = Q[other]
        /\ DOMAIN S2 = Links /\ S2[link] = next /\ \A other \in Links : other # link => S2[other] = S[other]
    BY DEF Puts
  <1>9. Linked(P, link, Q[link], S[link], t, k)
    BY DEF Simulated
  <1>10. Linked(R, link, rest, next, t, k)
    BY <1>1, <1>2, <1>3, <1>4, <1>9, LinkSends, ZenonT(60)
  <1>11. ASSUME NEW other \in Links, other # link PROVE Linked(R, other, Q[other], S[other], t, k)
    <2>1. Linked(P, other, Q[other], S[other], t, k)
      BY DEF Simulated
    <2>2. Alike(P[n], q, other)
      BY <1>2, <1>6, <1>7, <1>11, AlikeSent
    <2>3. Device(R, other) = Device(P, other) /\ InLine(R, other, Q[other])
      BY <2>1, <2>2, LinkElse DEF Linked
    <2> QED
      BY <2>1, <2>3 DEF Linked
  <1>12. \A other \in Links : Linked(R, other, Q2[other], S2[other], t, k)
    BY <1>8, <1>10, <1>11
  <1> QED
    BY <1>5, <1>8, <1>12, SimSets, ZenonT(60)

\* A packet waits for a device that is busy, or finds its queue full.
LEMMA SimQueues ==
  ASSUME Tabled, NEW P, NEW Q, NEW S, NEW t, NEW k, Simulated(P, Q, S, t, k), ~SnapshotDue(t, k), t < End,
         NEW link \in Links, rows[k].edges[Across(link)].available, S[link] # Idle,
         NEW n \in DOMAIN P, P[n].status = "loose", Onward(P[n]) = link,
         NEW q \in Records, q.hops = P[n].hops, q.udp = P[n].udp, q.aim = P[n].aim, q.rx = P[n].rx,
         NEW R \in Seq(Records), Len(R) = Len(P), Sets(R, P, n, q), NEW more,
         \/ q.status = "unresolved" /\ Len(Q[link]) < replay.queue /\ more = Append(Q[link], n)
         \/ q.status = "queue_drop" /\ Len(Q[link]) >= replay.queue /\ more = Q[link],
         NEW Q2, Puts(Q2, Q, link, more)
  PROVE  Simulated(R, Q2, S, t, k)
  <1>1. Clocked(P, t, k) /\ Packets(P, t) /\ DOMAIN Q = Links /\ DOMAIN S = Links
    BY DEF Simulated
  <1>2. t \in Nat /\ P[n] \in Records /\ Tracked(n, P[n], t)
    BY <1>1, PacketsAre DEF Packets
  <1>3. k \in 1..Len(rows) /\ k > 0
    <2>1. k \in 1..Len(rows)
      BY <1>1, RowNow
    <2> QED
      BY <2>1
  <1>4. q.status \in {"unresolved", "queue_drop"}
    OBVIOUS
  <1>5. Tracked(n, q, t)
    BY <1>2, <1>4, PacketQueues, ZenonT(60)
  <1>6. DOMAIN Q2 = Links /\ Q2[link] = more /\ \A other \in Links : other # link => Q2[other] = Q[other]
    BY DEF Puts
  <1>7. Linked(P, link, Q[link], S[link], t, k)
    BY DEF Simulated
  <1>8. Linked(R, link, more, S[link], t, k)
    BY <1>1, <1>2, <1>3, <1>7, LinkQueues, ZenonT(60)
  <1>9. ASSUME NEW other \in Links, other # link PROVE Linked(R, other, Q[other], S[other], t, k)
    <2>1. Linked(P, other, Q[other], S[other], t, k)
      BY DEF Simulated
    <2>2. Alike(P[n], q, other)
      BY <1>4, <1>9, AlikeQueued
    <2>3. Device(R, other) = Device(P, other) /\ InLine(R, other, Q[other])
      BY <2>1, <2>2, LinkElse DEF Linked
    <2> QED
      BY <2>1, <2>3 DEF Linked
  <1>10. \A other \in Links : Linked(R, other, Q2[other], S[other], t, k)
    BY <1>6, <1>8, <1>9
  <1> QED
    BY <1>1, <1>5, <1>6, <1>10, SimSets, ZenonT(60)

\* A device has nothing more to send.
LEMMA SimFrees ==
  ASSUME Tabled, NEW P, NEW Q, NEW S, NEW t, NEW k, Simulated(P, Q, S, t, k),
         NEW link \in Links, Q[link] = <<>>, S[link] # Idle, S[link].until = t,
         NEW S2, Puts(S2, S, link, Idle)
  PROVE  Simulated(P, Q, S2, t, k)
  <1>1. Clocked(P, t, k) /\ Packets(P, t) /\ DOMAIN Q = Links /\ DOMAIN S = Links
        /\ \A other \in Links : Linked(P, other, Q[other], S[other], t, k)
    BY DEF Simulated
  <1>2. DOMAIN S2 = Links /\ S2[link] = Idle /\ \A other \in Links : other # link => S2[other] = S[other]
    BY DEF Puts
  <1>3. Linked(P, link, Q[link], Idle, t, k)
    BY <1>1, LinkFrees
  <1>4. \A other \in Links : Linked(P, other, Q[other], S2[other], t, k)
    BY <1>1, <1>2, <1>3
  <1> QED
    BY <1>1, <1>2, <1>4 DEF Simulated

\* A packet is offered.
OfferComes(P, t) == Len(P) < Len(OfferTimes) /\ OfferTimes[Len(P) + 1] = t

LEMMA SimOffers ==
  ASSUME Tabled, NEW P, NEW Q, NEW S, NEW t, NEW k, Simulated(P, Q, S, t, k), ~SnapshotDue(t, k),
         OfferComes(P, t), NEW q \in Records, Tracked(Len(P) + 1, q, t), \A link \in Links : Blank(q, link),
         NEW R, R = Append(P, q)
  PROVE  /\ Simulated(R, Q, S, t, k)
         /\ R \in Seq(Records) /\ Len(R) = Len(P) + 1 /\ R[Len(P) + 1] = q /\ Len(P) + 1 \in DOMAIN R
  <1>1. Clocked(P, t, k) /\ Packets(P, t) /\ DOMAIN Q = Links /\ DOMAIN S = Links
        /\ \A link \in Links : Linked(P, link, Q[link], S[link], t, k)
    BY DEF Simulated
  <1>2. /\ Len(P) \in Nat /\ DOMAIN P = 1..Len(P) /\ \A n \in DOMAIN P : P[n] \in Records
        /\ t \in Nat /\ k \in 0..Len(rows)
    BY <1>1, PacketsAre
  <1>3. P \in Seq(Records)
    BY <1>1 DEF Clocked
  <1>4. /\ R \in Seq(Records) /\ Len(R) = Len(P) + 1 /\ R[Len(P) + 1] = q
        /\ \A m \in 1..Len(P) : R[m] = P[m]
    BY <1>3, AppendProperties
  <1>5. DOMAIN R = 1..(Len(P) + 1)
    BY <1>4, LenProperties
  <1>6. Len(P) + 1 \in DOMAIN R /\ DOMAIN P \subseteq DOMAIN R /\ \A m \in DOMAIN R : m \notin DOMAIN P => m = Len(P) + 1
    BY <1>2, <1>5
  <1>7. Clocked(R, t, k)
    <2>1. Len(R) <= Len(OfferTimes)
      <3>1. Len(OfferTimes) \in Nat /\ Len(P) < Len(OfferTimes)
        BY OfferTimesAre DEF Tabled, OfferComes
      <3> QED
        BY <1>2, <1>4, <3>1
    <2>2. Len(R) < Len(OfferTimes) => t <= OfferTimes[Len(R) + 1]
      <3> SUFFICES ASSUME Len(R) < Len(OfferTimes) PROVE t <= OfferTimes[Len(R) + 1]
        OBVIOUS
      <3>1. Len(OfferTimes) \in Nat
        BY OfferTimesAre DEF Tabled
      <3>2. Len(P) + 1 \in 1..Len(OfferTimes) /\ Len(R) + 1 \in 1..Len(OfferTimes) /\ Len(P) + 1 < Len(R) + 1
        BY <1>2, <1>4, <3>1
      <3>3. OfferTimes[Len(P) + 1] <= OfferTimes[Len(R) + 1] /\ OfferTimes[Len(R) + 1] \in Nat
        BY <3>2, OfferTimesAre DEF Tabled
      <3>4. OfferTimes[Len(P) + 1] = t
        BY DEF OfferComes
      <3> QED
        BY <1>2, <3>3, <3>4
    <2>3. /\ t \in Nat /\ k \in 0..Len(rows)
          /\ k > 0 => rows[k].time <= t
          /\ k < Len(rows) => t <= rows[k + 1].time
      BY <1>1 DEF Clocked
    <2> QED
      BY <1>4, <2>1, <2>2, <2>3, ZenonT(60) DEF Clocked
  <1>8. Packets(R, t)
    <2> SUFFICES ASSUME NEW m \in DOMAIN R PROVE m \in Nat /\ Tracked(m, R[m], t)
      BY DEF Packets
    <2>1. CASE m \in DOMAIN P
      <3>1. R[m] = P[m]
        BY <1>2, <1>4, <2>1
      <3> QED
        BY <1>1, <2>1, <3>1 DEF Packets
    <2>2. CASE m \notin DOMAIN P
      <3>1. m = Len(P) + 1 /\ m \in Nat
        BY <1>2, <1>6, <2>2
      <3> QED
        BY <1>4, <3>1
    <2> QED
      BY <2>1, <2>2
  <1>9. ASSUME NEW link \in Links PROVE Linked(R, link, Q[link], S[link], t, k)
    <2>1. Linked(P, link, Q[link], S[link], t, k)
      BY <1>1
    <2>2. \A m \in DOMAIN P : Alike(P[m], R[m], link)
      <3> SUFFICES ASSUME NEW m \in DOMAIN P PROVE Alike(P[m], R[m], link)
        OBVIOUS
      <3>1. R[m] = P[m]
        BY <1>2, <1>4
      <3> QED
        BY <3>1 DEF Alike
    <2>3. \A m \in DOMAIN R : m \notin DOMAIN P => Blank(R[m], link)
      BY <1>4, <1>6
    <2>4. Device(R, link) = Device(P, link) /\ InLine(R, link, Q[link])
      BY <1>6, <2>1, <2>2, <2>3, LinkSame DEF Linked
    <2> QED
      BY <2>1, <2>4 DEF Linked
  <1> QED
    BY <1>1, <1>4, <1>6, <1>7, <1>8, <1>9 DEF Simulated

\* A packet with no hops that waits for nothing has been at no device.
LEMMA OfferBlank ==
  ASSUME NEW q \in Records, q.hops = <<>>, q.status \in {"loose", "no_route", "acquisition_suppressed"}, NEW link
  PROVE  Blank(q, link)
  <1>1. Len(q.hops) = 0
    BY PlaceIs
  <1>2. \A i : ~Goes(q, i, link)
    BY <1>1 DEF Goes
  <1> QED
    BY <1>2 DEF Blank, Rests, Balked

\* What becomes of packets in a queue that a snapshot flushes.
FlushStatus(row) == IF row.state = "stop" THEN "end_of_window_drop" ELSE "outage_queue_drop"

\* A snapshot holds: the queues of links that are gone are flushed.
Flushes(R, Q2, P, Q, row, s) ==
  /\ DOMAIN Q2 = Links
  /\ \A link \in Links : Q2[link] = IF row.edges[Across(link)].available THEN Q[link] ELSE <<>>
  /\ R = [n \in DOMAIN P |-> R[n]]
  /\ \A n \in DOMAIN P :
       R[n] = IF \E link \in Links : ~row.edges[Across(link)].available /\ \E i \in DOMAIN Q[link] : Q[link][i] = n
              THEN [P[n] EXCEPT !.status = s] ELSE P[n]

LEMMA SimUpdates ==
  ASSUME Tabled, NEW P, NEW Q, NEW S, NEW t, NEW k, Simulated(P, Q, S, t, k), SnapshotDue(t, k),
         NEW R, NEW Q2, Flushes(R, Q2, P, Q, rows[k + 1], FlushStatus(rows[k + 1]))
  PROVE  Simulated(R, Q2, S, t, k + 1) /\ Len(R) = Len(P) /\ \A n \in DOMAIN R : R[n].status \in {P[n].status, FlushStatus(rows[k + 1])}
  <1> DEFINE s == FlushStatus(rows[k + 1])
  <1>c. s = IF rows[k + 1].state = "stop" THEN "end_of_window_drop" ELSE "outage_queue_drop"
    BY DEF FlushStatus
  <1>d. Flushes(R, Q2, P, Q, rows[k + 1], s)
    OBVIOUS
  <1> HIDE DEF s
  <1>1. Clocked(P, t, k) /\ Packets(P, t) /\ DOMAIN Q = Links /\ DOMAIN S = Links
        /\ \A link \in Links : Linked(P, link, Q[link], S[link], t, k)
    BY DEF Simulated
  <1>2. /\ Len(P) \in Nat /\ DOMAIN P = 1..Len(P) /\ \A n \in DOMAIN P : P[n] \in Records
        /\ t \in Nat /\ k \in 0..Len(rows) /\ Len(rows) \in Nat
    BY <1>1, PacketsAre
  <1>3. k < Len(rows) /\ rows[k + 1].time = t /\ k \in Nat /\ k + 1 \in 1..Len(rows)
    BY <1>2 DEF SnapshotDue
  <1>4. \A n \in DOMAIN P : AtLast(P[n]).time < t /\ \A i \in 1..Len(P[n].hops) : P[n].hops[i].tx < t
    BY <1>1 DEF Clocked
  <1>5. \A link \in Links : InLine(P, link, Q[link]) /\ DOMAIN Q[link] = 1..Len(Q[link])
    BY <1>1, LenProperties DEF Linked, InLine
  <1>6. ASSUME NEW n \in DOMAIN P
        PROVE  /\ \A link \in Links : ~rows[k + 1].edges[Across(link)].available /\ Queued(P[n], link) => R[n] = [P[n] EXCEPT !.status = s]
               /\ R[n] = P[n] \/ \E link \in Links : /\ ~rows[k + 1].edges[Across(link)].available
                                                     /\ Queued(P[n], link) /\ R[n] = [P[n] EXCEPT !.status = s]
    <2>1. \A link \in Links : Queued(P[n], link) <=> \E i \in DOMAIN Q[link] : Q[link][i] = n
      BY <1>5 DEF InLine
    <2>2. R[n] = IF \E link \in Links : ~rows[k + 1].edges[Across(link)].available /\ \E i \in DOMAIN Q[link] : Q[link][i] = n
                 THEN [P[n] EXCEPT !.status = s] ELSE P[n]
      BY <1>d DEF Flushes
    <2> QED
      BY <2>1, <2>2
  <1>7. R = [n \in DOMAIN P |-> R[n]]
    BY <1>d DEF Flushes
  <1>b. DOMAIN R = DOMAIN P
    BY <1>7
  <1>8. s \in Statuses /\ s \in {"outage_queue_drop", "end_of_window_drop"}
    BY <1>c DEF Statuses, InQueue
  <1>9. ASSUME NEW n \in DOMAIN P
        PROVE  /\ R[n] \in Records /\ R[n].hops = P[n].hops /\ R[n].udp = P[n].udp /\ R[n].aim = P[n].aim /\ R[n].rx = P[n].rx
               /\ R[n].status = P[n].status \/ (P[n].status = "unresolved" /\ R[n].status = s)
               /\ R[n] = P[n] \/ R[n].status = s
    <2>1. P[n] \in Records
      BY <1>2
    <2>2. P[n].status = "unresolved" \/ R[n] = P[n]
      BY <1>6 DEF Queued
    <2>3. LET q == [P[n] EXCEPT !.status = s]
          IN q \in Records /\ q.hops = P[n].hops /\ q.udp = P[n].udp /\ q.aim = P[n].aim /\ q.rx = P[n].rx /\ q.status = s
      BY <1>8, <2>1 DEF Records
    <2> QED
      BY <1>6, <2>1, <2>2, <2>3
  <1>10. R \in Seq(Records) /\ Len(R) = Len(P)
    <2>1. R \in [1..Len(P) -> Records]
      BY <1>2, <1>7, <1>9
    <2>2. R \in Seq(Records)
      BY <1>2, <2>1, IsASeq
    <2>3. Len(R) \in Nat /\ 1..Len(R) = 1..Len(P)
      BY <1>2, <1>b, <2>2, LenProperties
    <2> QED
      BY <1>2, <2>2, <2>3
  <1>11. Clocked(R, t, k + 1)
    <2>1. k + 1 < Len(rows) => k + 1 + 1 \in 1..Len(rows) /\ t < rows[k + 1 + 1].time /\ rows[k + 1 + 1].time \in Nat
      <3>1. k + 1 < Len(rows) => k + 1 + 1 \in 1..Len(rows) /\ k + 1 < k + 1 + 1
        BY <1>2
      <3> QED
        BY <1>3, <3>1, RowTimes
    <2>2. k + 1 < Len(rows) => t <= rows[k + 1 + 1].time
      BY <1>2, <2>1
    <2>3. ~SnapshotDue(t, k + 1)
      BY <1>2, <2>1 DEF SnapshotDue
    <2>4. rows[k + 1].time <= t /\ k + 1 \in 0..Len(rows)
      BY <1>2, <1>3
    <2>5. /\ Len(R) <= Len(OfferTimes)
          /\ Len(R) < Len(OfferTimes) => t <= OfferTimes[Len(R) + 1]
      BY <1>1, <1>10 DEF Clocked
    <2> QED
      BY <1>2, <1>10, <2>2, <2>3, <2>4, <2>5 DEF Clocked
  <1>12. Packets(R, t)
    <2> SUFFICES ASSUME NEW n \in DOMAIN P PROVE n \in Nat /\ Tracked(n, R[n], t)
      BY <1>b DEF Packets
    <2>1. n \in Nat /\ Tracked(n, P[n], t)
      BY <1>1 DEF Packets
    <2>2. CASE R[n] = P[n]
      BY <2>1, <2>2
    <2>3. ASSUME NEW link \in Links, ~rows[k + 1].edges[Across(link)].available, Queued(P[n], link),
                 R[n] = [P[n] EXCEPT !.status = s]
          PROVE  Tracked(n, R[n], t)
      <3>1. P[n].status = "unresolved" /\ AtLast(P[n]).time \in 0..(End - 1) /\ Onward(P[n]) = link
        BY <2>3 DEF Queued, Rests
      <3>2. ~Flies(P[n])
        <4>1. AtLast(P[n]).time # None
          BY <3>1, RowTimes DEF None
        <4> QED
          BY <1>2, <4>1, FliesIs
      <3>3. Waiting(P[n], t)
        BY <2>1, <3>1, <3>2 DEF Tracked
      <3>4. R[n].status = s
        <4>1. P[n] = R[n] => R[n].status = s
          BY <1>2, <2>3 DEF Records
        <4> QED
          BY <1>9, <4>1
      <3>5. CASE rows[k + 1].state = "stop"
        <4>1. t = End
          BY <1>3, <3>5, RowIs, RowTimes, Zenon
        <4>2. R[n].status = "end_of_window_drop"
          BY <1>c, <3>4, <3>5
        <4> QED
          BY <1>2, <1>9, <2>1, <3>1, <3>3, <4>1, <4>2, PacketFlushed, ZenonT(60)
      <3>6. CASE rows[k + 1].state # "stop"
        <4>1. k + 1 < Len(rows)
          <5>1. k + 1 # Len(rows)
            BY <1>3, <3>6, RowIs
          <5> QED
            BY <1>3, <1>2, <5>1
        <4>2. <<rows[k + 1].time, rows[k + 1 + 1].time>> \in Outages(Across(link))
          BY <1>3, <2>3, <4>1, OutageBegins
        <4>3. rows[k + 1].time < End
          BY <1>3, <4>1, RowIs
        <4>4. \E o \in Outages(Across(Onward(P[n]))) : AtLast(P[n]).time < o[1] /\ o[1] < End
          BY <1>3, <1>4, <3>1, <4>2, <4>3
        <4>5. R[n].status = "outage_queue_drop"
          BY <1>c, <3>4, <3>6
        <4> QED
          BY <1>2, <1>9, <2>1, <3>1, <3>3, <4>4, <4>5, PacketFlushed, ZenonT(60)
      <3> QED
        BY <3>5, <3>6
    <2> QED
      BY <1>6, <2>1, <2>2, <2>3
  <1>13. ASSUME NEW link \in Links, ~rows[k + 1].edges[Across(link)].available PROVE Linked(R, link, Q2[link], S[link], t, k + 1)
    <2>1. link \in Links /\ ~rows[k + 1].edges[Across(link)].available /\ Q2[link] = <<>>
      BY <1>d, <1>13 DEF Flushes
    <2>2. \A n \in DOMAIN P :
            /\ R[n] \in Records /\ R[n].hops = P[n].hops /\ R[n].udp = P[n].udp /\ R[n].aim = P[n].aim
            /\ R[n].status = P[n].status \/ (P[n].status = "unresolved" /\ R[n].status = s)
      BY <1>9
    <2>3. ASSUME NEW n \in DOMAIN P, Queued(P[n], link) PROVE R[n].status = s
      <3>1. R[n] = [P[n] EXCEPT !.status = s]
        BY <1>6, <1>13, <2>1, <2>3
      <3> QED
        BY <1>2, <3>1 DEF Records
    <2>4. Linked(P, link, Q[link], S[link], t, k)
      BY <1>1, <2>1
    <2>5. \A n \in DOMAIN P :
            /\ R[n] \in Records /\ R[n].hops = P[n].hops /\ R[n].udp = P[n].udp /\ R[n].aim = P[n].aim
            /\ R[n].status = P[n].status \/ (P[n].status = "unresolved" /\ R[n].status = s)
            /\ Queued(P[n], link) => R[n].status = s
      BY <2>2, <2>3
    <2>6. t \in Nat /\ k \in Nat /\ k < Len(rows) /\ rows[k + 1].time = t /\ Packets(P, t) /\ DOMAIN R = DOMAIN P
      BY <1>1, <1>2, <1>3, <1>b
    <2>7. Linked(R, link, <<>>, S[link], t, k + 1)
      BY <1>c, <1>4, <2>1, <2>4, <2>5, <2>6, LinkFlushes, SMTT(60)
    <2> QED
      BY <2>1, <2>7
  <1>14. ASSUME NEW link \in Links, rows[k + 1].edges[Across(link)].available PROVE Linked(R, link, Q2[link], S[link], t, k + 1)
    <2>1. Q2[link] = Q[link] /\ rows[k + 1].edges[Across(link)].available /\ Linked(P, link, Q[link], S[link], t, k)
      BY <1>d, <1>1, <1>14 DEF Flushes
    <2>2. ASSUME NEW m \in DOMAIN P PROVE Alike(P[m], R[m], link)
      <3>1. CASE R[m] = P[m]
        BY <3>1 DEF Alike
      <3>2. ASSUME NEW other \in Links, ~rows[k + 1].edges[Across(other)].available, Queued(P[m], other), R[m].status = s
            PROVE  Alike(P[m], R[m], link)
        <4>1. P[m].status = "unresolved" /\ Onward(P[m]) # link
          BY <1>14, <3>2 DEF Queued, Rests
        <4>2. R[m].hops = P[m].hops /\ R[m].udp = P[m].udp /\ R[m].aim = P[m].aim
          BY <1>9
        <4>3. Onward(R[m]) # link /\ \A i : Before(R[m], i) = Before(P[m], i)
          BY <4>1, <4>2, SamePlace
        <4> QED
          BY <4>1, <4>2, <4>3 DEF Alike, Goes, Rests, Balked
      <3>3. R[m] = P[m] \/ R[m].status = s
        BY <1>9
      <3>4. R[m] = P[m] \/ \E other \in Links : ~rows[k + 1].edges[Across(other)].available /\ Queued(P[m], other)
        BY <1>6
      <3> HIDE DEF Queued
      <3> QED
        BY <3>1, <3>2, <3>3, <3>4, ZenonT(30)
    <2>3. \A m \in DOMAIN R : m \notin DOMAIN P => Blank(R[m], link)
      BY <1>b
    <2>4. Device(R, link) = Device(P, link) /\ InLine(R, link, Q[link])
      BY <1>b, <2>1, <2>2, <2>3, LinkSame DEF Linked
    <2>5. k + 1 > 0
      BY <1>3
    <2> QED
      BY <2>1, <2>4, <2>5 DEF Linked
  <1>15. DOMAIN Q2 = Links
    BY <1>d DEF Flushes
  <1>16. Simulated(R, Q2, S, t, k + 1)
    BY <1>1, <1>11, <1>12, <1>13, <1>14, <1>15 DEF Simulated
  <1>17. \A n \in DOMAIN R : R[n].status \in {P[n].status, s}
    BY <1>b, <1>9
  <1> QED
    BY <1>10, <1>16, <1>17 DEF s

\* The records, with one that is handled loose.
Loosened(P, records, n) ==
  /\ records \in Seq(Records) /\ Len(records) = Len(P) /\ DOMAIN records = DOMAIN P /\ n \in DOMAIN P
  /\ \A m \in DOMAIN P : m # n => records[m] = P[m]
  /\ records[n].status = "unresolved" /\ records[n].hops = P[n].hops
  /\ records[n].udp = P[n].udp /\ records[n].aim = P[n].aim /\ records[n].rx = P[n].rx

\* No packet is between its arrival and its fate.
Settled(P) == \A n \in DOMAIN P : P[n].status # "loose"
SettledBut(P, n) == \A m \in DOMAIN P : m # n => P[m].status # "loose"

LEMMA SettledIs ==
  ASSUME NEW P, NEW n, SettledBut(P, n), NEW R, NEW q, Sets(R, P, n, q), q.status # "loose"
  PROVE  Settled(R)
  BY DEF Settled, SettledBut, Sets

LEMMA BegunIs ==
  ASSUME Tabled, NEW P, NEW n, NEW records, Loosened(P, records, n), now \in Nat, applied \in 1..Len(rows),
         NEW link \in Links, Current.edges[Across(link)].available, NEW R, R = Begun(n, link, records)
  PROVE  \E hop, q :
           /\ HopOn(hop, link, rows[applied].edges[Across(link)], now) /\ hop.serialization > 0
           /\ now + hop.serialization = now + Serialization[Current.edges[Across(link)].rate] + replay.rounding
           /\ SentOn(q, P[n], hop) /\ R \in Seq(Records) /\ Len(R) = Len(P) /\ Sets(R, P, n, q)
  <1> DEFINE edge == Current.edges[Across(link)]
             hop == [from |-> link[1], to |-> link[2], tx |-> now, rx |-> None, rate |-> edge.rate, delay |-> edge.delay,
                     serialization |-> Serialization[edge.rate] + replay.rounding, status |-> "unresolved"]
             q == [records[n] EXCEPT !.hops = Append(records[n].hops, hop)]
  <1>1. edge.rate \in Nat /\ edge.delay \in Nat /\ Serialization[edge.rate] + replay.rounding \in Nat \ {0}
    <2>1. IsRow(rows[applied], DOMAIN rows[1].edges)
      BY RowIs
    <2>2. Across(link) \in DOMAIN rows[1].edges
      BY LinkIs
    <2> QED
      BY <2>1, <2>2 DEF IsRow, Current
  <1>2. link[1] \in Nat /\ link[2] \in Nat
    BY LinkIs
  <1>3. hop \in Hops
    BY <1>1, <1>2 DEF Hops, None
  <1>4. HopOn(hop, link, edge, now) /\ hop.serialization > 0 /\ hop.serialization = Serialization[edge.rate] + replay.rounding
    BY <1>1, <1>3 DEF HopOn
  <1>a. now + hop.serialization = now + Serialization[edge.rate] + replay.rounding
    <2>1. replay.rounding \in Int
      BY NetworkReplayAssumption DEF Tabled, Chosen
    <2>2. Serialization[edge.rate] \in Int
      <3>1. IsRow(rows[applied], DOMAIN rows[1].edges)
        BY RowIs
      <3>2. Across(link) \in DOMAIN rows[1].edges
        BY LinkIs
      <3> QED
        BY <3>1, <3>2 DEF IsRow, Current
    <2> HIDE DEF edge
    <2> QED
      BY <2>1, <2>2
  <1>5. records \in Seq(Records) /\ Len(records) = Len(P) /\ DOMAIN records = DOMAIN P /\ n \in DOMAIN P
    BY DEF Loosened
  <1>6. records[n] \in Records
    BY <1>5, LenProperties, ElementOfSeq
  <1>7. R = [records EXCEPT ![n] = q]
    BY <1>5, <1>6 DEF Begun, Across, Records
  <1> HIDE DEF hop
  <1>8. Append(records[n].hops, hop) \in Seq(Hops)
    BY <1>3, <1>6, AppendProperties DEF Records
  <1>9. q \in Records /\ q.hops = Append(records[n].hops, hop) /\ q.udp = records[n].udp /\ q.aim = records[n].aim /\ q.rx = records[n].rx
        /\ q.status = records[n].status
    BY <1>6, <1>8 DEF Records
  <1> HIDE DEF q
  <1>10. SentOn(q, P[n], hop)
    BY <1>9 DEF SentOn, Loosened
  <1>11. Sets(R, records, n, q) /\ R \in Seq(Records) /\ Len(R) = Len(records)
    <2>1. n \in 1..Len(records) /\ records \in Seq(Records) /\ q \in Records
      BY <1>5, <1>9, LenProperties
    <2>2. [records EXCEPT ![n] = q] \in Seq(Records) /\ Len([records EXCEPT ![n] = q]) = Len(records)
      BY <2>1, ExceptSeq
    <2>3. DOMAIN R = DOMAIN records /\ R[n] = q /\ \A m \in DOMAIN records : m # n => R[m] = records[m]
      BY <1>5, <1>7
    <2>4. R \in Seq(Records) /\ Len(R) = Len(records)
      BY <1>7, <2>2
    <2> QED
      BY <1>5, <2>3, <2>4 DEF Sets
  <1>12. Sets(R, P, n, q)
    BY <1>11 DEF Sets, Loosened
  <1> QED
    BY <1>4, <1>5, <1>a, <1>10, <1>11, <1>12 DEF Current

\* A device sends a packet, and the simulation goes on.
LEMMA Transmits ==
  ASSUME Tabled, NEW P, Simulated(P, queue, sending, now, applied), ~SnapshotDue(now, applied), now < End,
         NEW link \in Links, Current.edges[Across(link)].available, NEW n, NEW records, Loosened(P, records, n),
         Handed(P[n], now), Onward(P[n]) = link, NEW rest,
         \/ P[n].status = "loose" /\ sending[link] = Idle /\ rest = <<>>
         \/ P[n].status = "unresolved" /\ queue[link] # <<>> /\ n = queue[link][1] /\ sending[link] # Idle
            /\ sending[link].until = now /\ rest = Tail(queue[link]),
         SettledBut(P, n), Transmit(n, link, records), Puts(queue', queue, link, rest)
  PROVE  Simulated(packets', queue', sending', now, applied) /\ Settled(packets') /\ Len(packets') = Len(P) /\ Proceed
  <1>1. Clocked(P, now, applied) /\ DOMAIN sending = Links
    BY DEF Simulated
  <1>2. now \in Nat /\ applied \in 1..Len(rows)
    BY <1>1, PacketsAre, RowNow
  <1>3. MayTransmit(link)
    BY DEF MayTransmit, Across
  <1> DEFINE next == [packet |-> n, until |-> now + Serialization[Current.edges[Across(link)].rate] + replay.rounding]
  <1>4. packets' = Begun(n, link, records) /\ sending' = [sending EXCEPT ![link] = next] /\ Proceed
    BY <1>3 DEF Transmit, Across
  <1>5. PICK hop, q :
           /\ HopOn(hop, link, rows[applied].edges[Across(link)], now) /\ hop.serialization > 0
           /\ now + hop.serialization = now + Serialization[Current.edges[Across(link)].rate] + replay.rounding
           /\ SentOn(q, P[n], hop) /\ packets' \in Seq(Records) /\ Len(packets') = Len(P) /\ Sets(packets', P, n, q)
    BY <1>2, <1>4, BegunIs
  <1>6. Puts(sending', sending, link, next)
    BY <1>1, <1>4, PutsIs
  <1>7. next.until = now + hop.serialization
    BY <1>5
  <1>8. n \in DOMAIN P
    BY DEF Loosened
  <1>9. rows[applied].edges[Across(link)].available
    BY DEF Current
  <1>10. Simulated(packets', queue', sending', now, applied)
    <2> HIDE DEF next
    <2>1. /\ HopOn(hop, link, rows[applied].edges[Across(link)], now) /\ hop.serialization > 0
          /\ SentOn(q, P[n], hop) /\ packets' \in Seq(Records) /\ Len(packets') = Len(P) /\ Sets(packets', P, n, q)
      BY <1>5
    <2> QED
      BY <1>6, <1>7, <1>8, <1>9, <2>1, SimSends, ZenonT(90)
  <1>11. Settled(packets')
    <2>1. q.status # "loose"
      BY <1>5 DEF SentOn
    <2> QED
      BY <1>5, <2>1, SettledIs
  <1> QED
    BY <1>4, <1>5, <1>10, <1>11

\* A packet that has come to a node where the route leads on.
LEMMA LooseGoes ==
  ASSUME Tabled, NEW P, Simulated(P, queue, sending, now, applied), ~SnapshotDue(now, applied),
         NEW n \in DOMAIN P, P[n].status = "loose", NEW v, v = AtLast(P[n]).node, NextNode(Current, v, P[n].aim) # None,
         NEW link, link = <<v, NextNode(Current, v, P[n].aim)>>
  PROVE  link \in Links /\ Onward(P[n]) = link /\ now < End /\ Current.edges[Across(link)].available
  <1>1. Clocked(P, now, applied) /\ Tracked(n, P[n], now)
    BY DEF Simulated, Packets
  <1>2. applied \in 1..Len(rows) /\ RowAt(now) = Current /\ (applied < Len(rows) => now < End)
    BY <1>1, RowNow DEF Current
  <1>3. AtLast(P[n]).time = now
    BY <1>1 DEF Tracked
  <1>a. P[n].aim \in {Source, Target}
    BY <1>1, PlaceIs DEF Tracked
  <1>4. applied < Len(rows) /\ link \in Links /\ Current.edges[Across(link)].available
    BY <1>2, <1>a, NextIs, ZenonT(40) DEF Current
  <1> QED
    BY <1>2, <1>3, <1>4 DEF Onward

\* Send: the device sends the packet, queues it or drops it.
LEMMA SendsOn ==
  ASSUME Tabled, NEW P, Simulated(P, queue, sending, now, applied), ~SnapshotDue(now, applied), now < End,
         NEW link \in Links, Current.edges[Across(link)].available, NEW n, NEW records, Loosened(P, records, n),
         P[n].status = "loose", Onward(P[n]) = link, SettledBut(P, n), Send(n, link, records)
  PROVE  Simulated(packets', queue', sending', now, applied) /\ Settled(packets') /\ Len(packets') = Len(P) /\ Proceed
  <1>1. Clocked(P, now, applied) /\ DOMAIN queue = Links /\ DOMAIN sending = Links
        /\ Linked(P, link, queue[link], sending[link], now, applied)
    BY DEF Simulated
  <1>2. n \in DOMAIN P /\ DOMAIN records = DOMAIN P /\ records \in Seq(Records) /\ Len(records) = Len(P)
    BY DEF Loosened
  <1>3. records[n] \in Records /\ P[n] \in Records /\ n \in 1..Len(records)
    BY <1>1, <1>2, PacketsAre, LenProperties, ElementOfSeq
  <1>4. CASE sending[link] = Idle
    <2>1. Transmit(n, link, records) /\ UNCHANGED queue
      BY <1>4 DEF Send
    <2>2. queue[link] = <<>>
      BY <1>1, <1>4 DEF Linked, Busy
    <2>3. Puts(queue', queue, link, <<>>)
      BY <1>1, <2>1, <2>2, PutsIs
    <2>4. Handed(P[n], now)
      BY DEF Handed
    <2> QED
      BY <1>4, <2>1, <2>3, <2>4, Transmits, SMTT(60)
  <1>5. CASE sending[link] # Idle
    <2>1. rows[applied].edges[Across(link)].available
      BY DEF Current
    <2>2. Proceed /\ sending' = sending
      BY <1>5 DEF Send
    <2>3. Len(queue[link]) \in Nat /\ replay.queue \in Nat
      <3>1. queue[link] \in Seq(Nat)
        BY <1>1 DEF Linked, InLine
      <3>2. replay.queue \in Nat
        BY NetworkReplayAssumption DEF Tabled, Chosen
      <3> QED
        BY <3>1, <3>2, LenProperties
    <2>4. CASE Len(queue[link]) >= replay.queue
      <3> DEFINE q == [records[n] EXCEPT !.status = "queue_drop"]
      <3>1. queue' = queue /\ packets' = [records EXCEPT ![n] = q]
        BY <1>2, <1>5, <2>4 DEF Send
      <3>2. q \in Records /\ q.hops = records[n].hops /\ q.udp = records[n].udp /\ q.aim = records[n].aim /\ q.rx = records[n].rx /\ q.status = "queue_drop"
        BY <1>3 DEF Records, Statuses, InQueue
      <3> HIDE DEF q
      <3>3. q.hops = P[n].hops /\ q.udp = P[n].udp /\ q.aim = P[n].aim /\ q.rx = P[n].rx
        BY <3>2 DEF Loosened
      <3>4. packets' \in Seq(Records) /\ Len(packets') = Len(P)
        BY <1>2, <1>3, <3>1, <3>2, ExceptSeq
      <3>5. DOMAIN packets' = DOMAIN records /\ packets'[n] = q /\ \A m \in DOMAIN records : m # n => packets'[m] = records[m]
        BY <1>2, <3>1
      <3>6. Sets(packets', P, n, q)
        BY <1>2, <3>5 DEF Sets, Loosened
      <3>7. Puts(queue', queue, link, queue[link])
        BY <1>1, <3>1, PutsIs
      <3>a. \/ q.status = "unresolved" /\ Len(queue[link]) < replay.queue /\ queue[link] = Append(queue[link], n)
            \/ q.status = "queue_drop" /\ Len(queue[link]) >= replay.queue /\ queue[link] = queue[link]
        BY <2>4, <3>2
      <3>8. Simulated(packets', queue', sending, now, applied)
        BY <1>2, <1>5, <2>1, <3>2, <3>3, <3>4, <3>6, <3>7, <3>a, SimQueues, ZenonT(60)
      <3>9. Settled(packets')
        BY <3>2, <3>6, SettledIs
      <3> QED
        BY <2>2, <3>4, <3>8, <3>9
    <2>5. CASE ~(Len(queue[link]) >= replay.queue)
      <3> DEFINE q == records[n]
                 more == Append(queue[link], n)
      <3>1. queue' = [queue EXCEPT ![link] = more] /\ packets' = records
        BY <1>1, <1>5, <2>5 DEF Send
      <3>2. q \in Records /\ q.hops = P[n].hops /\ q.udp = P[n].udp /\ q.aim = P[n].aim /\ q.rx = P[n].rx /\ q.status = "unresolved"
        BY <1>3 DEF Loosened
      <3>3. Sets(packets', P, n, q)
        BY <1>2, <3>1 DEF Sets, Loosened
      <3>a. more = Append(queue[link], n)
        OBVIOUS
      <3> HIDE DEF q, more
      <3>4. Puts(queue', queue, link, more)
        BY <1>1, <3>1, PutsIs
      <3>5. Len(queue[link]) < replay.queue
        BY <2>3, <2>5
      <3>6. packets' \in Seq(Records) /\ Len(packets') = Len(P)
        BY <1>2, <3>1
      <3>b. \/ q.status = "unresolved" /\ Len(queue[link]) < replay.queue /\ more = Append(queue[link], n)
            \/ q.status = "queue_drop" /\ Len(queue[link]) >= replay.queue /\ more = queue[link]
        BY <3>2, <3>5, <3>a
      <3>7. Simulated(packets', queue', sending, now, applied)
        BY <1>2, <1>5, <2>1, <3>2, <3>3, <3>4, <3>6, <3>b, SimQueues, ZenonT(60)
      <3>8. Settled(packets')
        BY <3>2, <3>3, SettledIs
      <3> QED
        BY <2>2, <3>6, <3>7, <3>8
    <2> QED
      BY <2>4, <2>5
  <1> QED
    BY <1>4, <1>5

\* What holds between the simulator's events.
Lives(P, Q, S, t, k, c) == Simulated(P, Q, S, t, k) /\ Settled(P) /\ c = Len(P)
Living == Lives(packets, queue, sending, now, applied, offered)

LEMMA UpdateLives ==
  ASSUME Tabled, Living, Update
  PROVE  Lives(packets', queue', sending', now', applied', offered') /\ UNCHANGED phase
  <1>1. Simulated(packets, queue, sending, now, applied) /\ Settled(packets) /\ offered = Len(packets)
    BY DEF Living, Lives
  <1>2. SnapshotDue(now, applied) /\ DOMAIN queue = Links
    BY <1>1 DEF Update, UpdateDue, SnapshotDue, Simulated
  <1>3. sending' = sending /\ now' = now /\ offered' = offered /\ phase' = phase /\ applied' = applied + 1
    BY DEF Update
  <1> DEFINE s == FlushStatus(rows[applied + 1])
             row == rows[applied + 1]
             flushed == {link \in DOMAIN queue : ~row.edges[Edge(link[1], link[2])].available}
  <1>4. /\ queue' = [link \in DOMAIN queue |-> IF link \in flushed THEN <<>> ELSE queue[link]]
        /\ packets' = [n \in DOMAIN packets |->
              IF \E link \in flushed : Waits(n, link) THEN [packets[n] EXCEPT !.status = s] ELSE packets[n]]
    BY <1>3 DEF Update, FlushStatus
  <1>5. s # "loose"
    BY DEF FlushStatus
  <1>a. \A link : link \in flushed <=> link \in Links /\ ~row.edges[Across(link)].available
    BY <1>2 DEF Across
  <1> HIDE DEF flushed
  <1>8. Flushes(packets', queue', packets, queue, rows[applied + 1], s)
    <2>1. DOMAIN queue' = Links
      BY <1>2, <1>4
    <2>2. \A link \in Links : queue'[link] = IF row.edges[Across(link)].available THEN queue[link] ELSE <<>>
      BY <1>2, <1>4, <1>a
    <2>3. packets' = [n \in DOMAIN packets |-> packets'[n]]
      BY <1>4
    <2>4. ASSUME NEW n \in DOMAIN packets
          PROVE  packets'[n] = IF \E link \in Links : /\ ~row.edges[Across(link)].available
                                                      /\ \E i \in DOMAIN queue[link] : queue[link][i] = n
                               THEN [packets[n] EXCEPT !.status = s] ELSE packets[n]
      <3>1. packets'[n] = IF \E link \in flushed : Waits(n, link) THEN [packets[n] EXCEPT !.status = s] ELSE packets[n]
        BY <1>4
      <3>2. (\E link \in flushed : Waits(n, link))
              <=> \E link \in Links : /\ ~row.edges[Across(link)].available
                                      /\ \E i \in DOMAIN queue[link] : queue[link][i] = n
        BY <1>a DEF Waits
      <3> QED
        BY <3>1, <3>2
    <2> QED
      BY <2>1, <2>2, <2>3, <2>4 DEF Flushes
  <1>6. /\ Simulated(packets', queue', sending, now, applied + 1) /\ Len(packets') = Len(packets)
        /\ \A n \in DOMAIN packets' : packets'[n].status \in {packets[n].status, s}
    BY <1>1, <1>2, <1>8, SimUpdates, ZenonT(60)
  <1>7. Settled(packets')
    <2>1. DOMAIN packets' = DOMAIN packets
      BY <1>4
    <2> QED
      BY <1>1, <1>5, <1>6, <2>1 DEF Settled
  <1> QED
    BY <1>1, <1>3, <1>6, <1>7 DEF Lives

LEMMA OfferLives ==
  ASSUME Tabled, Living, Offer
  PROVE  Lives(packets', queue', sending', now', applied', offered') /\ Proceed
  <1>1. Simulated(packets, queue, sending, now, applied) /\ Settled(packets) /\ offered = Len(packets)
        /\ Clocked(packets, now, applied)
    BY DEF Living, Lives, Simulated
  <1>2. /\ ~SnapshotDue(now, applied) /\ Len(packets) < Len(OfferTimes) /\ OfferTimes[Len(packets) + 1] = now
        /\ now' = now /\ applied' = applied /\ offered' = Len(packets) + 1
    BY <1>1 DEF Offer, OfferDue, UpdateDue, SnapshotDue
  <1> DEFINE n == Len(packets) + 1
  <1>3. /\ Len(packets) \in Nat /\ DOMAIN packets = 1..Len(packets) /\ packets \in Seq(Records)
        /\ now \in Nat /\ Len(OfferTimes) \in Nat
    BY <1>1, PacketsAre, OfferTimesAre DEF Tabled, Clocked
  <1>4. n \in 1..Len(OfferTimes) /\ now < End
    <2>1. n \in 1..Len(OfferTimes)
      BY <1>2, <1>3
    <2> QED
      BY <1>2, <2>1, OfferTimesAre DEF Tabled
  <1>5. applied \in 1..Len(rows) /\ RowAt(now) = Current /\ rows[applied].time <= now
    BY <1>1, <1>2, RowNow DEF Current
  <1>6. Current.state \in {"disconnected", "acquiring", "ready"}
    <2>1. applied # Len(rows)
      <3>1. rows[Len(rows)].time = End /\ End \in Nat
        BY RowTimes
      <3>2. rows[applied].time <= now /\ now < End /\ now \in Nat
        BY <1>3, <1>4, <1>5
      <3> QED
        BY <3>1, <3>2
    <2>2. IsRow(rows[applied], DOMAIN rows[1].edges) /\ rows[applied].state # "stop"
      BY <1>5, <2>1, RowIs
    <2> QED
      BY <2>2 DEF IsRow, Current
  <1> DEFINE fresh == [aim |-> Aim(n), udp |-> now, rx |-> None, status |-> "unresolved", hops |-> <<>>]
             status == IF Current.state = "acquiring" THEN "acquisition_suppressed" ELSE "no_route"
  <1>c. Aim(n) \in {Source, Target}
    BY DEF Aim
  <1>b. OfferComes(packets, now)
    BY <1>2 DEF OfferComes
  <1>7. CASE Current.state # "ready"
    <2> DEFINE q == [aim |-> Aim(n), udp |-> None, rx |-> None, status |-> status, hops |-> <<>>]
    <2>c. [fresh EXCEPT !.udp = None, !.status = status] = q
      <3>1. [fresh EXCEPT !.udp = None] = [aim |-> Aim(n), udp |-> None, rx |-> None, status |-> "unresolved", hops |-> <<>>]
        OBVIOUS
      <3> HIDE DEF status
      <3>2. [[aim |-> Aim(n), udp |-> None, rx |-> None, status |-> "unresolved", hops |-> <<>>] EXCEPT !.status = status] = q
        OBVIOUS
      <3> QED
        BY <3>1, <3>2
    <2>1. packets' = Append(packets, q) /\ Proceed /\ queue' = queue /\ sending' = sending
      <3> DEFINE changed == [fresh EXCEPT !.udp = None, !.status = status]
      <3>1. packets' = Append(packets, changed) /\ Proceed /\ queue' = queue /\ sending' = sending
        BY <1>1, <1>7, Zenon DEF Offer
      <3> HIDE DEF changed, q
      <3>2. changed = q
        BY <2>c, Zenon DEF changed
      <3> QED
        BY <3>1, <3>2, Zenon
    <2>a. q.aim = Aim(n) /\ q.hops = <<>> /\ q.rx = None /\ q.udp = None /\ q.status = status
      OBVIOUS
    <2>b. /\ status \in {"acquisition_suppressed", "no_route"}
          /\ status = "no_route" => RowAt(now).state = "disconnected"
          /\ status = "acquisition_suppressed" => RowAt(now).state = "acquiring"
      BY <1>5, <1>6, <1>7
    <2>2. q \in Records
      <3>1. status \in Statuses
        BY <2>b DEF Statuses, Suppressed
      <3> HIDE DEF status
      <3>2. <<>> \in Seq(Hops)
        OBVIOUS
      <3> QED
        BY <1>c, <3>1, <3>2 DEF Records, None
    <2> HIDE DEF q, status
    <2>3. Tracked(n, q, now)
      BY <1>2, <1>3, <1>4, <2>2, <2>a, <2>b, PacketOffered, ZenonT(60)
    <2>4. \A link \in Links : Blank(q, link)
      BY <2>2, <2>a, <2>b, OfferBlank
    <2>5. /\ Simulated(packets', queue, sending, now, applied)
          /\ Len(packets') = Len(packets) + 1 /\ packets'[n] = q
      <3>1. Simulated(packets, queue, sending, now, applied) /\ ~SnapshotDue(now, applied)
        BY <1>1, <1>2, <2>1
      <3> DEFINE P == Append(packets, q)
      <3>2. /\ Simulated(P, queue, sending, now, applied)
            /\ P \in Seq(Records) /\ Len(P) = Len(packets) + 1 /\ P[n] = q /\ n \in DOMAIN P
        BY <1>b, <2>2, <2>3, <2>4, <3>1, SimOffers, ZenonT(60)
      <3>3. packets' = P
        BY <2>1
      <3> HIDE DEF P
      <3> QED
        BY <3>2, <3>3
    <2>6. Settled(packets')
      <3>1. \A m \in 1..Len(packets) : packets'[m] = packets[m]
        BY <1>3, <2>1, <2>2, AppendProperties
      <3>2. DOMAIN packets' = 1..(Len(packets) + 1)
        BY <1>3, <2>1, <2>2, AppendProperties
      <3>3. \A m \in DOMAIN packets' : m \in 1..Len(packets) \/ m = n
        BY <1>3, <3>2
      <3> QED
        BY <1>1, <1>3, <2>a, <2>b, <2>5, <3>1, <3>3 DEF Settled
    <2> QED
      BY <1>2, <2>1, <2>5, <2>6 DEF Lives
  <1>8. CASE Current.state = "ready"
    <2> DEFINE q == [aim |-> Aim(n), udp |-> now, rx |-> None, status |-> "loose", hops |-> <<>>]
               P == Append(packets, q)
               records == Append(packets, fresh)
               link == <<Origin(Aim(n)), NextNode(Current, Origin(Aim(n)), Aim(n))>>
    <2>1. Send(n, link, records)
      BY <1>1, <1>8 DEF Offer
    <2>2. /\ q \in Records /\ q.aim = Aim(n) /\ fresh.aim = Aim(n) /\ q.hops = <<>> /\ q.rx = None /\ q.udp = now /\ q.status = "loose"
          /\ fresh \in Records /\ fresh.hops = <<>> /\ fresh.rx = None /\ fresh.udp = now /\ fresh.status = "unresolved"
      <3>1. <<>> \in Seq(Hops) /\ "loose" \in Statuses /\ "unresolved" \in Statuses
        BY DEF Statuses, InQueue
      <3>2. now \in Int
        BY <1>3
      <3> QED
        BY <1>c, <3>1, <3>2 DEF Records, None
    <2> HIDE DEF q, fresh
    <2>3. Tracked(n, q, now)
      <3>1. RowAt(now).state \notin {"disconnected", "acquiring"}
        BY <1>5, <1>8
      <3> QED
        BY <1>2, <1>3, <1>4, <2>2, <3>1, PacketOffered, ZenonT(60)
    <2>4. \A other \in Links : Blank(q, other)
      BY <2>2, OfferBlank
    <2>5. /\ Simulated(P, queue, sending, now, applied)
          /\ P \in Seq(Records) /\ Len(P) = Len(packets) + 1 /\ P[n] = q /\ n \in DOMAIN P
      <3>1. Simulated(packets, queue, sending, now, applied) /\ ~SnapshotDue(now, applied)
        BY <1>1, <1>2
      <3> QED
        BY <1>b, <2>2, <2>3, <2>4, <3>1, SimOffers, ZenonT(60)
    <2>6. /\ records \in Seq(Records) /\ Len(records) = n /\ records[n] = fresh
          /\ \A m \in 1..Len(packets) : records[m] = packets[m] /\ P[m] = packets[m]
          /\ DOMAIN records = 1..n /\ DOMAIN P = 1..n
      BY <1>3, <2>2, AppendProperties
    <2>7. \A m \in DOMAIN P : m # n => m \in 1..Len(packets)
      BY <1>3, <2>6
    <2> HIDE DEF P, records
    <2>8. Loosened(P, records, n)
      BY <2>2, <2>5, <2>6, <2>7 DEF Loosened
    <2>9. SettledBut(P, n)
      BY <1>1, <1>3, <2>6, <2>7 DEF SettledBut, Settled
    <2>10. NextNode(Current, Origin(Aim(n)), Aim(n)) # None /\ AtLast(P[n]).node = Origin(Aim(n))
      <3>1. NextNode(Current, Origin(Aim(n)), Aim(n)) # None
        BY <1>5, <1>8, <1>c, NextOrigin DEF Current
      <3>2. Len(q.hops) = 0
        BY <2>2, PlaceIs
      <3> QED
        BY <2>2, <2>5, <3>1, <3>2, PlaceIs
    <2>11. link \in Links /\ Onward(P[n]) = link /\ Current.edges[Across(link)].available
      BY <1>2, <2>2, <2>5, <2>10, LooseGoes
    <2> HIDE DEF link
    <2>12. Simulated(packets', queue', sending', now, applied) /\ Settled(packets') /\ Len(packets') = Len(P) /\ Proceed
      BY <1>2, <1>4, <2>1, <2>2, <2>5, <2>8, <2>9, <2>11, SendsOn, ZenonT(60)
    <2> QED
      BY <1>2, <2>5, <2>12 DEF Lives
  <1> QED
    BY <1>7, <1>8

LEMMA CompleteLives ==
  ASSUME Tabled, Living, NEW link \in DOMAIN sending, Complete(link)
  PROVE  Lives(packets', queue', sending', now', applied', offered') /\ Proceed
  <1>1. Simulated(packets, queue, sending, now, applied) /\ Settled(packets) /\ offered = Len(packets)
        /\ Clocked(packets, now, applied) /\ DOMAIN sending = Links /\ DOMAIN queue = Links
    BY DEF Living, Lives, Simulated
  <1>2. /\ ~SnapshotDue(now, applied) /\ sending[link] # Idle /\ sending[link].until = now
        /\ now' = now /\ applied' = applied /\ offered' = offered
    BY DEF Complete, Dynamic, UpdateDue, SnapshotDue, SendingDone
  <1>3. link \in Links
    BY <1>1
  <1>4. CASE queue[link] = <<>>
    <2>1. sending' = [sending EXCEPT ![link] = Idle] /\ Proceed /\ packets' = packets /\ queue' = queue
      BY <1>4 DEF Complete
    <2>2. Puts(sending', sending, link, Idle)
      BY <1>1, <2>1, PutsIs
    <2>3. Simulated(packets, queue, sending', now, applied)
      BY <1>1, <1>2, <1>3, <1>4, <2>2, SimFrees, ZenonT(60)
    <2> QED
      BY <1>1, <1>2, <2>1, <2>3 DEF Lives
  <1>5. CASE queue[link] # <<>>
    <2> DEFINE n == queue[link][1]
    <2>1. Transmit(n, link, packets) /\ queue' = [queue EXCEPT ![link] = Tail(queue[link])]
      <3>1. Transmit(Head(queue[link]), link, packets) /\ queue' = [queue EXCEPT ![link] = Tail(queue[link])]
        BY <1>1, <1>3, <1>5 DEF Complete
      <3>2. queue[link] \in Seq(Nat)
        BY <1>1, <1>3 DEF Simulated, Linked, InLine
      <3>3. Head(queue[link]) = queue[link][1]
        BY <3>2, HeadTailProperties, <1>5
      <3> QED
        BY <3>1, <3>3
    <2>2. n \in DOMAIN packets /\ Queued(packets[n], link)
      <3>1. InLine(packets, link, queue[link])
        BY <1>1, <1>3 DEF Simulated, Linked
      <3>2. 1 \in 1..Len(queue[link])
        <4>1. queue[link] \in Seq(Nat)
          BY <3>1 DEF InLine
        <4> QED
          BY <1>5, <4>1, LenProperties, EmptySeq
      <3> QED
        BY <3>1, <3>2 DEF InLine
    <2>3. packets[n].status = "unresolved" /\ Onward(packets[n]) = link /\ packets[n] \in Records /\ ~Flies(packets[n])
      <3>1. packets[n].status = "unresolved" /\ Onward(packets[n]) = link /\ AtLast(packets[n]).time \in 0..(End - 1)
        BY <2>2 DEF Queued, Rests
      <3>2. packets[n] \in Records
        BY <1>1, <2>2, PacketsAre
      <3>3. AtLast(packets[n]).time # None
        BY <3>1, RowTimes DEF None
      <3> QED
        BY <3>1, <3>2, <3>3, FliesIs
    <2> HIDE DEF n
    <2>4. Waiting(packets[n], now) /\ applied \in 1..Len(rows) /\ applied < Len(rows) /\ rows[applied].edges[Across(link)].available
      BY <1>1, <2>2, <2>3, QueuedIs
    <2>5. now < End /\ Current.edges[Across(link)].available
      BY <1>1, <1>2, <2>4, RowNow DEF Current
    <2>6. Loosened(packets, packets, n)
      BY <1>1, <2>2, <2>3 DEF Loosened, Clocked
    <2>7. Handed(packets[n], now) /\ SettledBut(packets, n)
      BY <1>1, <2>3, <2>4 DEF Handed, Settled, SettledBut
    <2>8. Puts(queue', queue, link, Tail(queue[link]))
      BY <1>1, <1>3, <2>1, PutsIs
    <2>9. n = queue[link][1]
      BY DEF n
    <2>10. Simulated(packets', queue', sending', now, applied) /\ Settled(packets') /\ Len(packets') = Len(packets) /\ Proceed
      <3> DEFINE rest == Tail(queue[link])
      <3>1. \/ packets[n].status = "loose" /\ sending[link] = Idle /\ rest = <<>>
            \/ packets[n].status = "unresolved" /\ queue[link] # <<>> /\ n = queue[link][1] /\ sending[link] # Idle
               /\ sending[link].until = now /\ rest = Tail(queue[link])
        BY <1>2, <1>5, <2>3, <2>9
      <3>2. Puts(queue', queue, link, rest) /\ Transmit(n, link, packets) /\ Onward(packets[n]) = link
        BY <2>1, <2>3, <2>8
      <3>3. Simulated(packets, queue, sending, now, applied) /\ ~SnapshotDue(now, applied)
        BY <1>1, <1>2
      <3> HIDE DEF rest
      <3> QED
        BY <1>3, <2>5, <2>6, <2>7, <3>1, <3>2, <3>3, Transmits, ZenonT(90)
    <2> QED
      BY <1>1, <1>2, <2>10 DEF Lives
  <1> QED
    BY <1>4, <1>5

LEMMA AdvanceLives ==
  ASSUME Tabled, Living, Advance
  PROVE  /\ Lives(packets', queue', sending', now', applied', offered')
         /\ \/ UNCHANGED phase
            \/ /\ phase' = "parse" /\ now' = StopTime /\ ~SnapshotDue(now, applied) /\ ~OfferComes(packets, now)
               /\ UNCHANGED <<packets, queue, sending, now, applied, offered>>
  <1>1. Simulated(packets, queue, sending, now, applied) /\ Settled(packets) /\ offered = Len(packets)
        /\ DOMAIN sending = Links
    BY DEF Living, Lives, Simulated
  <1>2. UNCHANGED <<packets, queue, sending, applied, offered>>
    BY DEF Advance
  <1>3. ~SnapshotDue(now, applied) /\ ~OfferComes(packets, now)
    BY <1>1 DEF Advance, Dynamic, UpdateDue, SnapshotDue, OfferDue, OfferComes
  <1>4. CASE now = StopTime
    <2>1. phase' = "parse" /\ now' = now
      BY <1>4 DEF Advance
    <2> QED
      BY <1>1, <1>2, <1>3, <1>4, <2>1 DEF Lives
  <1>5. CASE now # StopTime
    <2>1. phase' = phase /\ now' = now + 1
      BY <1>5 DEF Advance
    <2>2. \A link \in Links : sending[link] # Idle => sending[link].until # now
      BY <1>1 DEF Advance, SendingDone
    <2>3. ASSUME NEW n \in DOMAIN packets
          PROVE  /\ packets[n].status # "loose"
                 /\ Flies(packets[n]) => LET hop == packets[n].hops[Len(packets[n].hops)]
                                         IN hop.tx + hop.serialization + hop.delay # now
      BY <1>1 DEF Advance, ArrivalDue, LastHop, Flies, Settled
    <2>4. ~(Len(packets) < Len(OfferTimes) /\ OfferTimes[Len(packets) + 1] = now)
      BY <1>3 DEF OfferComes
    <2>5. Simulated(packets, queue, sending, now + 1, applied)
      BY <1>1, <1>3, <2>2, <2>3, <2>4, SimTicks, ZenonT(60)
    <2> QED
      BY <1>1, <1>2, <2>1, <2>5 DEF Lives
  <1> QED
    BY <1>4, <1>5

\* The record of a hop that has ended.
LEMMA HopEnds ==
  ASSUME NEW last \in Hops, NEW t \in Nat, NEW lost \in BOOLEAN
  PROVE  HopOver([last EXCEPT !.rx = t, !.status = IF lost THEN "rx_outage_drop" ELSE "received"], last, t, lost)
  <1> DEFINE half == [last EXCEPT !.rx = t]
             status == IF lost THEN "rx_outage_drop" ELSE "received"
  <1>1. half \in Hops /\ half.from = last.from /\ half.to = last.to /\ half.tx = last.tx /\ half.rx = t
        /\ half.rate = last.rate /\ half.delay = last.delay /\ half.serialization = last.serialization
    <2>1. t \in Int
      OBVIOUS
    <2> QED
      BY <2>1 DEF Hops
  <1>2. status \in {"received", "rx_outage_drop"}
    OBVIOUS
  <1>3. [last EXCEPT !.rx = t, !.status = IF lost THEN "rx_outage_drop" ELSE "received"] = [half EXCEPT !.status = status]
    OBVIOUS
  <1> HIDE DEF half, status
  <1> DEFINE hop == [half EXCEPT !.status = status]
  <1>4. /\ hop \in Hops /\ hop.from = half.from /\ hop.to = half.to /\ hop.tx = half.tx /\ hop.rx = half.rx
        /\ hop.rate = half.rate /\ hop.delay = half.delay /\ hop.serialization = half.serialization
        /\ hop.status = status
    BY <1>1, <1>2 DEF Hops
  <1>5. status = IF lost THEN "rx_outage_drop" ELSE "received"
    BY DEF status
  <1> HIDE DEF hop
  <1>6. HopOver(hop, last, t, lost)
    BY <1>1, <1>4, <1>5 DEF HopOver
  <1> QED
    BY <1>3, <1>6 DEF hop

\* The records of a packet that has come to the other end of a link, as done and as it is handled.
LandsAs(hop, r, q, p, t, lost) ==
  /\ HopOver(hop, p.hops[Len(p.hops)], t, lost) /\ LandedOn(q, p, hop, lost)
  /\ r \in Records /\ r.status = p.status /\ r.hops = q.hops /\ r.udp = q.udp /\ r.aim = q.aim /\ r.rx = q.rx

LEMMA LandedIs ==
  ASSUME NEW p \in Records, Len(p.hops) \in 1..Len(p.hops), NEW t \in Nat, NEW lost \in BOOLEAN
  PROVE  LET last == p.hops[Len(p.hops)]
             hop == [last EXCEPT !.rx = t, !.status = IF lost THEN "rx_outage_drop" ELSE "received"]
             r == [p EXCEPT !.hops = [p.hops EXCEPT ![Len(p.hops)] = hop]]
             q == [r EXCEPT !.status = IF lost THEN "rx_outage_drop" ELSE "loose"]
         IN LandsAs(hop, r, q, p, t, lost)
  <1> DEFINE last == p.hops[Len(p.hops)]
             hop == [last EXCEPT !.rx = t, !.status = IF lost THEN "rx_outage_drop" ELSE "received"]
             hops == [p.hops EXCEPT ![Len(p.hops)] = hop]
             r == [p EXCEPT !.hops = hops]
             fate == IF lost THEN "rx_outage_drop" ELSE "loose"
             q == [r EXCEPT !.status = fate]
  <1>1. last \in Hops
    BY PlaceIs
  <1>3. HopOver(hop, last, t, lost)
    BY <1>1, HopEnds, Zenon
  <1>2. hop \in Hops
    <2> HIDE DEF hop
    <2> QED
      BY <1>3 DEF HopOver
  <1> HIDE DEF hop, last
  <1>4. hops \in Seq(Hops)
    <2>1. p.hops \in Seq(Hops) /\ hop \in Hops
      BY <1>2 DEF Records
    <2> DEFINE s == p.hops
               i == Len(p.hops)
    <2>2. s \in Seq(Hops) /\ i \in 1..Len(s) /\ hop \in Hops
      BY <2>1
    <2> HIDE DEF s, i
    <2>3. [s EXCEPT ![i] = hop] \in Seq(Hops)
      BY <2>2, ExceptSeq
    <2> QED
      BY <2>3 DEF s, i
  <1>a. hops = [p.hops EXCEPT ![Len(p.hops)] = hop]
    OBVIOUS
  <1> HIDE DEF hops
  <1>5. r \in Records /\ r.status = p.status /\ r.hops = hops /\ r.udp = p.udp /\ r.aim = p.aim /\ r.rx = p.rx
    BY <1>4 DEF Records
  <1> HIDE DEF r
  <1>b. fate = (IF lost THEN "rx_outage_drop" ELSE "loose") /\ fate \in Statuses
    BY DEF Statuses
  <1> HIDE DEF fate
  <1>6. q \in Records /\ q.hops = r.hops /\ q.udp = r.udp /\ q.aim = r.aim /\ q.rx = r.rx /\ q.status = fate
    BY <1>5, <1>b DEF Records
  <1> HIDE DEF q
  <1>7. LandedOn(q, p, hop, lost)
    BY <1>5, <1>6, <1>a, <1>b DEF LandedOn
  <1>8. r.hops = q.hops /\ r.udp = q.udp /\ r.aim = q.aim /\ r.rx = q.rx /\ r \in Records /\ r.status = p.status
    BY <1>5, <1>6
  <1>9. LandsAs(hop, r, q, p, t, lost)
    BY <1>3, <1>7, <1>8 DEF LandsAs, last
  <1> QED
    BY <1>9 DEF q, r, hops, hop, last, fate

\* The records in which one is another.
LEMMA SetsTo ==
  ASSUME NEW P \in Seq(Records), NEW n \in DOMAIN P, NEW q \in Records
  PROVE  LET R == [P EXCEPT ![n] = q] IN Sets(R, P, n, q) /\ R \in Seq(Records) /\ Len(R) = Len(P)
  <1> DEFINE R == [P EXCEPT ![n] = q]
  <1>1. n \in 1..Len(P)
    BY LenProperties
  <1>2. R \in Seq(Records) /\ Len(R) = Len(P)
    BY <1>1, ExceptSeq
  <1>3. DOMAIN R = DOMAIN P /\ R[n] = q /\ \A m \in DOMAIN P : m # n => R[m] = P[m]
    OBVIOUS
  <1> QED
    BY <1>2, <1>3 DEF Sets

\* It ends there.
LEMMA EndLives ==
  ASSUME Tabled, NEW P \in Seq(Records), Simulated(P, queue, sending, now, applied), ~SnapshotDue(now, applied),
         NEW n \in DOMAIN P, P[n].status = "loose", P[n].hops # <<>>, SettledBut(P, n),
         NEW R \in Seq(Records), Len(R) = Len(P), NEW q \in Records, Sets(R, P, n, q), q.hops = P[n].hops, q.udp = P[n].udp, q.aim = P[n].aim,
         \/ /\ AtLast(P[n]).node = P[n].aim /\ q.rx = now
            /\ q.status = IF now < End THEN "received" ELSE "received_after_window"
         \/ /\ AtLast(P[n]).node # P[n].aim /\ q.rx = None /\ NextNode(Current, AtLast(P[n]).node, P[n].aim) = None
            /\ q.status = IF now >= End THEN "end_of_window_drop" ELSE "route_drop"
  PROVE  Simulated(R, queue, sending, now, applied) /\ Settled(R)
  <1>1. Clocked(P, now, applied) /\ Tracked(n, P[n], now)
    BY DEF Simulated, Packets
  <1>2. now \in Nat /\ n \in 1..Len(OfferTimes) /\ P[n] \in Records
    BY <1>1, PacketsAre
  <1>3. RowAt(now) = Current
    BY <1>1, RowNow DEF Current
  <1>4. Tracked(n, q, now)
    BY <1>1, <1>2, <1>3, PacketEnds, ZenonT(60)
  <1>5. AtLast(P[n]).time = now
    BY <1>1 DEF Tracked
  <1>6. \/ q.status \in {"received", "received_after_window", "route_drop"}
        \/ q.status = "end_of_window_drop" /\ AtLast(P[n]).time \notin 0..(End - 1)
    <2>1. ASSUME now >= End PROVE now \notin 0..(End - 1)
      <3>1. End \in Nat
        BY RowTimes
      <3> QED
        BY <1>2, <2>1, <3>1
    <2> QED
      BY <1>5, <2>1
  <1>7. \A link \in Links : Alike(P[n], q, link)
    BY <1>6, AlikeEnded
  <1>8. Simulated(R, queue, sending, now, applied)
    BY <1>4, <1>7, SimAlike, ZenonT(60)
  <1>9. q.status # "loose"
    BY <1>6
  <1> QED
    BY <1>8, <1>9, SettledIs

\* A packet that has landed, while its fate is open.
LEMMA LandLives ==
  ASSUME Tabled, Living, NEW n \in DOMAIN packets, Arrive(n), NEW last, last = LastHop(n),
         NEW hop, NEW q, HopOver(hop, last, now, Corrupted(last)), LandedOn(q, packets[n], hop, Corrupted(last)),
         NEW P \in Seq(Records), Len(P) = Len(packets), Sets(P, packets, n, q)
  PROVE  /\ Simulated(P, queue, sending, now, applied) /\ ~SnapshotDue(now, applied)
         /\ Corrupted(last) => Settled(P)
         /\ ~Corrupted(last) => /\ P[n].status = "loose" /\ SettledBut(P, n) /\ P[n].hops # <<>>
                                /\ AtLast(P[n]).node = last.to
  <1> DEFINE p == packets[n]
             lost == Corrupted(last)
  <1>1. Simulated(packets, queue, sending, now, applied) /\ Settled(packets) /\ Clocked(packets, now, applied)
        /\ ~SnapshotDue(now, applied) /\ Tracked(n, p, now)
    BY DEF Living, Lives, Simulated, Packets, Arrive, Dynamic, UpdateDue, SnapshotDue
  <1>2. now \in Nat /\ p \in Records /\ Traced(p, now)
    BY <1>1, PacketsAre DEF Tracked
  <1>3. Flies(p) /\ last = p.hops[Len(p.hops)] /\ now = last.tx + last.serialization + last.delay
    BY DEF Arrive, ArrivalDue, LastHop, Flies
  <1>4. lost \in BOOLEAN /\ (lost <=> Fell(last, now))
    BY DEF Corrupted, Overlaps, Fell
  <1>5. p.status = "unresolved" /\ Len(p.hops) \in 1..Len(p.hops) /\ Len(p.hops) > 0
    <2>1. p.status = "unresolved" /\ Len(p.hops) \in 1..Len(p.hops)
      BY <1>2, <1>3, TracedIs
    <2>2. Len(p.hops) \in Nat
      BY <1>2, PlaceIs
    <2> QED
      BY <2>1, <2>2
  <1>a. HopOver(hop, last, now, lost) /\ LandedOn(q, p, hop, lost) /\ Sets(P, packets, n, q)
    OBVIOUS
  <1> HIDE DEF p, lost
  <1>6. Tracked(n, q, now)
    BY <1>1, <1>2, <1>3, <1>4, <1>a, PacketLands, ZenonT(60)
  <1>7. \A link \in Links : Alike(p, q, link)
    <2> TAKE link \in Links
    <2>1. HopOver(hop, p.hops[Len(p.hops)], now, lost)
      BY <1>3, <1>a
    <2> QED
      BY <1>2, <1>3, <1>4, <1>5, <1>a, <2>1, AlikeLanded, ZenonT(60)
  <1>8. Simulated(P, queue, sending, now, applied)
    <2>1. \A link \in Links : Alike(packets[n], q, link)
      BY <1>7 DEF p
    <2> QED
      BY <1>1, <1>6, <1>a, <2>1, SimAlike, ZenonT(60)
  <1>9. q.status = IF lost THEN "rx_outage_drop" ELSE "loose"
    BY <1>a DEF LandedOn
  <1>10. SettledBut(packets, n)
    BY <1>1 DEF Settled, SettledBut
  <1>11. lost => Settled(P)
    BY <1>9, <1>10, <1>a, SettledIs
  <1>12. P[n] = q /\ SettledBut(P, n)
    BY <1>10, <1>a DEF Sets, SettledBut
  <1>13. q.hops # <<>> /\ AtLast(q).node = last.to
    <2>1. hop \in Hops /\ hop.to = last.to
      BY <1>a DEF HopOver
    <2>2. AtLast(q) = [node |-> hop.to, time |-> hop.rx] /\ q.hops # <<>>
      <3>1. Relaid(q, p, hop)
        BY <1>2, <1>5, <1>a, <2>1, LandedOnIs, ZenonT(60)
      <3> QED
        BY <2>1, <3>1 DEF Relaid
    <2> QED
      BY <2>1, <2>2
  <1> QED
    BY <1>1, <1>8, <1>9, <1>11, <1>12, <1>13 DEF lost

\* A packet's status and time at the target are set.
Ended(R, records, n, status, rx) ==
  \E w \in Records :
    /\ w.hops = records[n].hops /\ w.udp = records[n].udp /\ w.aim = records[n].aim /\ w.status = status /\ w.rx = rx
    /\ Sets(R, records, n, w) /\ R \in Seq(Records) /\ Len(R) = Len(records)

LEMMA EndedIs ==
  ASSUME NEW records \in Seq(Records), NEW n \in DOMAIN records, NEW status \in Statuses, NEW rx \in Int
  PROVE  Ended([records EXCEPT ![n].status = status, ![n].rx = rx], records, n, status, rx)
  <1> DEFINE half == [records[n] EXCEPT !.status = status]
             w == [half EXCEPT !.rx = rx]
  <1>1. n \in 1..Len(records) /\ records[n] \in Records
    BY LenProperties, ElementOfSeq
  <1>2. half \in Records /\ half.hops = records[n].hops /\ half.udp = records[n].udp /\ half.aim = records[n].aim /\ half.status = status
    BY <1>1 DEF Records
  <1> DEFINE R == [records EXCEPT ![n].status = status, ![n].rx = rx]
             first == [records EXCEPT ![n] = half]
             second == [first EXCEPT ![n] = w]
  <1>3. R = second
    <2>1. [records EXCEPT ![n].status = status] = first
      OBVIOUS
    <2>2. R = [first EXCEPT ![n].rx = rx]
      BY <2>1
    <2> HIDE DEF R
    <2>3. first[n] = half
      OBVIOUS
    <2> HIDE DEF first, half
    <2> QED
      BY <2>2, <2>3
  <1> HIDE DEF half
  <1>4. w \in Records /\ w.hops = half.hops /\ w.udp = half.udp /\ w.aim = half.aim /\ w.status = half.status /\ w.rx = rx
    BY <1>2 DEF Records
  <1> HIDE DEF w
  <1>5. Sets(first, records, n, half) /\ first \in Seq(Records) /\ Len(first) = Len(records)
    BY <1>2, SetsTo
  <1> HIDE DEF first
  <1>6. n \in DOMAIN first
    BY <1>5 DEF Sets
  <1>7. Sets(second, first, n, w) /\ second \in Seq(Records) /\ Len(second) = Len(first)
    BY <1>4, <1>5, <1>6, SetsTo
  <1> HIDE DEF second
  <1>8. Sets(R, records, n, w)
    <2> HIDE DEF R
    <2> QED
      BY <1>3, <1>5, <1>7 DEF Sets
  <1>9. Ended(R, records, n, status, rx)
    <2> HIDE DEF R
    <2> QED
      BY <1>2, <1>3, <1>4, <1>5, <1>7, <1>8 DEF Ended
  <1> QED
    BY <1>9

LEMMA ArriveLives ==
  ASSUME Tabled, Living, NEW n \in DOMAIN packets, Arrive(n)
  PROVE  Lives(packets', queue', sending', now', applied', offered') /\ Proceed
  <1> DEFINE p == packets[n]
             last == p.hops[Len(p.hops)]
             lost == Corrupted(last)
             hop == [last EXCEPT !.rx = now, !.status = IF lost THEN "rx_outage_drop" ELSE "received"]
             r == [p EXCEPT !.hops = [p.hops EXCEPT ![Len(p.hops)] = hop]]
             q == [r EXCEPT !.status = IF lost THEN "rx_outage_drop" ELSE "loose"]
             done == [packets EXCEPT ![n] = r]
             P == [packets EXCEPT ![n] = q]
             aim == p.aim
             onward == NextNode(Current, last.to, aim)
             ended(status, rx) == /\ packets' = [done EXCEPT ![n].status = status, ![n].rx = rx]
                                  /\ Proceed /\ UNCHANGED <<queue, sending>>
  <1>1. /\ Simulated(packets, queue, sending, now, applied) /\ Clocked(packets, now, applied)
        /\ packets \in Seq(Records) /\ offered = Len(packets) /\ Tracked(n, p, now)
    BY DEF Living, Lives, Simulated, Clocked, Packets
  <1>2. now \in Nat /\ p \in Records /\ Traced(p, now)
    BY <1>1, PacketsAre DEF Tracked
  <1>3. Flies(p) /\ last = LastHop(n)
    BY DEF Arrive, ArrivalDue, LastHop, Flies
  <1>4. lost \in BOOLEAN
    BY DEF Corrupted, Overlaps
  <1>5. p.status = "unresolved" /\ Len(p.hops) \in 1..Len(p.hops) /\ p.rx = None
    <2>1. p.status = "unresolved" /\ Len(p.hops) \in 1..Len(p.hops)
      BY <1>2, <1>3, TracedIs
    <2>2. p.rx = None
      BY <1>1, <2>1 DEF Tracked, IsPacket, Delivered
    <2> QED
      BY <2>1, <2>2
  <1>6. LandsAs(hop, r, q, p, now, lost)
    <2> HIDE DEF lost, p
    <2> QED
      BY <1>2, <1>4, <1>5, LandedIs, ZenonT(60)
  <1>a. done = [packets EXCEPT ![n].hops[Len(packets[n].hops)] =
                  [@ EXCEPT !.rx = now, !.status = IF lost THEN "rx_outage_drop" ELSE "received"]]
    <2> HIDE DEF lost
    <2> QED
      OBVIOUS
  <1>7. /\ IF lost THEN ended("rx_outage_drop", None)
           ELSE IF last.to = aim THEN ended(IF now < End THEN "received" ELSE "received_after_window", now)
           ELSE IF onward = None THEN ended(IF now >= End THEN "end_of_window_drop" ELSE "route_drop", None)
           ELSE Send(n, <<last.to, onward>>, done)
        /\ now' = now /\ applied' = applied /\ offered' = offered
    <2> HIDE DEF done
    <2> QED
      BY <1>a DEF Arrive, LastHop
  <1> HIDE DEF hop, r, q
  <1>8. r \in Records /\ q \in Records /\ HopOver(hop, last, now, lost) /\ LandedOn(q, p, hop, lost)
        /\ r.status = "unresolved" /\ r.hops = q.hops /\ r.udp = q.udp /\ r.aim = q.aim /\ r.rx = q.rx /\ r.rx = None
    BY <1>5, <1>6 DEF LandsAs, LandedOn
  <1>9. /\ Sets(done, packets, n, r) /\ done \in Seq(Records) /\ Len(done) = Len(packets)
        /\ Sets(P, packets, n, q) /\ P \in Seq(Records) /\ Len(P) = Len(packets)
    BY <1>1, <1>8, SetsTo
  <1> HIDE DEF done, P
  <1>10. /\ Simulated(P, queue, sending, now, applied) /\ ~SnapshotDue(now, applied)
         /\ ~lost => /\ P[n].status = "loose" /\ SettledBut(P, n) /\ P[n].hops # <<>>
                     /\ AtLast(P[n]).node = last.to
    BY <1>3, <1>8, <1>9, LandLives, ZenonT(60)
  <1>11. /\ n \in DOMAIN done /\ done[n] = r /\ n \in DOMAIN P /\ P[n] = q
         /\ \A R, w : Sets(R, done, n, w) => Sets(R, P, n, w) /\ Sets(R, packets, n, w)
    BY <1>9 DEF Sets
  <1>d. P[n].aim = aim
    BY <1>8, <1>11 DEF LandedOn
  <1>12. ASSUME NEW status \in Statuses, NEW rx \in Int, ended(status, rx)
         PROVE  /\ Proceed /\ queue' = queue /\ sending' = sending
                /\ \E w \in Records : /\ w.hops = q.hops /\ w.udp = q.udp /\ w.aim = q.aim /\ w.status = status /\ w.rx = rx
                                      /\ Sets(packets', P, n, w) /\ Sets(packets', packets, n, w)
                                      /\ packets' \in Seq(Records) /\ Len(packets') = Len(packets)
    <2>1. packets' = [done EXCEPT ![n].status = status, ![n].rx = rx] /\ Proceed /\ queue' = queue /\ sending' = sending
      BY <1>12
    <2>a. Ended([done EXCEPT ![n].status = status, ![n].rx = rx], done, n, status, rx)
      BY <1>9, <1>11, EndedIs, ZenonT(30)
    <2>b. Ended(packets', done, n, status, rx)
      BY <2>1, <2>a
    <2>2. PICK w \in Records : /\ w.hops = r.hops /\ w.udp = r.udp /\ w.aim = r.aim /\ w.status = status /\ w.rx = rx
                               /\ Sets(packets', done, n, w) /\ packets' \in Seq(Records) /\ Len(packets') = Len(done)
      BY <1>9, <1>11, <2>b DEF Ended
    <2>3. Sets(packets', P, n, w) /\ Sets(packets', packets, n, w)
      BY <1>11, <2>2
    <2> QED
      BY <1>8, <1>9, <2>1, <2>2, <2>3
  <1>13. ASSUME Simulated(packets', queue', sending', now, applied), Settled(packets'), Len(packets') = Len(packets), Proceed
         PROVE  Lives(packets', queue', sending', now', applied', offered') /\ Proceed
    BY <1>1, <1>7, <1>13 DEF Lives
  <1>a1. "rx_outage_drop" \in Statuses /\ None \in Int /\ now \in Int
    BY <1>2 DEF Statuses, None
  <1>14. CASE lost
    <2>1. ended("rx_outage_drop", None)
      BY <1>7, <1>14
    <2>2. PICK w \in Records : /\ w.hops = q.hops /\ w.udp = q.udp /\ w.aim = q.aim /\ w.status = "rx_outage_drop" /\ w.rx = None
                               /\ Sets(packets', P, n, w) /\ Sets(packets', packets, n, w)
                               /\ packets' \in Seq(Records) /\ Len(packets') = Len(packets)
      BY <1>12, <1>a1, <2>1
    <2>3. Proceed /\ queue' = queue /\ sending' = sending
      BY <1>12, <1>a1, <2>1
    <2>4. LandedOn(w, p, hop, lost)
      BY <1>5, <1>8, <1>14, <2>2 DEF LandedOn
    <2>5. Simulated(packets', queue, sending, now, applied) /\ Settled(packets')
      BY <1>3, <1>8, <1>14, <2>2, <2>4, LandLives, ZenonT(60)
    <2> QED
      BY <1>13, <2>2, <2>3, <2>5
  <1>b1. q.hops = P[n].hops /\ q.udp = P[n].udp /\ q.aim = P[n].aim /\ n \in DOMAIN P
    BY <1>11
  <1>15. CASE ~lost /\ last.to = aim
    <2> DEFINE status == IF now < End THEN "received" ELSE "received_after_window"
    <2>1. ended(status, now) /\ status \in Statuses
      BY <1>7, <1>15 DEF Statuses, Delivered
    <2>a. status = IF now < End THEN "received" ELSE "received_after_window"
      OBVIOUS
    <2> HIDE DEF status
    <2>2. PICK w \in Records : /\ w.hops = q.hops /\ w.udp = q.udp /\ w.aim = q.aim /\ w.status = status /\ w.rx = now
                               /\ Sets(packets', P, n, w) /\ Sets(packets', packets, n, w)
                               /\ packets' \in Seq(Records) /\ Len(packets') = Len(packets)
      BY <1>12, <1>a1, <2>1
    <2>3. Proceed /\ queue' = queue /\ sending' = sending
      BY <1>12, <1>a1, <2>1
    <2>4. /\ AtLast(P[n]).node = P[n].aim /\ w.rx = now
          /\ w.status = IF now < End THEN "received" ELSE "received_after_window"
      BY <1>10, <1>15, <1>d, <2>2, <2>a
    <2>5. w.hops = P[n].hops /\ w.udp = P[n].udp /\ w.aim = P[n].aim /\ Len(packets') = Len(P)
      BY <1>9, <1>b1, <2>2
    <2>6. Simulated(packets', queue, sending, now, applied) /\ Settled(packets')
      BY <1>9, <1>10, <1>15, <1>b1, <2>2, <2>4, <2>5, EndLives, ZenonT(90)
    <2> QED
      BY <1>13, <2>2, <2>3, <2>6
  <1>16. CASE ~lost /\ last.to # aim /\ onward = None
    <2> DEFINE status == IF now >= End THEN "end_of_window_drop" ELSE "route_drop"
    <2>1. ended(status, None) /\ status \in Statuses
      BY <1>7, <1>16 DEF Statuses, InQueue
    <2>a. status = IF now >= End THEN "end_of_window_drop" ELSE "route_drop"
      OBVIOUS
    <2> HIDE DEF status
    <2>2. PICK w \in Records : /\ w.hops = q.hops /\ w.udp = q.udp /\ w.aim = q.aim /\ w.status = status /\ w.rx = None
                               /\ Sets(packets', P, n, w) /\ Sets(packets', packets, n, w)
                               /\ packets' \in Seq(Records) /\ Len(packets') = Len(packets)
      BY <1>12, <1>a1, <2>1
    <2>3. Proceed /\ queue' = queue /\ sending' = sending
      BY <1>12, <1>a1, <2>1
    <2>4. /\ AtLast(P[n]).node # P[n].aim /\ w.rx = None /\ NextNode(Current, AtLast(P[n]).node, P[n].aim) = None
          /\ w.status = IF now >= End THEN "end_of_window_drop" ELSE "route_drop"
      BY <1>10, <1>16, <1>d, <2>2, <2>a
    <2>5. w.hops = P[n].hops /\ w.udp = P[n].udp /\ w.aim = P[n].aim /\ Len(packets') = Len(P)
      BY <1>9, <1>b1, <2>2
    <2>6. Simulated(packets', queue, sending, now, applied) /\ Settled(packets')
      BY <1>9, <1>10, <1>16, <1>b1, <2>2, <2>4, <2>5, EndLives, ZenonT(90)
    <2> QED
      BY <1>13, <2>2, <2>3, <2>6
  <1>17. CASE ~lost /\ last.to # aim /\ onward # None
    <2> DEFINE link == <<last.to, onward>>
    <2>1. Send(n, link, done)
      BY <1>7, <1>17
    <2>2. Loosened(P, done, n)
      BY <1>8, <1>9, <1>11 DEF Loosened, Sets
    <2>3. P[n].status = "loose" /\ SettledBut(P, n) /\ AtLast(P[n]).node = last.to /\ NextNode(Current, last.to, P[n].aim) # None
      BY <1>10, <1>17, <1>d
    <2>4. link \in Links /\ Onward(P[n]) = link /\ now < End /\ Current.edges[Across(link)].available
      BY <1>10, <1>b1, <1>d, <2>3, LooseGoes, ZenonT(60)
    <2> HIDE DEF link
    <2>5. Simulated(packets', queue', sending', now, applied) /\ Settled(packets') /\ Len(packets') = Len(P) /\ Proceed
      BY <1>10, <2>1, <2>2, <2>3, <2>4, SendsOn, ZenonT(60)
    <2> QED
      BY <1>9, <1>13, <2>5
  <1> QED
    BY <1>14, <1>15, <1>16, <1>17

\* The simulation stops after whatever is sent last arrives.
LEMMA StopIs ==
  ASSUME Tabled
  PROVE  /\ StopTime \in Nat /\ End < StopTime
         /\ \A n \in 1..(Len(rows) - 1) : \A e \in DOMAIN rows[1].edges : rows[n].edges[e].available =>
              End + Serialization[rows[n].edges[e].rate] + replay.rounding + rows[n].edges[e].delay < StopTime
  <1> DEFINE edges == DOMAIN rows[1].edges
             last == Len(rows) - 1
             K == (1..last) \X edges
             cost(n, e) == Serialization[rows[n].edges[e].rate] + replay.rounding + rows[n].edges[e].delay
             g == [v \in K |-> IF rows[v[1]].edges[v[2]].available THEN cost(v[1], v[2]) ELSE 0]
             of(row) == {Serialization[row.edges[e].rate] + replay.rounding + row.edges[e].delay
                           : e \in {d \in DOMAIN row.edges : row.edges[d].available}}
             U == UNION {of(row) : row \in {rows[n] : n \in 1..last}}
             S == {0} \union U
  <1>1. Len(rows) \in Nat /\ last \in Nat /\ End \in Nat /\ IsFiniteSet(edges)
    <2>1. IsFiniteSet(edges)
      BY Zenon DEF Tabled, IsTable
    <2>2. Len(rows) \in Nat /\ Len(rows) >= 2 /\ End \in Nat
      BY RowTimes
    <2> QED
      BY <2>1, <2>2
  <1>2. ASSUME NEW n \in 1..last
        PROVE  /\ DOMAIN rows[n].edges = edges
               /\ \A e \in edges : rows[n].edges[e].available => cost(n, e) \in Nat
    <2>1. n \in 1..Len(rows)
      BY <1>1
    <2>2. IsRow(rows[n], edges)
      BY <2>1, RowIs
    <2> QED
      BY <2>2 DEF IsRow
  <1>3. \A x : x \in U <=> \E n \in 1..last : \E e \in edges : rows[n].edges[e].available /\ x = cost(n, e)
    <2> TAKE x
    <2>1. x \in U <=> \E n \in 1..last : x \in of(rows[n])
      <3> HIDE DEF of
      <3> QED
        OBVIOUS
    <2>2. \A n \in 1..last : x \in of(rows[n]) <=> \E e \in edges : rows[n].edges[e].available /\ x = cost(n, e)
      BY <1>2
    <2> HIDE DEF of, U, cost
    <2> QED
      BY <2>1, <2>2
  <1>4. IsFiniteSet(K)
    <2>1. IsFiniteSet(1..last)
      <3>1. last \in Int /\ 1 \in Int
        BY <1>1
      <3> HIDE DEF last
      <3> QED
        BY <3>1, FS_Interval
    <2> HIDE DEF last, edges
    <2> QED
      BY <1>1, <2>1, FS_Product
  <1>5. /\ \A x \in S : x \in {g[v] : v \in K} \/ x = 0
        /\ \A v \in K : g[v] \in Nat
    <2>1. ASSUME NEW x \in U PROVE x \in {g[v] : v \in K}
      <3>1. PICK n \in 1..last, e \in edges : rows[n].edges[e].available /\ x = cost(n, e)
        BY <1>3
      <3>2. <<n, e>> \in K /\ g[<<n, e>>] = x
        <4> HIDE DEF edges, last, cost
        <4> QED
          BY <3>1
      <3> HIDE DEF K, g
      <3> QED
        BY <3>2
    <2>2. ASSUME NEW v \in K PROVE g[v] \in Nat
      <3>1. v[1] \in 1..last /\ v[2] \in edges
        OBVIOUS
      <3> HIDE DEF cost, edges, last
      <3> QED
        BY <1>2, <3>1
    <2> HIDE DEF U, g, K
    <2> QED
      BY <2>1, <2>2
  <1> HIDE DEF K, g
  <1>6. PICK b \in Nat : \A v \in K : g[v] <= b
    <2>1. IsFiniteSet({g[v] : v \in K})
      BY <1>4, ImageFinite
    <2>2. \A x \in {g[v] : v \in K} : x \in Nat
      BY <1>5
    <2>3. \E b \in Nat : \A x \in {g[v] : v \in K} : x <= b
      BY <2>1, <2>2, BoundedIs
    <2> QED
      BY <2>3
  <1> HIDE DEF U
  <1>7. Max(S) \in S /\ \A y \in S : y <= Max(S)
    <2>1. (\A x \in S : x \in Int /\ x <= b) /\ S # {} /\ b \in Int
      <3>1. \A x \in S : x = 0 \/ \E v \in K : x = g[v]
        <4> HIDE DEF S
        <4> QED
          BY <1>5
      <3> HIDE DEF S
      <3>2. 0 \in S
        BY DEF S
      <3> QED
        BY <1>5, <1>6, <3>1, <3>2
    <2> HIDE DEF S
    <2> QED
      BY <2>1, MaxIs
  <1>8. Max(S) \in Nat
    <2>1. \A x \in S : x \in Nat
      <3> HIDE DEF S
      <3> QED
        BY <1>5
    <2> HIDE DEF S
    <2> QED
      BY <1>7, <2>1
  <1>9. StopTime = End + 1 + Max(S)
    BY Zenon DEF StopTime, S, U
  <1>10. ASSUME NEW n \in 1..last, NEW e \in edges, rows[n].edges[e].available PROVE cost(n, e) \in Nat /\ cost(n, e) <= Max(S)
    <2>1. cost(n, e) \in S
      <3>1. cost(n, e) \in U
        <4> HIDE DEF cost
        <4> QED
          BY <1>3, <1>10
      <3> QED
        BY <3>1
    <2>2. cost(n, e) <= Max(S)
      <3> HIDE DEF S, cost
      <3> QED
        BY <1>7, <2>1
    <2> QED
      BY <1>2, <1>10, <2>2
  <1>11. StopTime \in Nat /\ End < StopTime
    <2> HIDE DEF S
    <2> QED
      BY <1>1, <1>8, <1>9
  <1>12. ASSUME NEW n \in 1..last, NEW e \in edges, rows[n].edges[e].available
         PROVE  End + Serialization[rows[n].edges[e].rate] + replay.rounding + rows[n].edges[e].delay < StopTime
    <2>1. cost(n, e) \in Nat /\ cost(n, e) <= Max(S)
      BY <1>10, <1>12
    <2>2. /\ Serialization[rows[n].edges[e].rate] \in Nat /\ rows[n].edges[e].delay \in Nat /\ replay.rounding \in Int
      <3>1. n \in 1..Len(rows)
        BY <1>1
      <3>2. IsRow(rows[n], edges)
        BY <3>1, RowIs
      <3>3. replay.rounding \in Int
        BY NetworkReplayAssumption DEF NetworkReplayAssumption, Tabled, Chosen
      <3> QED
        BY <1>12, <3>2, <3>3 DEF IsRow
    <2> DEFINE a == Serialization[rows[n].edges[e].rate]
               d == rows[n].edges[e].delay
               m == Max(S)
    <2>3. a + replay.rounding + d <= m /\ a \in Nat /\ d \in Nat /\ m \in Nat /\ StopTime = End + 1 + m
      BY <1>8, <1>9, <2>1, <2>2
    <2> HIDE DEF a, d, m
    <2>4. End + a + replay.rounding + d < StopTime
      BY <1>1, <2>2, <2>3, SMTT(30)
    <2> QED
      BY <2>4 DEF a, d
  <1> QED
    BY <1>11, <1>12

\* At the stop nothing is under way and nothing waits.
LEMMA StopEnds ==
  ASSUME Tabled, NEW P, NEW Q, NEW S, NEW t, NEW k, NEW c, Lives(P, Q, S, t, k, c), t = StopTime,
         ~SnapshotDue(t, k), ~OfferComes(P, t)
  PROVE  /\ t \in Nat /\ End < t /\ Len(P) = Len(OfferTimes)
         /\ \A n \in DOMAIN P : ~Flies(P[n]) /\ P[n].status \notin {"unresolved", "loose"}
  <1>1. Simulated(P, Q, S, t, k) /\ Settled(P) /\ Clocked(P, t, k) /\ Packets(P, t)
    BY DEF Lives, Simulated
  <1>2. t \in Nat /\ End < t /\ End \in Nat
    BY StopIs, RowTimes
  <1>3. k \in 1..Len(rows) /\ ~(k < Len(rows))
    BY <1>1, <1>2, RowNow
  <1>4. Len(P) = Len(OfferTimes)
    <2> SUFFICES ASSUME Len(P) # Len(OfferTimes) PROVE FALSE
      OBVIOUS
    <2>1. /\ Len(P) \in Nat /\ Len(OfferTimes) \in Nat /\ Len(P) <= Len(OfferTimes)
          /\ Len(P) < Len(OfferTimes) => t <= OfferTimes[Len(P) + 1]
      BY <1>1, PacketsAre, OfferTimesAre DEF Clocked, Tabled
    <2>2. Len(P) + 1 \in 1..Len(OfferTimes) /\ t <= OfferTimes[Len(P) + 1]
      BY <2>1
    <2>3. OfferTimes[Len(P) + 1] \in Nat /\ OfferTimes[Len(P) + 1] < End
      BY <2>2, OfferTimesAre DEF Tabled
    <2> QED
      BY <1>2, <2>2, <2>3
  <1>5. ASSUME NEW n \in DOMAIN P PROVE ~Flies(P[n])
    <2> DEFINE p == P[n]
               last == Len(p.hops)
               hop == p.hops[last]
               e == Edge(hop.from, hop.to)
    <2> SUFFICES ASSUME Flies(p) PROVE FALSE
      OBVIOUS
    <2>1. p \in Records /\ Traced(p, t)
      BY <1>1 DEF Packets, Tracked
    <2>2. Way(hop, t) /\ last \in 1..Len(p.hops) /\ hop \in Hops
      BY <1>2, <2>1, TracedIs, PlaceIs
    <2>3. Follows(hop, Before(p, last), p.aim, t)
      BY <2>1, <2>2 DEF Traced
    <2> HIDE DEF hop
    <2>4. /\ hop.tx \in Nat /\ hop.rate \in Nat /\ hop.delay \in Nat /\ hop.serialization \in Nat
          /\ hop.tx < End /\ t <= hop.tx + hop.serialization + hop.delay
          /\ <<hop.from, hop.to>> \in Links
          /\ RowAt(hop.tx).edges[e].available
          /\ hop.rate = RowAt(hop.tx).edges[e].rate /\ hop.delay = RowAt(hop.tx).edges[e].delay
          /\ hop.serialization = Serialization[hop.rate] + replay.rounding
      BY <2>2, <2>3, ZenonT(30) DEF Way, Follows, Hops
    <2>5. PICK j \in 1..Len(rows) : RowAt(hop.tx) = rows[j]
      BY <2>4, RowAtSome
    <2>6. e \in DOMAIN rows[1].edges
      BY <2>4, LinkIs DEF Across
    <2>7. IsRow(rows[j], DOMAIN rows[1].edges) /\ (rows[j].state = "stop" <=> j = Len(rows)) /\ Len(rows) \in Nat
      BY RowIs, RowTimes, Zenon
    <2>8. j \in 1..(Len(rows) - 1) /\ rows[j].edges[e].available /\ Serialization[rows[j].edges[e].rate] \in Nat
      <3>1. rows[j].state # "stop" /\ Serialization[rows[j].edges[e].rate] \in Nat
        BY <2>4, <2>5, <2>6, <2>7, Zenon DEF IsRow
      <3> QED
        BY <2>4, <2>5, <2>7, <3>1
    <2>9. End + Serialization[rows[j].edges[e].rate] + replay.rounding + rows[j].edges[e].delay < StopTime
      BY <2>6, <2>8, StopIs
    <2>10. replay.rounding \in Int
      BY NetworkReplayAssumption DEF NetworkReplayAssumption, Tabled, Chosen
    <2>11. End + Serialization[hop.rate] + replay.rounding + hop.delay < t /\ Serialization[hop.rate] \in Nat
      BY <2>4, <2>5, <2>8, <2>9, ZenonT(30)
    <2> DEFINE a == Serialization[hop.rate]
    <2>12. /\ hop.tx \in Nat /\ hop.delay \in Nat /\ hop.tx < End /\ a \in Nat
           /\ t <= hop.tx + (a + replay.rounding) + hop.delay
           /\ End + a + replay.rounding + hop.delay < t
      BY <2>4, <2>11
    <2> HIDE DEF a
    <2> QED
      BY <1>2, <2>10, <2>12, SMTT(30)
  <1>6. ASSUME NEW n \in DOMAIN P PROVE P[n].status \notin {"unresolved", "loose"}
    <2>1. P[n].status # "loose"
      BY <1>1 DEF Settled
    <2>2. P[n].status # "unresolved"
      BY <1>1, <1>3, <1>5, QueuedIs
    <2> QED
      BY <2>1, <2>2
  <1> QED
    BY <1>2, <1>4, <1>5, <1>6

\* A hop that has ended is one the parser accepts.
LEMMA HopAccepted ==
  ASSUME Tabled, NEW p \in Records, NEW t \in Nat, Traced(p, t), ~Flies(p), NEW i \in DOMAIN p.hops
  PROVE  IsHop(p, i) /\ p.hops[i].rx # None
  <1> DEFINE hop == p.hops[i]
             before == Before(p, i)
             e == Edge(hop.from, hop.to)
             state == RowAt(hop.tx).edges[e]
             seen == hop.rx - hop.tx - state.delay
  <1>1. i \in 1..Len(p.hops) /\ hop \in Hops /\ before.time \in Int
    BY PlaceIs
  <1>2. Over(hop, t) /\ hop.rx # None /\ hop.rx \in Nat
    BY <1>1, TracedIs
  <1>3. Follows(hop, before, p.aim, t) /\ (i > 1 => p.hops[i - 1].status = "received")
    BY <1>1 DEF Traced
  <1> HIDE DEF hop, before
  <1>4. hop.tx \in Nat /\ hop.delay \in Nat /\ hop.serialization \in Nat /\ hop.rate \in Nat
    BY <1>1 DEF Hops
  <1>5. /\ before.time # None /\ before.time <= hop.tx /\ hop.tx < End
        /\ hop.from = before.node /\ hop.from # p.aim
        /\ NextNode(RowAt(before.time), hop.from, p.aim) = hop.to
        /\ ~Overlaps(e, before.time, hop.tx)
        /\ state.available /\ hop.rate = state.rate /\ hop.delay = state.delay
        /\ hop.serialization = Serialization[hop.rate] + replay.rounding /\ hop.serialization >= 1
        /\ <<hop.from, hop.to>> \in Links
    BY <1>3 DEF Follows
  <1>6. hop.rx = hop.tx + hop.serialization + hop.delay /\ hop.status = IF Fell(hop, hop.rx) THEN "rx_outage_drop" ELSE "received"
    BY <1>2 DEF Over
  <1>7. seen = hop.serialization /\ hop.rx - seen = hop.tx + hop.delay
    BY <1>2, <1>4, <1>5, <1>6, SMTT(60)
  <1>8. Serialization[state.rate] \in Int /\ replay.rounding \in -1..1
    <2>1. PICK j \in 1..Len(rows) : RowAt(hop.tx) = rows[j]
      BY <1>4, RowAtSome
    <2>2. e \in DOMAIN rows[1].edges
      BY <1>5, LinkIs DEF Across
    <2>3. IsRow(rows[j], DOMAIN rows[1].edges)
      BY RowIs
    <2>4. Serialization[state.rate] \in Nat
      BY <1>5, <2>1, <2>2, <2>3, Zenon DEF IsRow
    <2>5. replay.rounding \in -1..1
      BY NetworkReplayAssumption DEF NetworkReplayAssumption, Tabled, Chosen
    <2> QED
      BY <2>4, <2>5
  <1>9. seen - Serialization[state.rate] \in -1..1
    <2>1. seen = Serialization[state.rate] + replay.rounding
      BY <1>5, <1>7
    <2> HIDE DEF seen
    <2> QED
      BY <1>8, <2>1
  <1>10. hop.status = IF Overlaps(e, hop.tx, hop.tx + seen) \/ Overlaps(e, hop.rx - seen, hop.rx)
                      THEN "rx_outage_drop" ELSE "received"
    BY <1>6, <1>7 DEF Fell
  <1>11. seen >= 1
    BY <1>5, <1>7
  <1>12. /\ before.time # None /\ before.time <= hop.tx /\ hop.tx < End
         /\ hop.from = before.node /\ hop.from # p.aim
         /\ i > 1 => p.hops[i - 1].status = "received"
         /\ NextNode(RowAt(before.time), hop.from, p.aim) = hop.to
         /\ ~Overlaps(e, before.time, hop.tx)
         /\ state.available /\ hop.rate = state.rate /\ hop.delay = state.delay
    BY <1>3, <1>5
  <1>13. IsHop(p, i)
    BY <1>9, <1>10, <1>11, <1>12, ZenonT(60) DEF IsHop, hop, before
  <1> QED
    BY <1>2, <1>13 DEF hop

\* The parser's records of a device's visits.
FileOf(P, link) ==
  [v \in Sent(P, link) \union Rested(P, link) |->
     IF v \in Sent(P, link)
     THEN [packet |-> v[1], admitted |-> Before(P[v[1]], v[2]).time, tx |-> P[v[1]].hops[v[2]].tx,
           end |-> P[v[1]].hops[v[2]].rx - P[v[1]].hops[v[2]].delay, status |-> "transmit"]
     ELSE [packet |-> v[1], admitted |-> AtLast(P[v[1]]).time, tx |-> None,
           end |-> Freed(P[v[1]], link), status |-> P[v[1]].status]]

\* The records of a finished packet: what it waits for, it waited for until it was dropped.
LEMMA LeftIs ==
  ASSUME Tabled, NEW n \in 1..Len(OfferTimes), NEW p, NEW t \in Nat, Tracked(n, p, t), ~Flies(p),
         p.status \notin {"unresolved", "loose"}, NEW link
  PROVE  /\ p.status \in InQueue /\ AtLast(p).time < End /\ link = Onward(p) <=>
              Rests(p, link) \/ (Balked(p, link) /\ AtLast(p).time < End)
         /\ Rests(p, link) =>
              /\ p.status # "queue_drop"
              /\ Freed(p, link) = IF p.status # "outage_queue_drop" THEN End
                                  ELSE Min({o[1] : o \in {q \in Outages(Across(link)) : q[1] > AtLast(p).time}})
         /\ Balked(p, link) => p.status = "queue_drop"
  <1>1. p \in Records /\ Traced(p, t) /\ IsPacket(n, p) /\ OfferTimes[n] <= t
    BY DEF Tracked
  <1>2. ASSUME p.status \in InQueue, AtLast(p).time < End PROVE AtLast(p).time \in 0..(End - 1)
    <2>1. CASE Len(p.hops) = 0
      <3>1. p.status \notin Suppressed
        BY <1>2 DEF InQueue, Suppressed
      <3>2. p.udp = OfferTimes[n]
        BY <1>1, <3>1, Zenon DEF IsPacket
      <3>3. AtLast(p).time = p.udp
        BY <1>1, <2>1, PlaceIs
      <3>4. OfferTimes[n] \in Nat
        BY OfferTimesAre DEF Tabled
      <3> QED
        BY <1>2, <3>2, <3>3, <3>4, RowTimes
    <2>2. CASE Len(p.hops) # 0
      <3>1. Len(p.hops) \in 1..Len(p.hops) /\ AtLast(p).time = p.hops[Len(p.hops)].rx
        BY <1>1, <2>2, PlaceIs
      <3>2. p.hops[Len(p.hops)].rx \in Nat
        BY <1>1, <3>1, TracedIs
      <3> QED
        BY <1>2, <3>1, <3>2, RowTimes, SMTT(30)
    <2> QED
      BY <2>1, <2>2
  <1>3. p.status \in InQueue <=> p.status \in {"outage_queue_drop", "end_of_window_drop"} \/ p.status = "queue_drop"
    BY DEF InQueue
  <1>4. Rests(p, link) <=> /\ p.status \in {"outage_queue_drop", "end_of_window_drop"}
                           /\ AtLast(p).time \in 0..(End - 1) /\ Onward(p) = link
    BY DEF Rests
  <1>5. Balked(p, link) <=> p.status = "queue_drop" /\ Onward(p) = link
    BY DEF Balked
  <1>6. AtLast(p).time \in 0..(End - 1) => AtLast(p).time < End
    BY RowTimes
  <1>7. p.status \in InQueue /\ AtLast(p).time < End /\ link = Onward(p) <=>
          Rests(p, link) \/ (Balked(p, link) /\ AtLast(p).time < End)
    BY <1>2, <1>3, <1>4, <1>5, <1>6
  <1>8. Rests(p, link) =>
          /\ p.status # "queue_drop"
          /\ Freed(p, link) = IF p.status # "outage_queue_drop" THEN End
                              ELSE Min({o[1] : o \in {q \in Outages(Across(link)) : q[1] > AtLast(p).time}})
    BY <1>4 DEF Freed
  <1> QED
    BY <1>5, <1>7, <1>8

\* At the stop the parser's records of a device are those of its history.
LEMMA DeviceRecorded ==
  ASSUME Tabled, Living, now = StopTime, ~SnapshotDue(now, applied), ~OfferComes(packets, now), NEW link \in Links
  PROVE  Recorded(Device(packets, link), now, FileOf(packets, link), Served(link), Left(link))
  <1> DEFINE P == packets
             d == Device(P, link)
             f == FileOf(P, link)
             served == Served(link)
             left == Left(link)
  <1>1. Simulated(P, queue, sending, now, applied) /\ Clocked(P, now, applied) /\ Packets(P, now)
        /\ Lives(P, queue, sending, now, applied, offered)
    BY DEF Living, Lives, Simulated
  <1>2. /\ now \in Nat /\ End < now
        /\ \A n \in DOMAIN P : ~Flies(P[n]) /\ P[n].status \notin {"unresolved", "loose"}
    BY <1>1, StopEnds
  <1>3. \A n \in DOMAIN P : P[n] \in Records /\ n \in 1..Len(OfferTimes) /\ Tracked(n, P[n], now) /\ Traced(P[n], now)
    BY <1>1, PacketsAre DEF Packets, Tracked
  <1>4. IsDevice(d, now)
    BY <1>1 DEF Simulated, Linked
  <1>5. /\ \A v : v \in d.sent <=> v \in (DOMAIN P) \X Nat /\ Goes(P[v[1]], v[2], link)
        /\ \A v : v \in d.rested <=> v \in (DOMAIN P) \X Nat /\ v[2] = Len(P[v[1]].hops) + 1 /\ Rests(P[v[1]], link)
        /\ \A v \in d.sent : v \notin d.rested
        /\ \A v \in d.sent \union d.rested : d.adm[v] = Before(P[v[1]], v[2]).time
        /\ \A v \in d.sent : /\ d.out[v] = P[v[1]].hops[v[2]].tx
                             /\ d.end[v] = P[v[1]].hops[v[2]].tx + P[v[1]].hops[v[2]].serialization
        /\ \A v \in d.rested : d.adm[v] = AtLast(P[v[1]]).time /\ d.out[v] = Freed(P[v[1]], link)
        /\ d.drops = {AtLast(P[n]).time : n \in {m \in DOMAIN P : Balked(P[m], link)}}
    BY <1>3, DeviceIs, ZenonT(60)
  <1>6. d.sent = Sent(P, link) /\ d.rested = Rested(P, link)
    BY Zenon DEF Device
  <1> HIDE DEF d
  <1>7. ASSUME NEW v \in d.sent
        PROVE  /\ v[1] \in DOMAIN P /\ v[2] \in DOMAIN P[v[1]].hops /\ <<P[v[1]].hops[v[2]].from, P[v[1]].hops[v[2]].to>> = link
               /\ f[v] = [packet |-> v[1], admitted |-> Before(P[v[1]], v[2]).time, tx |-> P[v[1]].hops[v[2]].tx,
                          end |-> P[v[1]].hops[v[2]].rx - P[v[1]].hops[v[2]].delay, status |-> "transmit"]
               /\ f[v].admitted = d.adm[v] /\ f[v].tx = d.out[v] /\ f[v].end = d.end[v] /\ d.end[v] <= now
    <2>1. v[1] \in DOMAIN P /\ v[2] \in 1..Len(P[v[1]].hops) /\ <<P[v[1]].hops[v[2]].from, P[v[1]].hops[v[2]].to>> = link
      BY <1>5 DEF Goes
    <2>2. f[v] = [packet |-> v[1], admitted |-> Before(P[v[1]], v[2]).time, tx |-> P[v[1]].hops[v[2]].tx,
                  end |-> P[v[1]].hops[v[2]].rx - P[v[1]].hops[v[2]].delay, status |-> "transmit"]
      BY <1>6, Zenon DEF FileOf
    <2>3. /\ f[v].admitted = Before(P[v[1]], v[2]).time /\ f[v].tx = P[v[1]].hops[v[2]].tx
          /\ f[v].end = P[v[1]].hops[v[2]].rx - P[v[1]].hops[v[2]].delay
      BY <2>2
    <2> DEFINE hop == P[v[1]].hops[v[2]]
    <2>4. Over(hop, now) /\ hop \in Hops /\ v[2] \in DOMAIN P[v[1]].hops
      BY <1>2, <1>3, <2>1, TracedIs, PlaceIs
    <2>5. hop.rx - hop.delay = hop.tx + hop.serialization /\ hop.tx + hop.serialization <= now
      <3> HIDE DEF hop
      <3> QED
        BY <1>2, <2>4 DEF Over, Hops
    <2> HIDE DEF f
    <2> QED
      BY <1>5, <2>1, <2>2, <2>3, <2>4, <2>5, ZenonT(30)
  <1>8. ASSUME NEW v \in d.rested
        PROVE  /\ v[1] \in DOMAIN P /\ v = <<v[1], Len(P[v[1]].hops) + 1>> /\ Rests(P[v[1]], link)
               /\ f[v] = [packet |-> v[1], admitted |-> AtLast(P[v[1]]).time, tx |-> None,
                          end |-> Freed(P[v[1]], link), status |-> P[v[1]].status]
               /\ f[v].admitted = d.adm[v] /\ f[v].tx = None /\ f[v].end = d.out[v] /\ f[v].packet = v[1]
               /\ d.out[v] # End + 1
    <2>1. v[1] \in DOMAIN P /\ v = <<v[1], Len(P[v[1]].hops) + 1>> /\ Rests(P[v[1]], link)
      BY <1>5
    <2>2. f[v] = [packet |-> v[1], admitted |-> AtLast(P[v[1]]).time, tx |-> None,
                  end |-> Freed(P[v[1]], link), status |-> P[v[1]].status]
      <3>1. v \notin Sent(P, link) /\ v \in Rested(P, link)
        BY <1>5, <1>6
      <3> QED
        BY <3>1, Zenon DEF FileOf
    <2>3. f[v].admitted = AtLast(P[v[1]]).time /\ f[v].tx = None /\ f[v].end = Freed(P[v[1]], link) /\ f[v].packet = v[1]
      BY <2>2
    <2>4. Freed(P[v[1]], link) # End + 1
      BY <1>2, <1>3, <2>1, FreedIs
    <2> HIDE DEF f
    <2> QED
      BY <1>5, <2>1, <2>2, <2>3, <2>4
  <1> HIDE DEF f
  <1>9. served = {f[v] : v \in d.sent}
    <2>1. \A x : x \in served <=>
            \E n \in DOMAIN P : \E i \in DOMAIN P[n].hops :
              /\ <<P[n].hops[i].from, P[n].hops[i].to>> = link
              /\ x = [packet |-> n, admitted |-> Before(P[n], i).time, tx |-> P[n].hops[i].tx,
                      end |-> P[n].hops[i].rx - P[n].hops[i].delay, status |-> "transmit"]
      BY DEF Served
    <2>2. ASSUME NEW n \in DOMAIN P, NEW i \in DOMAIN P[n].hops, <<P[n].hops[i].from, P[n].hops[i].to>> = link
          PROVE  <<n, i>> \in d.sent
      <3>1. i \in Nat /\ i \in 1..Len(P[n].hops)
        BY <1>3, PlaceIs
      <3> QED
        BY <1>5, <2>2, <3>1 DEF Goes
    <2>3. ASSUME NEW x \in served PROVE \E v \in d.sent : x = f[v]
      <3>0. PICK n \in DOMAIN P :
              \E i \in DOMAIN P[n].hops :
                /\ <<P[n].hops[i].from, P[n].hops[i].to>> = link
                /\ x = [packet |-> n, admitted |-> Before(P[n], i).time, tx |-> P[n].hops[i].tx,
                        end |-> P[n].hops[i].rx - P[n].hops[i].delay, status |-> "transmit"]
        BY <2>1
      <3>1. PICK i \in DOMAIN P[n].hops :
              /\ <<P[n].hops[i].from, P[n].hops[i].to>> = link
              /\ x = [packet |-> n, admitted |-> Before(P[n], i).time, tx |-> P[n].hops[i].tx,
                      end |-> P[n].hops[i].rx - P[n].hops[i].delay, status |-> "transmit"]
        BY <3>0
      <3>2. <<n, i>> \in d.sent /\ <<n, i>>[1] = n /\ <<n, i>>[2] = i
        BY <2>2, <3>1
      <3>3. f[<<n, i>>] = [packet |-> n, admitted |-> Before(P[n], i).time, tx |-> P[n].hops[i].tx,
                           end |-> P[n].hops[i].rx - P[n].hops[i].delay, status |-> "transmit"]
        BY <1>7, <3>2
      <3> QED
        BY <3>1, <3>2, <3>3
    <2>4. ASSUME NEW v \in d.sent PROVE f[v] \in served
      BY <1>7, <2>1
    <2> HIDE DEF served
    <2> QED
      BY <2>3, <2>4
  <1>10. \A x : x \in left <=>
           \E n \in DOMAIN P :
             /\ P[n].status \in InQueue /\ AtLast(P[n]).time < End /\ link = Onward(P[n])
             /\ x = [packet |-> n, admitted |-> AtLast(P[n]).time, tx |-> None,
                     end |-> IF P[n].status # "outage_queue_drop" THEN End
                             ELSE Min({o[1] : o \in {q \in Outages(Across(link)) : q[1] > AtLast(P[n]).time}}),
                     status |-> P[n].status]
    BY DEF Left, Onward, Across
  <1> HIDE DEF left, served
  <1>11. ASSUME NEW n \in DOMAIN P
         PROVE  /\ P[n].status \in InQueue /\ AtLast(P[n]).time < End /\ link = Onward(P[n]) <=>
                     Rests(P[n], link) \/ (Balked(P[n], link) /\ AtLast(P[n]).time < End)
                /\ Rests(P[n], link) =>
                     /\ P[n].status # "queue_drop"
                     /\ Freed(P[n], link) =
                          IF P[n].status # "outage_queue_drop" THEN End
                          ELSE Min({o[1] : o \in {q \in Outages(Across(link)) : q[1] > AtLast(P[n]).time}})
                /\ Balked(P[n], link) => P[n].status = "queue_drop"
    BY <1>2, <1>3, LeftIs, ZenonT(60)
  <1>12. {w \in left : w.status # "queue_drop"} = {f[v] : v \in d.rested}
    <2>1. ASSUME NEW w \in left, w.status # "queue_drop" PROVE \E v \in d.rested : w = f[v]
      <3>1. PICK n \in DOMAIN P :
             /\ P[n].status \in InQueue /\ AtLast(P[n]).time < End /\ link = Onward(P[n])
             /\ w = [packet |-> n, admitted |-> AtLast(P[n]).time, tx |-> None,
                     end |-> IF P[n].status # "outage_queue_drop" THEN End
                             ELSE Min({o[1] : o \in {q \in Outages(Across(link)) : q[1] > AtLast(P[n]).time}}),
                     status |-> P[n].status]
        BY <1>10
      <3>2. w.status = P[n].status
        BY <3>1
      <3>3. Rests(P[n], link)
        BY <1>11, <2>1, <3>1, <3>2
      <3> DEFINE v == <<n, Len(P[n].hops) + 1>>
      <3>4. v \in d.rested /\ v[1] = n
        <4>1. Len(P[n].hops) + 1 \in Nat
          BY <1>3, PlaceIs
        <4> QED
          BY <1>5, <3>3, <4>1
      <3> HIDE DEF v
      <3>5. f[v] = [packet |-> n, admitted |-> AtLast(P[n]).time, tx |-> None,
                    end |-> Freed(P[n], link), status |-> P[n].status]
        BY <1>8, <3>4
      <3>6. f[v] = w
        BY <1>11, <3>1, <3>3, <3>5
      <3> QED
        BY <3>4, <3>6
    <2>2. ASSUME NEW v \in d.rested PROVE f[v] \in left /\ f[v].status # "queue_drop"
      <3>1. /\ v[1] \in DOMAIN P /\ Rests(P[v[1]], link)
            /\ f[v] = [packet |-> v[1], admitted |-> AtLast(P[v[1]]).time, tx |-> None,
                       end |-> Freed(P[v[1]], link), status |-> P[v[1]].status]
        BY <1>8
      <3>2. f[v].status = P[v[1]].status
        BY <3>1
      <3>3. f[v] \in left
        <4> DEFINE n == v[1]
        <4>1. n \in DOMAIN P /\ P[n].status \in InQueue /\ AtLast(P[n]).time < End /\ link = Onward(P[n])
          BY <1>11, <3>1
        <4>2. Freed(P[n], link) = IF P[n].status # "outage_queue_drop" THEN End
                                  ELSE Min({o[1] : o \in {q \in Outages(Across(link)) : q[1] > AtLast(P[n]).time}})
          BY <1>11, <3>1
        <4>3. f[v] = [packet |-> n, admitted |-> AtLast(P[n]).time, tx |-> None,
                      end |-> IF P[n].status # "outage_queue_drop" THEN End
                              ELSE Min({o[1] : o \in {q \in Outages(Across(link)) : q[1] > AtLast(P[n]).time}}),
                      status |-> P[n].status]
          BY <3>1, <4>2
        <4> HIDE DEF n
        <4> QED
          BY <1>10, <4>1, <4>3
      <3> QED
        BY <1>11, <3>1, <3>2, <3>3
    <2> QED
      BY <2>1, <2>2
  <1>13. ASSUME NEW w \in left, w.status = "queue_drop" PROVE w.admitted \in d.drops
    <2>1. PICK n \in DOMAIN P :
            /\ P[n].status \in InQueue /\ AtLast(P[n]).time < End /\ link = Onward(P[n])
            /\ w = [packet |-> n, admitted |-> AtLast(P[n]).time, tx |-> None,
                    end |-> IF P[n].status # "outage_queue_drop" THEN End
                            ELSE Min({o[1] : o \in {q \in Outages(Across(link)) : q[1] > AtLast(P[n]).time}}),
                    status |-> P[n].status]
      BY <1>10
    <2>2. w.status = P[n].status /\ w.admitted = AtLast(P[n]).time
      BY <2>1
    <2>3. Balked(P[n], link)
      BY <1>11, <1>13, <2>1, <2>2
    <2> QED
      BY <1>5, <2>2, <2>3
  <1>14. WaitingAt(d) = {}
    BY <1>8 DEF WaitingAt
  <1>15. ASSUME NEW u \in d.rested, NEW v \in d.rested, f[u] = f[v] PROVE u = v
    <2>1. u[1] = v[1]
      <3>1. f[u].packet = u[1] /\ f[v].packet = v[1]
        BY <1>8
      <3> QED
        BY <1>15, <3>1
    <2>2. u = <<u[1], Len(P[u[1]].hops) + 1>> /\ v = <<v[1], Len(P[v[1]].hops) + 1>>
      BY <1>8
    <2> QED
      BY <2>1, <2>2
  <1>16. /\ \A v \in d.sent \union d.rested : f[v].admitted = d.adm[v]
         /\ \A v \in d.sent : f[v].tx = d.out[v] /\ f[v].end = d.end[v] /\ d.end[v] <= now
         /\ \A v \in d.rested : f[v].tx = None /\ f[v].end = d.out[v]
    BY <1>7, <1>8
  <1> HIDE DEF P
  <1>17. now > End
    BY <1>2, RowTimes
  <1>18. Recorded(d, now, f, served, left)
    BY <1>4, <1>9, <1>12, <1>13, <1>14, <1>15, <1>16, <1>17, ZenonT(60) DEF Recorded
  <1> QED
    BY <1>18 DEF d, f, served, left, P

\* What the parser is given at the stop.
Accounted ==
  /\ Accepts
  /\ \A n \in DOMAIN packets :
       packets[n].status # "unresolved" /\ \A i \in DOMAIN packets[n].hops : packets[n].hops[i].rx # None

LEMMA StopAccepted ==
  ASSUME Tabled, Living, now = StopTime, ~SnapshotDue(now, applied), ~OfferComes(packets, now)
  PROVE  Accounted
  <1>1. Simulated(packets, queue, sending, now, applied) /\ Clocked(packets, now, applied) /\ Packets(packets, now)
        /\ Lives(packets, queue, sending, now, applied, offered) /\ DOMAIN queue = Links
    BY DEF Living, Lives, Simulated
  <1>2. /\ now \in Nat /\ Len(packets) = Len(OfferTimes)
        /\ \A n \in DOMAIN packets : ~Flies(packets[n]) /\ packets[n].status \notin {"unresolved", "loose"}
    BY <1>1, StopEnds
  <1>3. ASSUME NEW n \in DOMAIN packets
        PROVE  IsPacket(n, packets[n]) /\ EndsRight(packets[n]) /\ Traced(packets[n], now) /\ packets[n] \in Records
    BY <1>1, <1>2 DEF Packets, Tracked
  <1>4. ASSUME NEW n \in DOMAIN packets, NEW i \in DOMAIN packets[n].hops
        PROVE  IsHop(packets[n], i) /\ packets[n].hops[i].rx # None
    BY <1>2, <1>3, HopAccepted
  <1>5. ASSUME NEW link \in DOMAIN queue PROVE IsFifo(link)
    <2>1. Recorded(Device(packets, link), now, FileOf(packets, link), Served(link), Left(link))
      BY <1>1, DeviceRecorded
    <2>2. Chosen
      BY DEF Tabled
    <2>3. InOrderOfAdmission(Served(link))
      BY <1>2, <2>1, <2>2, RecordsInOrder
    <2>4. \A w \in Left(link) : w.status # "queue_drop" => Waited(Served(link), w)
      BY <1>2, <2>1, <2>2, RecordsWaited
    <2>5. WithinCapacity(Served(link), Left(link))
      BY <1>2, <2>1, <2>2, RecordsFit
    <2> QED
      BY <2>3, <2>4, <2>5 DEF IsFifo
  <1>6. IsPrepared
    BY TableAccepted
  <1>7. Accepts
    BY <1>2, <1>3, <1>4, <1>5, <1>6, ZenonT(60) DEF Accepts
  <1> QED
    BY <1>2, <1>4, <1>7 DEF Accounted

\* A step that leaves the replay and its table alone leaves what is said of packets and devices alone.
LEMMA TablesStand ==
  ASSUME UNCHANGED <<holding, replay, rows>>
  PROVE  /\ End' = End /\ OfferTimes' = OfferTimes /\ Links' = Links
         /\ \A t : RowAt(t)' = RowAt(t)
         /\ \A e : Outages(e)' = Outages(e)
         /\ \A e, start, stop : Overlaps(e, start, stop)' <=> Overlaps(e, start, stop)
         /\ \A p : Onward(p)' = Onward(p)
         /\ Chosen' <=> Chosen
  <1>1. End' = End /\ OfferTimes' = OfferTimes /\ Links' = Links
    BY DEF End, OfferTimes, FlowTimes, FlowPhase, Links
  <1>2. \A t : RowAt(t)' = RowAt(t)
    BY DEF RowAt
  <1>3. \A e : Outages(e)' = Outages(e)
    BY DEF Outages
  <1>4. \A e, start, stop : Overlaps(e, start, stop)' <=> Overlaps(e, start, stop)
    BY <1>3 DEF Overlaps
  <1>5. \A p : Onward(p)' = Onward(p)
    BY <1>2 DEF Onward
  <1>6. Chosen' <=> Chosen
    BY DEF Chosen
  <1> QED
    BY <1>1, <1>2, <1>3, <1>4, <1>5, <1>6

LEMMA TableStands ==
  ASSUME UNCHANGED replay
  PROVE  \A table : IsTable(table)' <=> IsTable(table)
  <1>1. End' = End
    BY DEF End
  <1>2. \A row, edges : IsRow(row, edges)' <=> IsRow(row, edges)
    BY DEF IsRow
  <1> QED
    BY <1>1, <1>2 DEF IsTable

LEMMA TrackedStands ==
  ASSUME UNCHANGED <<holding, replay, rows>>
  PROVE  \A n, p, t : Tracked(n, p, t)' <=> Tracked(n, p, t)
  <1>1. /\ End' = End /\ OfferTimes' = OfferTimes /\ Links' = Links
        /\ \A t : RowAt(t)' = RowAt(t)
        /\ \A e : Outages(e)' = Outages(e)
        /\ \A e, start, stop : Overlaps(e, start, stop)' <=> Overlaps(e, start, stop)
        /\ \A p : Onward(p)' = Onward(p)
    BY TablesStand
  <1>2. \A hop, before, aim, t : Follows(hop, before, aim, t)' <=> Follows(hop, before, aim, t)
    BY <1>1 DEF Follows
  <1>3. \A hop, t : Over(hop, t)' <=> Over(hop, t)
    <2>1. \A hop, t : Fell(hop, t)' <=> Fell(hop, t)
      BY <1>1 DEF Fell
    <2> QED
      BY <2>1 DEF Over
  <1>4. \A p, t : Traced(p, t)' <=> Traced(p, t)
    BY <1>2, <1>3 DEF Traced
  <1>5. \A p, t : Waiting(p, t)' <=> Waiting(p, t)
    BY <1>1 DEF Waiting
  <1>6. \A n, p : IsPacket(n, p)' <=> IsPacket(n, p)
    BY <1>1 DEF IsPacket
  <1>7. \A p : EndsRight(p)' <=> EndsRight(p)
    BY <1>1, ZenonT(60) DEF EndsRight
  <1> QED
    BY <1>1, <1>4, <1>5, <1>6, <1>7 DEF Tracked

LEMMA DeviceStands ==
  ASSUME UNCHANGED <<holding, replay, rows>>
  PROVE  \A P, link, line, sends, t, k : Linked(P, link, line, sends, t, k)' <=> Linked(P, link, line, sends, t, k)
  <1>1. /\ End' = End /\ \A e : Outages(e)' = Outages(e)
        /\ \A p : Onward(p)' = Onward(p)
    BY TablesStand
  <1>2. \A p, link : /\ Rests(p, link)' <=> Rests(p, link)
                     /\ Balked(p, link)' <=> Balked(p, link)
                     /\ Freed(p, link)' = Freed(p, link)
    <2>1. \A p, link : Rests(p, link)' <=> Rests(p, link)
      BY <1>1 DEF Rests
    <2>2. \A p, link : Balked(p, link)' <=> Balked(p, link)
      BY <1>1 DEF Balked
    <2>3. \A p, link : Freed(p, link)' = Freed(p, link)
      <3> TAKE p, link
      <3>1. Outages(Across(link))' = Outages(Across(link))
        BY <1>1
      <3> QED
        BY <1>1, <3>1, Zenon DEF Freed
    <2> QED
      BY <2>1, <2>2, <2>3
  <1>3. \A P, link : Rested(P, link)' = Rested(P, link)
    BY <1>2 DEF Rested
  <1>4. \A P, link : Device(P, link)' = Device(P, link)
    <2> TAKE P, link
    <2>1. {m \in DOMAIN P : Balked(P[m], link)}' = {m \in DOMAIN P : Balked(P[m], link)}
      BY <1>2
    <2>2. Rested(P, link)' = Rested(P, link) /\ Sent(P, link)' = Sent(P, link)
      BY <1>3 DEF Sent
    <2>3. \A v : Freed(P[v[1]], link)' = Freed(P[v[1]], link)
      BY <1>2
    <2>4. [v \in Sent(P, link) \union Rested(P, link) |->
             IF v \in Sent(P, link) THEN P[v[1]].hops[v[2]].tx ELSE Freed(P[v[1]], link)]'
            = [v \in Sent(P, link) \union Rested(P, link) |->
                 IF v \in Sent(P, link) THEN P[v[1]].hops[v[2]].tx ELSE Freed(P[v[1]], link)]
      BY <2>2, <2>3
    <2> QED
      BY <2>1, <2>2, <2>4, Zenon DEF Device
  <1>5. \A P, link, line : InLine(P, link, line)' <=> InLine(P, link, line)
    <2>1. \A p, link : Queued(p, link)' <=> Queued(p, link)
      BY <1>2 DEF Queued
    <2> QED
      BY <2>1, ZenonT(30) DEF InLine
  <1>6. \A d, t : IsDevice(d, t)' <=> IsDevice(d, t)
    <2>1. \A d, t : Timed(d, t)' <=> Timed(d, t)
      BY <1>1 DEF Timed
    <2>2. \A d, t : Roomy(d, t)' <=> Roomy(d, t)
      BY <1>1 DEF Roomy
    <2>3. \A d, t : Filled(d, t)' <=> Filled(d, t)
      BY <1>1 DEF Filled
    <2> QED
      BY <2>1, <2>2, <2>3 DEF IsDevice
  <1> QED
    BY <1>4, <1>5, <1>6 DEF Linked

LEMMA LivesStands ==
  ASSUME UNCHANGED <<holding, replay, rows>>
  PROVE  \A P, Q, S, t, k, c : Lives(P, Q, S, t, k, c)' <=> Lives(P, Q, S, t, k, c)
  <1>1. OfferTimes' = OfferTimes /\ Links' = Links
    BY TablesStand
  <1>2. \A P, t : Packets(P, t)' <=> Packets(P, t)
    BY TrackedStands DEF Packets
  <1>3. \A P, t, k : Clocked(P, t, k)' <=> Clocked(P, t, k)
    BY <1>1 DEF Clocked, SnapshotDue
  <1>4. \A P, link, line, sends, t, k : Linked(P, link, line, sends, t, k)' <=> Linked(P, link, line, sends, t, k)
    BY DeviceStands
  <1>5. \A P, Q, S, t, k : Simulated(P, Q, S, t, k)' <=> Simulated(P, Q, S, t, k)
    BY <1>1, <1>2, <1>3, <1>4 DEF Simulated
  <1> QED
    BY <1>5 DEF Lives

\* The simulation goes on in the next state.
LEMMA LivingNext ==
  ASSUME UNCHANGED <<holding, replay, rows>>, Tabled, Lives(packets', queue', sending', now', applied', offered')
  PROVE  Tabled' /\ Living'
  <1>1. Tabled'
    BY TablesStand, TableStands DEF Tabled
  <1>2. Living'
    BY LivesStands DEF Living
  <1> QED
    BY <1>1, <1>2

\* Before the first event nothing is offered and no device has a history.
LEMMA EmptyLives ==
  Tabled /\ packets = <<>> /\ now = 0 /\ applied = 0 /\ offered = 0
    /\ queue = [link \in Links |-> <<>>] /\ sending = [link \in Links |-> Idle] => Living
  <1> SUFFICES ASSUME Tabled, packets = <<>>, now = 0, applied = 0, offered = 0,
                      queue = [link \in Links |-> <<>>], sending = [link \in Links |-> Idle]
               PROVE  Living
    OBVIOUS
  <1>1. /\ Len(packets) = 0 /\ DOMAIN packets = {} /\ packets \in Seq(Records)
        /\ \A n : n \notin DOMAIN packets
    BY EmptySeq
  <1>2. Clocked(packets, now, applied)
    <2>1. /\ Len(rows) \in Nat /\ Len(rows) >= 2 /\ Len(rows) \in 1..Len(rows) /\ rows[1].time = 0
          /\ Len(OfferTimes) \in Nat
          /\ \A n \in 1..Len(OfferTimes) : OfferTimes[n] \in Nat
      BY RowTimes, OfferTimesAre DEF Tabled
    <2>2. Len(packets) < Len(OfferTimes) => now <= OfferTimes[Len(packets) + 1]
      <3>1. Len(packets) < Len(OfferTimes) => Len(packets) + 1 \in 1..Len(OfferTimes)
        BY <1>1, <2>1
      <3> QED
        BY <2>1, <3>1
    <2>3. now \in Nat /\ applied \in 0..Len(rows) /\ ~(applied > 0) /\ Len(packets) <= Len(OfferTimes)
      BY <1>1, <2>1
    <2>4. applied < Len(rows) => now <= rows[applied + 1].time
      BY <2>1
    <2>5. \A n \in DOMAIN packets : AtLast(packets[n]).time < now /\ \A i \in 1..Len(packets[n].hops) : packets[n].hops[i].tx < now
      BY <1>1
    <2> QED
      BY <1>1, <2>2, <2>3, <2>4, <2>5 DEF Clocked
  <1>3. Packets(packets, now) /\ Settled(packets) /\ offered = Len(packets)
    BY <1>1 DEF Packets, Settled
  <1>4. ASSUME NEW link \in Links PROVE Linked(packets, link, queue[link], sending[link], now, applied)
    <2> DEFINE d == Device(packets, link)
    <2>1. d.sent = {} /\ d.rested = {} /\ d.drops = {}
      <3>1. Sent(packets, link) = {} /\ Rested(packets, link) = {}
        BY <1>1 DEF Sent, Rested
      <3>2. {AtLast(packets[n]).time : n \in {m \in DOMAIN packets : Balked(packets[m], link)}} = {}
        BY <1>1
      <3>3. d.sent = Sent(packets, link) /\ d.rested = Rested(packets, link)
            /\ d.drops = {AtLast(packets[n]).time : n \in {m \in DOMAIN packets : Balked(packets[m], link)}}
        BY Zenon DEF Device
      <3> QED
        BY <3>1, <3>2, <3>3
    <2>2. queue[link] = <<>> /\ sending[link] = Idle
      OBVIOUS
    <2> HIDE DEF d
    <2>3. IsDevice(d, now)
      <3>1. Timed(d, now)
        BY <2>1, FS_EmptySet DEF Timed
      <3>2. InTurn(d) /\ \A w \in d.rested : Patient(d, w)
        BY <2>1 DEF InTurn
      <3>3. Roomy(d, now)
        BY RowTimes DEF Roomy
      <3>4. Filled(d, now)
        BY <2>1 DEF Filled
      <3> QED
        BY <3>1, <3>2, <3>3, <3>4 DEF IsDevice
    <2>4. InLine(packets, link, <<>>)
      <3>1. <<>> \in Seq(Nat) /\ Len(<<>>) = 0 /\ 1..0 = {}
        BY EmptySeq
      <3>2. replay.queue \in Nat
        BY NetworkReplayAssumption DEF NetworkReplayAssumption, Tabled, Chosen
      <3> QED
        BY <1>1, <3>1, <3>2 DEF InLine
    <2>5. Busy(d, <<>>, Idle, now)
      BY <2>1 DEF Busy, Idle
    <2> QED
      BY <2>2, <2>3, <2>4, <2>5 DEF Linked, d
  <1>5. DOMAIN queue = Links /\ DOMAIN sending = Links
    OBVIOUS
  <1>6. Simulated(packets, queue, sending, now, applied)
    BY <1>2, <1>3, <1>4, <1>5 DEF Simulated
  <1> QED
    BY <1>3, <1>6 DEF Living, Lives

LEMMA EmptyLivesNext ==
  (Tabled /\ packets = <<>> /\ now = 0 /\ applied = 0 /\ offered = 0
    /\ queue = [link \in Links |-> <<>>] /\ sending = [link \in Links |-> Idle])' => Living'
  BY EmptyLives, PTL

\* The call prepares the table, the simulation lives by it, and ends with an account that is accepted.
AInv ==
  /\ Chosen
  /\ phase = "prepare" => packets = <<>> /\ now = 0 /\ applied = 0 /\ offered = 0
  /\ phase = "simulate" => Tabled /\ Living
  /\ phase = "parse" => Accounted
  /\ phase = "raised" => replay.fault # "none"
  /\ target = "rival" => replay.fault = "rival"

LEMMA InitAInv == Init => AInv
  BY DEF Init, AInv, Chosen

LEMMA AInvPrepare == ASSUME IInv, AInv, Prepare PROVE AInv'
  <1>1. UNCHANGED <<holding, replay, now, applied, offered, packets, target>> /\ rows' = Prepared /\ phase = "prepare"
    BY DEF Prepare
  <1>2. Chosen /\ Chosen' /\ packets = <<>> /\ now = 0 /\ applied = 0 /\ offered = 0
    BY <1>1 DEF AInv, Chosen
  <1>3. IsTable(rows)'
    <2>1. IsTable(rows')
      BY <1>1, <1>2, PreparedIsTable
    <2>2. \A table : IsTable(table)' <=> IsTable(table)
      BY <1>1, TableStands
    <2> QED
      BY <2>1, <2>2
  <1>4. Tabled'
    BY <1>2, <1>3 DEF Tabled
  <1>5. (queue = [link \in Links |-> <<>>] /\ sending = [link \in Links |-> Idle])'
    BY DEF Prepare, Links, Idle
  <1>6. Living'
    BY <1>1, <1>2, <1>4, <1>5, EmptyLivesNext
  <1>7. phase' = "simulate" \/ (phase' = "raised" /\ (target # "none" \/ replay.fault = "handshake"))
    BY DEF Prepare, Raise
  <1>8. target # "none" => target = "rival"
    BY <1>1 DEF IInv, TypeOK, Claimed
  <1> QED
    BY <1>1, <1>2, <1>4, <1>6, <1>7, <1>8 DEF AInv

\* A step of the simulation.
LEMMA AInvSimulates ==
  ASSUME AInv, phase = "simulate", UNCHANGED <<holding, replay, rows, target>>,
         Lives(packets', queue', sending', now', applied', offered'), phase' = "simulate"
  PROVE  AInv'
  <1>1. Tabled' /\ Living'
    BY LivingNext DEF AInv
  <1> QED
    BY <1>1, TablesStand DEF AInv

LEMMA AInvControl == ASSUME IInv, AInv, Take \/ Parse \/ Publish \/ UNCHANGED vars PROVE AInv'
  <1>1. UNCHANGED <<holding, replay, rows, now, applied, offered, packets, queue, sending>>
    BY DEF Take, Parse, Publish, vars, simulator
  <1>2. (Chosen' <=> Chosen) /\ (Accepts' <=> Accepts)
    BY <1>1, TablesStand, VerdictStands
  <1>3. Accounted => Accounted'
    BY <1>1, <1>2 DEF Accounted
  <1>4. Tabled /\ Living => Tabled' /\ Living'
    BY <1>1, LivingNext DEF Living
  <1>5. (phase' = phase /\ (target' = target \/ (target' = "rival" /\ replay.fault = "rival")))
        \/ (phase = "parse" /\ target' = target
              /\ (phase' = "publish" \/ (phase' = "raised" /\ Refused)))
        \/ (phase = "publish" /\ \/ phase' = "returned" /\ target' = "evidence"
                                 \/ phase' = "raised" /\ target' = target /\ target # "none")
    BY DEF Take, Parse, Publish, vars, Raise
  <1>6. phase = "parse" /\ Refused => replay.fault # "none"
    BY DEF AInv, Accounted, Refused
  <1>7. phase = "publish" /\ target # "none" => target = "rival"
    BY DEF IInv, TypeOK, Claimed
  <1> QED
    BY <1>1, <1>2, <1>3, <1>4, <1>5, <1>6, <1>7 DEF AInv

LEMMA StepAInv == ASSUME IInv, AInv, [Next]_vars PROVE AInv'
  <1>1. CASE Prepare
    BY <1>1, AInvPrepare
  <1>2. CASE Take \/ Parse \/ Publish \/ UNCHANGED vars
    BY <1>2, AInvControl
  <1>3. phase = "simulate" => Tabled /\ Living
    BY DEF AInv
  <1>4. CASE Update
    <2>1. phase = "simulate" /\ UNCHANGED <<holding, replay, rows, target>>
      BY <1>4 DEF Update
    <2>2. Lives(packets', queue', sending', now', applied', offered') /\ UNCHANGED phase
      BY <1>3, <1>4, <2>1, UpdateLives
    <2> QED
      BY <2>1, <2>2, AInvSimulates
  <1>5. CASE Offer
    <2>1. phase = "simulate" /\ UNCHANGED <<holding, replay, rows, target>>
      BY <1>5 DEF Offer
    <2>2. Lives(packets', queue', sending', now', applied', offered') /\ Proceed
      BY <1>3, <1>5, <2>1, OfferLives
    <2> QED
      BY <2>1, <2>2, AInvSimulates DEF Proceed
  <1>6. ASSUME NEW link \in DOMAIN sending, Complete(link) PROVE AInv'
    <2>1. phase = "simulate" /\ UNCHANGED <<holding, replay, rows, target>>
      BY <1>6 DEF Complete, Dynamic
    <2>2. Lives(packets', queue', sending', now', applied', offered') /\ Proceed
      BY <1>3, <1>6, <2>1, CompleteLives
    <2> QED
      BY <2>1, <2>2, AInvSimulates DEF Proceed
  <1>7. ASSUME NEW n \in DOMAIN packets, Arrive(n) PROVE AInv'
    <2>1. phase = "simulate" /\ UNCHANGED <<holding, replay, rows, target>>
      BY <1>7 DEF Arrive, Dynamic
    <2>2. Lives(packets', queue', sending', now', applied', offered') /\ Proceed
      BY <1>3, <1>7, <2>1, ArriveLives
    <2> QED
      BY <2>1, <2>2, AInvSimulates DEF Proceed
  <1>8. CASE Advance
    <2>1. phase = "simulate" /\ UNCHANGED <<holding, replay, rows, target>>
      BY <1>8 DEF Advance, Dynamic
    <2>2. /\ Lives(packets', queue', sending', now', applied', offered')
          /\ \/ UNCHANGED phase
             \/ /\ phase' = "parse" /\ now' = StopTime /\ ~SnapshotDue(now, applied) /\ ~OfferComes(packets, now)
                /\ UNCHANGED <<packets, queue, sending, now, applied, offered>>
      BY <1>3, <1>8, <2>1, AdvanceLives
    <2>3. CASE UNCHANGED phase
      BY <2>1, <2>2, <2>3, AInvSimulates
    <2>4. CASE /\ phase' = "parse" /\ now' = StopTime /\ ~SnapshotDue(now, applied) /\ ~OfferComes(packets, now)
               /\ UNCHANGED <<packets, queue, sending, now, applied, offered>>
      <3>1. Accounted
        BY <1>3, <2>1, <2>4, StopAccepted
      <3>2. Accounted'
        BY <2>1, <2>4, <3>1, VerdictStands DEF Accounted
      <3>3. Chosen'
        BY <2>1, TablesStand DEF AInv
      <3> QED
        BY <2>1, <2>4, <3>2, <3>3 DEF AInv
    <2> QED
      BY <2>2, <2>3, <2>4
  <1> QED
    BY <1>1, <1>2, <1>4, <1>5, <1>6, <1>7, <1>8 DEF Next

\* Whatever routes are saved, whatever the window, the traffic, the queues and the order of the events of a
\* tick, the simulation does not stop early, every packet and hop is accounted for at its end, and the parser
\* accepts the account: a call raises only for a fault (openleo-network-replay.cc, network_packet_io.py).
THEOREM AccountStands == Spec => []AccountAccepted
  <1>1. IInv /\ AInv /\ [Next]_vars => AInv'
    BY StepAInv
  <1>2. AInv => AccountAccepted
    BY DEF AInv, Accounted, AccountAccepted
  <1> QED
    BY InitAInv, Invariance, <1>1, <1>2, PTL DEF Spec

=============================================================================
