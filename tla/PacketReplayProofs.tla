------------------------- MODULE PacketReplayProofs -------------------------
(***************************************************************************)
(* The packet replay for every link, window, queue, rounding and fault.    *)
(*                                                                         *)
(* Its control first.  IInv says, phase by phase, what has been            *)
(* established by the time the replay is there: the files read are of one  *)
(* run unless some were replaced between two readings (Consistent), the    *)
(* run is whole once the trace is prepared (Named), the packets are        *)
(* accepted once the parser has returned (Checked), and the output is      *)
(* taken once, by the call that returns (Claimed).                         *)
(*                                                                         *)
(* Then the trace: its rows are the ticks of the breakpoints in order      *)
(* (TraceIs), and between a row's breakpoint and half a tick past a tick   *)
(* it holds there is no other breakpoint (RowHolds).                       *)
(*                                                                         *)
(* Then the simulation: the clock is between two rows and between two      *)
(* offers (Clocks), what waits is unsent and the link is up (Queued), and  *)
(* each record is accounted for at every moment (Accounted), so that at    *)
(* the stop every packet has ended in a way the parser accepts.            *)
(***************************************************************************)
EXTENDS PacketReplay, SequenceTheorems, FiniteSetTheorems, WellFoundedInduction, TLAPS

Names == {"json", "tables", "inputs", "manifest"}
Running == {"simulate", "parse", "publish", "returned"}

Sources == [json : 0..2, tables : 0..2, digest : 0..2, disturbed : BOOLEAN]
Disks == [Names -> {1, 2}]

TypeOK ==
  /\ replay \in Replays
  /\ phase \in Reading \union {"prepare", "raised"} \union Running
  /\ disk \in Disks
  /\ source \in Sources
  /\ target \in {"none", "rival", "evidence"}
  /\ temporary \in BOOLEAN

\* What has been read, unless files were replaced in the meantime, is of the run the manifest is of.
Consistent ==
  ~source.disturbed =>
    /\ phase \in Reading \ {"open"} => Whole
    /\ phase \in {"listed", "loaded"} => source.json = disk.manifest
    /\ phase = "loaded" => source.tables = disk.manifest
    /\ phase \in {"prepare"} \union Running => source.json = source.digest /\ source.tables = source.digest

\* The trace is prepared of a directory that is whole, which nobody replaces from then on.
Named == phase \in Running => Whole /\ disk.manifest = source.digest /\ replay.fault # "handshake"

\* The packets published are those the parser accepted.
Checked == phase \in {"publish", "returned"} => ~Refused

\* The output and the temporary directory.
Claimed ==
  /\ target = "evidence" <=> phase = "returned"
  /\ phase \in {"raised", "returned"} => ~temporary

IInv == TypeOK /\ Consistent /\ Named /\ Checked /\ Claimed

\* The parser's verdict depends on the trace, the replay and the packets alone.
LEMMA VerdictStands == ASSUME UNCHANGED <<replay, rows, packets>> PROVE Refused' <=> Refused
  <1>1. End' = End /\ Count' = Count /\ Outages' = Outages /\ (IsPrepared' <=> IsPrepared)
    BY DEF End, Count, Outages, IsPrepared, Available
  <1>2. \A n : OfferTime(n)' = OfferTime(n)
    BY DEF OfferTime
  <1>3. \A t : RowAt(t)' = RowAt(t)
    BY DEF RowAt
  <1>4. \A start, stop : Overlaps(start, stop)' <=> Overlaps(start, stop)
    BY <1>1 DEF Overlaps
  <1>5. \A p : HasItsTimes(p)' <=> HasItsTimes(p)
    BY <1>1 DEF HasItsTimes
  <1>6. \A n, p : IsCausal(n, p)' <=> IsCausal(n, p)
    BY <1>1, <1>2 DEF IsCausal
  <1>7. \A p : FollowsTrace(p)' <=> FollowsTrace(p)
    BY <1>3, <1>4 DEF FollowsTrace, Available
  <1>8. Accepts(packets)' <=> Accepts(packets)
    BY <1>1, <1>2, <1>3, <1>5, <1>6, <1>7 DEF Accepts, Available
  <1> QED
    BY <1>8 DEF Refused, BackendFails, BackendChanged

LEMMA InitIInv == Init => IInv
  <1> SUFFICES ASSUME Init PROVE IInv
    OBVIOUS
  <1>1. disk \in Disks
    BY DEF Init, Disks, Names
  <1>2. source \in Sources
    BY DEF Init, Unread, Sources
  <1>3. TypeOK
    BY <1>1, <1>2 DEF Init, TypeOK, Reading
  <1> QED
    BY <1>3 DEF Init, IInv, Consistent, Named, Checked, Claimed, Reading, Running, Unread

\* What the readings and the rival write is well typed.
LEMMA Readings ==
  ASSUME NEW s \in Sources, NEW d \in Disks
  PROVE  /\ [s EXCEPT !.json = d.json] \in Sources
         /\ [s EXCEPT !.tables = d.tables] \in Sources
         /\ [s EXCEPT !.digest = d.manifest] \in Sources
         /\ \A b \in BOOLEAN : [s EXCEPT !.disturbed = b] \in Sources
         /\ \A f \in DOMAIN d : [d EXCEPT ![f] = 2] \in Disks
  <1>1. d.json \in 0..2 /\ d.tables \in 0..2 /\ d.manifest \in 0..2
    BY DEF Disks, Names
  <1>2. \A f \in DOMAIN d : [d EXCEPT ![f] = 2] \in Disks
    BY DEF Disks
  <1> QED
    BY <1>1, <1>2 DEF Sources

LEMMA TypeStep == ASSUME TypeOK, [Next]_vars PROVE TypeOK'
  <1> USE DEF TypeOK, Untouched, Raise, Reading, Running
  <1>1. CASE Verify
    BY <1>1 DEF Verify, Reads
  <1>2. CASE ReadResults
    BY <1>2, Readings DEF ReadResults, Reads
  <1>3. CASE ReadTables
    BY <1>3, Readings DEF ReadTables, Reads
  <1>4. CASE ReadInputs
    BY <1>4, Readings DEF ReadInputs, Reads
  <1>5. CASE Edit
    BY <1>5, Readings DEF Edit
  <1>6. CASE Prepare
    BY <1>6 DEF Prepare
  <1>7. CASE Take \/ Parse \/ Publish
    BY <1>7 DEF Take, Parse, Publish
  <1>8. CASE Update \/ FlushAtEnd \/ Offer \/ Arrive
    BY <1>8 DEF Update, FlushAtEnd, Offer, Arrive
  <1>9. CASE Complete \/ Advance
    BY <1>9 DEF Complete, Advance
  <1>10. CASE UNCHANGED vars
    BY <1>10 DEF vars
  <1> QED
    BY <1>1, <1>2, <1>3, <1>4, <1>5, <1>6, <1>7, <1>8, <1>9, <1>10 DEF Next

\* Nobody replaces a file once the trace is prepared.
LEMMA StepConsistent == ASSUME IInv, [Next]_vars PROVE Consistent'
  <1> USE DEF IInv, TypeOK, Consistent, Reading, Running, Untouched, Raise
  <1>a. disk.json \in 0..2 /\ DOMAIN disk = Names /\ \A d \in Disks : DOMAIN d = Names
    BY DEF Disks, Names
  <1>1. CASE Verify
    BY <1>1 DEF Verify, Reads, Whole
  <1>2. CASE ReadResults
    BY <1>2 DEF ReadResults, Reads, Whole, Sources
  <1>3. CASE ReadTables
    BY <1>3, <1>a DEF ReadTables, Reads, Whole, Sources, Names
  <1>4. CASE ReadInputs
    BY <1>4 DEF ReadInputs, Reads, Whole, Sources
  <1>5. CASE Edit
    BY <1>5 DEF Edit, Whole, Sources
  <1>6. CASE Prepare
    BY <1>6 DEF Prepare, Whole
  <1>7. CASE Take \/ Parse \/ Publish
    BY <1>7 DEF Take, Parse, Publish, Whole
  <1>8. CASE Update \/ FlushAtEnd \/ Offer \/ Arrive
    BY <1>8 DEF Update, FlushAtEnd, Offer, Arrive, Whole
  <1>9. CASE Complete \/ Advance
    BY <1>9 DEF Complete, Advance, Whole
  <1>10. CASE UNCHANGED vars
    BY <1>10 DEF vars, Whole
  <1> QED
    BY <1>1, <1>2, <1>3, <1>4, <1>5, <1>6, <1>7, <1>8, <1>9, <1>10 DEF Next

LEMMA StepControl == ASSUME IInv, [Next]_vars PROVE Named' /\ Checked' /\ Claimed'
  <1> USE DEF IInv, TypeOK, Named, Checked, Claimed, Reading, Running, Untouched, Raise
  <1>1. CASE Verify \/ ReadResults \/ ReadTables \/ ReadInputs
    BY <1>1 DEF Verify, ReadResults, ReadTables, ReadInputs, Reads
  <1>2. CASE Edit
    BY <1>2 DEF Edit
  <1>3. CASE Prepare
    BY <1>3 DEF Prepare, Provenance, Whole
  <1>4. CASE Parse
    BY <1>4, VerdictStands DEF Parse, Whole
  <1>5. CASE Publish
    BY <1>5, VerdictStands DEF Publish, Free, Whole
  <1>6. CASE Take
    BY <1>6, VerdictStands DEF Take, Whole
  <1>7. CASE Update \/ FlushAtEnd \/ Offer \/ Arrive
    BY <1>7 DEF Update, FlushAtEnd, Offer, Arrive, Whole
  <1>8. CASE Complete \/ Advance
    BY <1>8 DEF Complete, Advance, Whole
  <1>9. CASE UNCHANGED vars
    BY <1>9, VerdictStands DEF vars, Whole
  <1> QED
    BY <1>1, <1>2, <1>3, <1>4, <1>5, <1>6, <1>7, <1>8, <1>9 DEF Next

THEOREM Invariance == Spec => []IInv
  <1>1. IInv /\ [Next]_vars => IInv'
    BY TypeStep, StepConsistent, StepControl DEF IInv
  <1> QED
    BY InitIInv, <1>1, PTL DEF Spec

\* Evidence names the run that was replayed, whose packets were accepted, and is of nobody else; and
\* nothing is left behind (_execute_packet_replay, ReplaySource.from_results).
THEOREM EvidenceStands == Spec => []EvidenceIsValidated
  <1>1. IInv => EvidenceIsValidated
    <2> SUFFICES ASSUME IInv PROVE EvidenceIsValidated
      OBVIOUS
    <2>1. replay.fault \in Faults
      BY PacketReplayAssumption DEF PacketReplayAssumption, IInv, TypeOK
    <2>2. ASSUME target = "evidence" PROVE replay.fault \in {"none", "rival", "results"} /\ Accepts(packets)
      BY <2>1, <2>2 DEF IInv, Named, Checked, Claimed, Refused, BackendFails, BackendChanged, Running, Faults
    <2>3. ASSUME target = "evidence"
          PROVE  source.disturbed \/ (source.json = source.digest /\ source.tables = source.digest)
      BY <2>3 DEF IInv, Consistent, Claimed, Running
    <2> QED
      BY <2>2, <2>3 DEF IInv, Named, Claimed, EvidenceIsValidated, Running
  <1> QED
    BY Invariance, <1>1, PTL

----------------------------------------------------------------------------
(* Greatest elements, and the n-th of a set.                               *)

\* A set of naturals has a least element: the library's well-founded induction, without a predicate as a parameter.
LEMMA LeastNatural ==
  ASSUME NEW T, \A n \in T : n \in Nat, T # {}
  PROVE  \E n \in T : \A m \in T : n <= m
  <1>1. IsWellFoundedOn(OpToRel(<, Nat), Nat) /\ T \subseteq Nat /\ T # {}
    BY NatLessThanWellFounded
  <1>2. \E n \in T : \A m \in T : ~(<<m, n>> \in OpToRel(<, Nat))
    BY <1>1, WFMin
  <1>3. \E n \in T : \A m \in T : ~(m < n)
    BY <1>2 DEF OpToRel
  <1> QED
    BY <1>3

\* A set of integers bounded above has a greatest element.
LEMMA MaxIs ==
  ASSUME NEW S, \A x \in S : x \in Int, NEW b \in Int, \A x \in S : x <= b, S # {}
  PROVE  Max(S) \in S /\ \A y \in S : y <= Max(S)
  <1> DEFINE T == {b - x : x \in S}
  <1>1. (\A n \in T : n \in Nat) /\ T # {}
    OBVIOUS
  <1>2. PICK n \in T : \A m \in T : n <= m
    <2> HIDE DEF T
    <2> QED
      BY <1>1, LeastNatural
  <1>3. PICK y \in S : n = b - y
    BY <1>2
  <1>4. \A z \in S : n <= b - z
    BY <1>2
  <1>5. \A z \in S : z <= y
    <2> HIDE DEF T
    <2> QED
      BY <1>3, <1>4
  <1> QED
    BY <1>3, <1>5 DEF Max

\* An element that none exceeds is the greatest.
LEMMA MaxOf ==
  ASSUME NEW S, \A x \in S : x \in Int, NEW g \in S, \A x \in S : x <= g
  PROVE  Max(S) = g
  <1>1. g \in Int /\ S # {}
    OBVIOUS
  <1>2. Max(S) \in S /\ \A x \in S : x <= Max(S)
    BY <1>1, MaxIs
  <1>3. PICK h \in Int : h = Max(S) /\ h <= g /\ g <= h
    BY <1>2
  <1> QED
    BY <1>1, <1>3

\* How many elements of a set are below one: the rows before a row.
Below(S, t) == Cardinality({u \in S : u < t})

\* The elements of a finite set of times are numbered in their order.
LEMMA NthIs ==
  ASSUME NEW S, IsFiniteSet(S), \A x \in S : x \in Nat
  PROVE  /\ Cardinality(S) \in Nat
         /\ \A t \in S : Below(S, t) \in 0..(Cardinality(S) - 1)
         /\ \A t, u \in S : t < u => Below(S, t) < Below(S, u)
         /\ \A n \in 1..Cardinality(S) : \E t \in S : Below(S, t) = n - 1
  <1> DEFINE c == Cardinality(S)
             B(t) == {u \in S : u < t}
  <1>1. c \in Nat
    BY FS_CardinalityType
  <1>2. ASSUME NEW t PROVE IsFiniteSet(B(t)) /\ Below(S, t) = Cardinality(B(t)) /\ Below(S, t) \in Nat
    <2>1. IsFiniteSet(B(t))
      BY FS_Subset
    <2> QED
      BY <2>1, FS_CardinalityType DEF Below
  <1>3. ASSUME NEW t \in S PROVE Below(S, t) \in 0..(c - 1)
    <2>1. B(t) \in SUBSET S /\ t \notin B(t) /\ t \in S
      OBVIOUS
    <2> HIDE DEF B
    <2>2. Cardinality(B(t)) <= c /\ Cardinality(B(t)) # c
      BY <2>1, FS_Subset
    <2> QED
      BY <1>1, <1>2, <2>2
  <1>4. ASSUME NEW t \in S, NEW u \in S, t < u PROVE Below(S, t) < Below(S, u)
    <2>1. B(t) \in SUBSET B(u) /\ t \in B(u) /\ t \notin B(t)
      BY <1>4
    <2> HIDE DEF B
    <2>2. Cardinality(B(t)) <= Cardinality(B(u)) /\ Cardinality(B(t)) # Cardinality(B(u))
      BY <1>2, <2>1, FS_Subset
    <2> QED
      BY <1>2, <2>2
  <1>5. \A n \in 1..c : \E t \in S : Below(S, t) = n - 1
    <2> DEFINE f == [t \in S |-> Below(S, t)]
    <2>1. f \in [S -> 0..(c - 1)]
      BY <1>3
    <2>2. \A t, u \in S : f[t] = f[u] => t = u
      <3> SUFFICES ASSUME NEW t \in S, NEW u \in S, f[t] = f[u], t # u PROVE FALSE
        OBVIOUS
      <3>1. t < u \/ u < t
        OBVIOUS
      <3>2. Below(S, t) = Below(S, u) /\ Below(S, t) \in Nat
        BY <1>2
      <3> QED
        BY <1>4, <3>1, <3>2
    <2>3. f \in Injection(S, 0..(c - 1))
      <3> HIDE DEF f, c
      <3>1. DOMAIN f = S
        BY <2>1
      <3>2. IsInjective(f)
        BY <2>2, <3>1 DEF IsInjective
      <3> QED
        BY <2>1, <3>2 DEF Injection
    <2>4. IsFiniteSet(0..(c - 1)) /\ Cardinality(0..(c - 1)) = c
      BY <1>1, FS_Interval
    <2>5. f \in Surjection(S, 0..(c - 1))
      <3> HIDE DEF f
      <3> QED
        BY <2>3, <2>4, FS_Injection
    <2>6. \A m \in 0..(c - 1) : \E t \in S : f[t] = m
      <3> HIDE DEF f
      <3> QED
        BY <2>5 DEF Surjection
    <2> QED
      <3> SUFFICES ASSUME NEW n \in 1..c PROVE \E t \in S : Below(S, t) = n - 1
        OBVIOUS
      <3>1. n - 1 \in 0..(c - 1)
        BY <1>1
      <3> QED
        BY <2>6, <3>1
  <1> QED
    BY <1>1, <1>3, <1>4, <1>5

----------------------------------------------------------------------------
(* The source.                                                             *)

\* The link and the replay the run is of.
Chosen == link \in Links /\ replay \in Replays

LEMMA WindowIs ==
  ASSUME Chosen
  PROVE  /\ Start \in Nat /\ End \in Nat \ {0} /\ Start + 3 * End <= Span /\ Span \in Nat
         /\ replay.interval \in Nat \ {0} /\ replay.queue \in Nat \ {0} /\ replay.rounding \in -1..1 /\ replay.fault \in Faults
  <1>1. replay \in [start : Nat, duration : Nat \ {0}, interval : Nat \ {0}, queue : Nat \ {0}, rounding : -1..1, fault : Faults]
    BY PacketReplayAssumption DEF PacketReplayAssumption, Chosen
  <1>2. 3 * (replay.start + replay.duration) <= Span /\ Span \in Nat
    BY PacketReplayAssumption DEF PacketReplayAssumption, Chosen
  <1>3. replay.start \in Nat /\ replay.duration \in Nat \ {0}
    BY <1>1
  <1> QED
    BY <1>1, <1>2, <1>3 DEF Start, End

LEMMA LinkIs ==
  ASSUME Chosen
  PROVE  /\ Grid \subseteq 0..Span
         /\ \A p \in link.passes : p.start \in 0..Span /\ p.end \in 0..Span /\ p.truncated \in BOOLEAN
         /\ \A s \in link.segments : s.start \in 0..Span /\ s.end \in 0..Span /\ s.rate \in Nat
         /\ \A s, t \in link.segments : s = t \/ s.end <= t.start \/ t.end <= s.start
         /\ \A s \in link.segments : s.rate > 0 => Serialization[s.rate] \in Nat \ {0} /\ SerializationOf(s.rate) >= 1
  <1>1. /\ link.passes \subseteq [start : 0..Span, end : 0..Span, truncated : BOOLEAN]
        /\ link.segments \subseteq [start : 0..Span, end : 0..Span, rate : Nat]
        /\ \A s, t \in link.segments : s = t \/ s.end <= t.start \/ t.end <= s.start
        /\ Grid \subseteq 0..Span
    BY PacketReplayAssumption DEF PacketReplayAssumption, Chosen
  <1>2. \A s \in link.segments : s.rate > 0 => Serialization[s.rate] \in Nat \ {0} /\ Serialization[s.rate] + replay.rounding >= 1
    BY PacketReplayAssumption DEF PacketReplayAssumption, Chosen
  <1>3. \A p \in link.passes : p.start \in 0..Span /\ p.end \in 0..Span /\ p.truncated \in BOOLEAN
    BY <1>1
  <1>4. \A s \in link.segments : s.start \in 0..Span /\ s.end \in 0..Span /\ s.rate \in Nat
    BY <1>1
  <1> QED
    BY <1>1, <1>2, <1>3, <1>4 DEF SerializationOf

\* The delay is asked for inside the results.
LEMMA QueryIs ==
  ASSUME Chosen, NEW h \in 0..Span, PassAt(h) # {}
  PROVE  QueryTime(h) \in 0..Span
  <1> DEFINE p == CHOOSE p \in PassAt(h) : TRUE
             w == {p.start, p.end - Tolerance}
             last == IF p.truncated THEN p.end ELSE Max(w)
  <1>1. p \in link.passes /\ p.start <= h
    BY DEF PassAt
  <1>2. p.start \in 0..Span /\ p.end \in 0..Span /\ Tolerance \in Nat /\ Span \in Nat
    BY <1>1, LinkIs, WindowIs, PacketReplayAssumption DEF PacketReplayAssumption
  <1>3. last \in Nat
    <2>1. Max(w) \in w /\ p.start <= Max(w)
      <3>1. (\A x \in w : x \in Int) /\ (\A x \in w : x <= Span) /\ w # {} /\ Span \in Int /\ p.start \in w
        BY <1>2
      <3> HIDE DEF w
      <3> QED
        BY <3>1, MaxIs
    <2>2. Max(w) \in Int
      BY <1>2, <2>1
    <2> HIDE DEF w
    <2> QED
      BY <1>2, <2>1, <2>2
  <1>4. QueryTime(h) = Min({h, last})
    BY DEF QueryTime
  <1> HIDE DEF last
  <1>5. Min({h, last}) \in {h, last} /\ Min({h, last}) <= h
    <2>1. \E x \in {h, last} : \A y \in {h, last} : x <= y
      BY <1>3
    <2> QED
      BY <2>1 DEF Min
  <1> QED
    BY <1>2, <1>3, <1>4, <1>5

\* Only one segment holds a time.
LEMMA SegmentIs ==
  ASSUME Chosen, NEW h \in 0..Span
  PROVE  /\ SegmentRate(h) # 0 => \E s \in link.segments : SegmentRate(h) = s.rate
         /\ \A s \in link.segments : s.start <= h /\ h < s.end => SegmentRate(h) = s.rate
         /\ (h < Span /\ \A s \in link.segments : ~(s.start <= h /\ h < s.end)) => SegmentRate(h) = 0
  <1> DEFINE H == {s \in link.segments : s.start <= h /\ (h < s.end \/ (h = s.end /\ h = Span /\ s.start < h))}
             c == CHOOSE s \in H : \A r \in H : r.start <= s.start
  <1>1. SegmentRate(h) = IF H = {} THEN 0 ELSE c.rate
    BY DEF SegmentRate
  <1>2. \A s, t \in H : s = t
    <2> SUFFICES ASSUME NEW s \in H, NEW t \in H PROVE s = t
      OBVIOUS
    <2>1. s.start \in 0..Span /\ s.end \in 0..Span /\ t.start \in 0..Span /\ t.end \in 0..Span
      BY LinkIs
    <2>2. s = t \/ s.end <= t.start \/ t.end <= s.start
      BY LinkIs
    <2>3. (s.end <= t.start => FALSE) /\ (t.end <= s.start => FALSE)
      BY <2>1
    <2> QED
      BY <2>2, <2>3
  <1>3. ASSUME NEW s \in H PROVE SegmentRate(h) = s.rate
    <2>1. s.start \in Int
      BY LinkIs
    <2>2. \A r \in H : r.start <= s.start
      BY <1>2, <2>1
    <2>3. c \in H
      <3> HIDE DEF H
      <3> QED
        BY <2>2
    <2>4. c = s
      <3> HIDE DEF H, c
      <3> QED
        BY <1>2, <2>3
    <2> QED
      BY <1>1, <2>4
  <1>4. SegmentRate(h) # 0 => H # {}
    BY <1>1
  <1>5. (h < Span /\ \A s \in link.segments : ~(s.start <= h /\ h < s.end)) => H = {}
    BY WindowIs
  <1> QED
    BY <1>1, <1>3, <1>4, <1>5

\* A row's state is typed, and what it serves can be sent.
LEMMA StateIs ==
  ASSUME Chosen, NEW h \in 0..Span
  PROVE  /\ State(h).rate \in Nat /\ State(h).delay \in Nat
         /\ State(h).rate > 0 => Serialization[State(h).rate] \in Nat \ {0} /\ SerializationOf(State(h).rate) >= 1
  <1>1. CASE PassAt(h) = {}
    BY <1>1 DEF State
  <1>2. CASE PassAt(h) # {}
    <2>1. State(h).rate = SegmentRate(h) /\ State(h).delay = PathDelay[QueryTime(h)]
      BY <1>2 DEF State
    <2>2. PathDelay[QueryTime(h)] \in Nat
      BY <1>2, QueryIs, PacketReplayAssumption DEF PacketReplayAssumption
    <2>3. SegmentRate(h) = 0 \/ \E s \in link.segments : SegmentRate(h) = s.rate
      BY SegmentIs
    <2> QED
      BY <2>1, <2>2, <2>3, LinkIs
  <1> QED
    BY <1>1, <1>2

----------------------------------------------------------------------------
(* The trace.                                                              *)

\* A tick reaches half a tick past its time.
LEMMA TickIs ==
  ASSUME Chosen, NEW h \in Nat
  PROVE  /\ ToTick(h) \in Int
         /\ \A t \in Int : ToTick(h) <= t <=> h <= Start + 3 * t + 1
         /\ h >= Start => ToTick(h) >= 0
         /\ ToTick(Start) = 0
  <1>1. Start \in Nat
    BY WindowIs
  <1> DEFINE x == 2 * (h - Start) + 3
             q == x \div 6
  <1>2. x \in Int /\ q \in Int /\ 6 * q <= x /\ x < 6 * q + 6
    BY <1>1
  <1>3. ToTick(h) = q
    BY DEF ToTick
  <1>4. ASSUME NEW t \in Int PROVE q <= t <=> h <= Start + 3 * t + 1
    <2>1. x = 2 * (h - Start) + 3
      OBVIOUS
    <2> HIDE DEF x, q
    <2> QED
      BY <1>1, <1>2, <2>1
  <1>5. h >= Start => q >= 0
    BY <1>1
  <1>6. ToTick(Start) = 0
    BY <1>1 DEF ToTick
  <1> QED
    BY <1>2, <1>3, <1>4, <1>5, <1>6

\* The breakpoints that can have a row of their own, and the times of the rows.
Inside == {h \in Breakpoints : Start < h /\ h < Start + 3 * End /\ ToTick(h) < End}
Times == {0, End} \union {ToTick(h) : h \in Inside}
Held(t) == {Start} \union {h \in Inside : ToTick(h) <= t}

LEMMA BreakpointsIs ==
  ASSUME Chosen
  PROVE  /\ Breakpoints \subseteq 0..Span
         /\ \A p \in link.passes : p.start \in Breakpoints /\ p.end \in Breakpoints
         /\ \A s \in link.segments : s.start \in Breakpoints /\ s.end \in Breakpoints
  <1>1. \A i \in link.passes \union link.segments : i.start \in 0..Span /\ i.end \in 0..Span
    BY LinkIs
  <1>2. Breakpoints = Grid \union UNION {{i.start, i.end} : i \in link.passes \union link.segments}
    BY DEF Breakpoints
  <1>3. \A b \in Breakpoints : b \in Grid \/ \E i \in link.passes \union link.segments : b = i.start \/ b = i.end
    BY <1>2
  <1>4. \A i \in link.passes \union link.segments : i.start \in Breakpoints /\ i.end \in Breakpoints
    <2> TAKE i \in link.passes \union link.segments
    <2>1. {i.start, i.end} \in {{j.start, j.end} : j \in link.passes \union link.segments}
      OBVIOUS
    <2> QED
      BY <1>2, <2>1
  <1>5. Breakpoints \subseteq 0..Span
    BY <1>1, <1>3, LinkIs
  <1> QED
    BY <1>4, <1>5

\* The times of the rows are ticks of the window, and each row holds from the last of its breakpoints.
LEMMA TimesIs ==
  ASSUME Chosen
  PROVE  /\ DOMAIN RowTimes = Times
         /\ IsFiniteSet(Times) /\ 0 \in Times /\ End \in Times /\ Times \subseteq 0..End
         /\ RowTimes[End] = Start + 3 * End
         /\ \A t \in Times \ {End} :
              /\ RowTimes[t] \in Nat /\ Start <= RowTimes[t] /\ RowTimes[t] < Start + 3 * End
              /\ RowTimes[t] <= Start + 3 * t + 1
              /\ \A h \in Inside : ToTick(h) <= t => h <= RowTimes[t]
  <1>1. Start \in Nat /\ End \in Nat \ {0}
    BY WindowIs
  <1>2. Inside \subseteq Nat
    BY BreakpointsIs DEF Inside
  <1>3. RowTimes = [t \in Times |-> IF t = End THEN Start + 3 * End ELSE Max(Held(t))]
    BY DEF RowTimes, Times, Held, Inside
  <1>4. Times \subseteq 0..End
    <2> SUFFICES ASSUME NEW h \in Inside PROVE ToTick(h) \in 0..End
      BY <1>1 DEF Times
    <2>1. h \in Nat /\ Start < h /\ ToTick(h) < End
      BY <1>2 DEF Inside
    <2> QED
      BY <1>1, <2>1, TickIs
  <1>5. IsFiniteSet(Times)
    <2>1. IsFiniteSet(0..End)
      BY <1>1, FS_Interval
    <2> QED
      BY <1>4, <2>1, FS_Subset
  <1>6. ASSUME NEW t \in Times \ {End}
        PROVE  /\ RowTimes[t] \in Nat /\ Start <= RowTimes[t] /\ RowTimes[t] < Start + 3 * End
               /\ RowTimes[t] <= Start + 3 * t + 1
               /\ \A h \in Inside : ToTick(h) <= t => h <= RowTimes[t]
    <2>1. RowTimes[t] = Max(Held(t))
      BY <1>3
    <2>2. t \in 0..End
      BY <1>4
    <2>3. \A h \in Held(t) : h \in Nat /\ Start <= h /\ h < Start + 3 * End /\ h <= Start + 3 * t + 1
      <3> TAKE h \in Held(t)
      <3>1. CASE h = Start
        BY <1>1, <2>2, <3>1
      <3>2. CASE h \in Inside /\ ToTick(h) <= t
        <4>1. h \in Nat /\ Start < h /\ h < Start + 3 * End
          BY <1>2, <3>2 DEF Inside
        <4>2. h <= Start + 3 * t + 1
          BY <2>2, <3>2, <4>1, TickIs
        <4> QED
          BY <1>1, <4>1, <4>2
      <3> QED
        BY <3>1, <3>2 DEF Held
    <2>4. Max(Held(t)) \in Held(t) /\ \A h \in Held(t) : h <= Max(Held(t))
      <3>1. Held(t) # {} /\ Start + 3 * End \in Int
        BY <1>1 DEF Held
      <3>2. (\A h \in Held(t) : h \in Int) /\ \A h \in Held(t) : h <= Start + 3 * End
        BY <1>1, <2>3
      <3> QED
        BY <3>1, <3>2, MaxIs
    <2>5. \A h \in Inside : ToTick(h) <= t => h \in Held(t)
      BY DEF Held
    <2> QED
      BY <2>1, <2>3, <2>4, <2>5
  <1> QED
    BY <1>1, <1>3, <1>4, <1>5, <1>6 DEF Times

\* What the parser and the simulator are given: typed rows that ascend from zero to the window's end.
Prepared ==
  /\ rows \in Seq([time : Nat, rate : Nat, delay : Nat])
  /\ Len(rows) >= 2 /\ rows[1].time = 0 /\ rows[Len(rows)].time = End
  /\ \A m, n \in 1..Len(rows) : m < n => rows[m].time < rows[n].time
  /\ \A n \in 1..Len(rows) : Available(rows[n]) =>
       Serialization[rows[n].rate] \in Nat \ {0} /\ SerializationOf(rows[n].rate) >= 1

\* Every time has one row, which is the link's state at that row's breakpoint.
LEMMA TraceIs ==
  ASSUME Chosen, rows = Trace
  PROVE  /\ Prepared
         /\ \A n \in 1..Len(rows) : rows[n].time \in Times /\ rows[n].rate = State(RowTimes[rows[n].time]).rate
         /\ \A t \in Times : \E n \in 1..Len(rows) : rows[n].time = t
  <1> DEFINE c == Cardinality(Times)
             S == [time : Nat, rate : Nat, delay : Nat]
             At(n) == CHOOSE t \in Times : Below(Times, t) = n - 1
  <1>1. IsFiniteSet(Times) /\ 0 \in Times /\ End \in Times /\ Times \subseteq 0..End /\ (\A x \in Times : x \in Nat)
        /\ End \in Nat \ {0}
    BY TimesIs, WindowIs
  <1>2. /\ c \in Nat
        /\ \A t \in Times : Below(Times, t) \in 0..(c - 1)
        /\ \A t, u \in Times : t < u => Below(Times, t) < Below(Times, u)
        /\ \A n \in 1..c : \E t \in Times : Below(Times, t) = n - 1
    BY <1>1, NthIs
  <1>3. \A n \in 1..c : At(n) \in Times /\ Below(Times, At(n)) = n - 1
    BY <1>2
  <1>4. \A n : Row(n) = [time |-> At(n), rate |-> State(RowTimes[At(n)]).rate, delay |-> State(RowTimes[At(n)]).delay]
    BY TimesIs DEF Row, Below
  <1>5. rows = [n \in 1..c |-> Row(n)]
    BY TimesIs DEF Trace
  <1>6. ASSUME NEW t \in Times PROVE RowTimes[t] \in 0..Span
    <2>1. CASE t = End
      BY <2>1, TimesIs, WindowIs
    <2>2. CASE t # End
      BY <2>2, TimesIs, WindowIs
    <2> QED
      BY <2>1, <2>2
  <1>7. ASSUME NEW n \in 1..c
        PROVE  /\ Row(n) \in S /\ Row(n).time = At(n) /\ Row(n).rate = State(RowTimes[At(n)]).rate
               /\ Available(Row(n)) => Serialization[Row(n).rate] \in Nat \ {0} /\ SerializationOf(Row(n).rate) >= 1
    <2> DEFINE a == At(n)
               s == State(RowTimes[a])
    <2>1. a \in Nat /\ RowTimes[a] \in 0..Span
      BY <1>1, <1>3, <1>6
    <2>2. /\ s.rate \in Nat /\ s.delay \in Nat
          /\ s.rate > 0 => Serialization[s.rate] \in Nat \ {0} /\ SerializationOf(s.rate) >= 1
      BY <2>1, StateIs
    <2>3. Row(n) = [time |-> a, rate |-> s.rate, delay |-> s.delay]
      BY <1>4
    <2> HIDE DEF a, s
    <2>4. Row(n) \in S /\ Row(n).time = a /\ Row(n).rate = s.rate
      BY <2>1, <2>2, <2>3
    <2> QED
      BY <2>2, <2>4 DEF Available, a, s
  <1>8. rows \in Seq(S) /\ Len(rows) = c /\ \A n \in 1..c : rows[n] = Row(n)
    <2>1. rows \in [1..c -> S]
      BY <1>5, <1>7
    <2> HIDE DEF S, c
    <2>2. rows \in Seq(S) /\ Len(rows) = c
      BY <1>2, <2>1
    <2> QED
      BY <1>5, <2>2 DEF c
  <1>9. ASSUME NEW m \in 1..c, NEW n \in 1..c, m < n PROVE rows[m].time < rows[n].time
    <2>1. At(m) \in Nat /\ At(n) \in Nat /\ At(m) \in Times /\ At(n) \in Times
      BY <1>1, <1>3
    <2>2. Below(Times, At(m)) = m - 1 /\ Below(Times, At(n)) = n - 1
      BY <1>3
    <2> HIDE DEF At
    <2>3. ~(At(n) < At(m)) /\ At(m) # At(n)
      BY <1>2, <1>9, <2>1, <2>2
    <2> QED
      BY <1>7, <1>8, <2>1, <2>3
  <1>10. \A t \in Times : \E n \in 1..c : At(n) = t
    <2> SUFFICES ASSUME NEW t \in Times PROVE \E n \in 1..c : At(n) = t
      OBVIOUS
    <2> DEFINE n == Below(Times, t) + 1
    <2>1. n \in 1..c /\ n - 1 = Below(Times, t)
      BY <1>2
    <2>2. At(n) \in Times /\ Below(Times, At(n)) = Below(Times, t)
      BY <1>3, <2>1
    <2> HIDE DEF At, n
    <2>3. At(n) \in Nat /\ t \in Nat
      BY <1>1, <2>2
    <2>4. Below(Times, t) \in Int
      BY <1>2
    <2>5. At(n) = t
      BY <1>2, <2>2, <2>3, <2>4
    <2> QED
      BY <2>1, <2>5
  <1>11. \A t \in Times : \E n \in 1..c : rows[n].time = t
    BY <1>7, <1>8, <1>10
  <1>12. c >= 2 /\ rows[1].time = 0 /\ rows[c].time = End
    <2>1. PICK a \in 1..c : rows[a].time = 0
      BY <1>1, <1>11
    <2>2. PICK b \in 1..c : rows[b].time = End
      BY <1>1, <1>11
    <2>3. a # b /\ c >= 2
      <3>1. a # b
        BY <1>1, <2>1, <2>2
      <3> HIDE DEF c
      <3> QED
        BY <1>2, <3>1
    <2>4. 1 \in 1..c /\ c \in 1..c
      <3> HIDE DEF c
      <3> QED
        BY <1>2, <2>3
    <2>5. \A n \in 1..c : rows[n].time \in 0..End
      BY <1>1, <1>3, <1>7, <1>8
    <2>6. a = 1
      <3>1. ~(1 < a)
        BY <1>9, <2>1, <2>4, <2>5
      <3> QED
        BY <3>1
    <2>7. b = c
      <3>1. ~(b < c)
        BY <1>1, <1>9, <2>2, <2>4, <2>5
      <3> QED
        BY <1>2, <3>1
    <2> QED
      BY <2>1, <2>2, <2>3, <2>6, <2>7
  <1>13. \A n \in 1..c : rows[n].time \in Times /\ rows[n].rate = State(RowTimes[rows[n].time]).rate
    BY <1>3, <1>7, <1>8
  <1>14. Prepared
    BY <1>7, <1>8, <1>9, <1>12 DEF Prepared
  <1> QED
    BY <1>8, <1>11, <1>13, <1>14

\* What the rows are, one by one.
LEMMA RowsIs ==
  ASSUME Prepared
  PROVE  /\ Len(rows) \in Nat /\ Len(rows) >= 2 /\ DOMAIN rows = 1..Len(rows)
         /\ \A n \in 1..Len(rows) : rows[n].time \in Nat /\ rows[n].rate \in Nat /\ rows[n].delay \in Nat
         /\ \A m, n \in 1..Len(rows) : m < n => rows[m].time < rows[n].time
         /\ \A m, n \in 1..Len(rows) : m <= n => rows[m].time <= rows[n].time
         /\ rows[1].time = 0 /\ rows[Len(rows)].time = End
  <1> DEFINE S == [time : Nat, rate : Nat, delay : Nat]
  <1>1. rows \in Seq(S)
    BY DEF Prepared
  <1>2. Len(rows) \in Nat /\ DOMAIN rows = 1..Len(rows) /\ \A n \in 1..Len(rows) : rows[n] \in S
    <2> HIDE DEF S
    <2> QED
      BY <1>1
  <1>3. \A n \in 1..Len(rows) : rows[n].time \in Nat /\ rows[n].rate \in Nat /\ rows[n].delay \in Nat
    BY <1>2
  <1>4. Len(rows) >= 2 /\ rows[1].time = 0 /\ rows[Len(rows)].time = End
        /\ \A m, n \in 1..Len(rows) : m < n => rows[m].time < rows[n].time
    BY DEF Prepared
  <1>5. ASSUME NEW m \in 1..Len(rows), NEW n \in 1..Len(rows), m <= n PROVE rows[m].time <= rows[n].time
    <2>1. CASE m = n
      BY <1>3, <2>1
    <2>2. CASE m < n
      BY <1>3, <1>4, <2>2
    <2> QED
      BY <1>5, <2>1, <2>2
  <1> QED
    BY <1>2, <1>3, <1>4, <1>5

\* The row held at a time is the last that has begun.
LEMMA RowAtIs ==
  ASSUME Prepared, NEW t \in Nat, NEW n \in 1..Len(rows), rows[n].time <= t, n < Len(rows) => t < rows[n + 1].time
  PROVE  RowAt(t) = rows[n]
  <1> DEFINE B == {m \in DOMAIN rows : rows[m].time <= t}
  <1>1. Len(rows) \in Nat /\ DOMAIN rows = 1..Len(rows) /\ \A m \in 1..Len(rows) : rows[m].time \in Nat
    BY RowsIs
  <1>2. n \in B /\ \A m \in B : m \in Int
    BY <1>1
  <1>3. ASSUME NEW m \in B PROVE m <= n
    <2> SUFFICES ASSUME n < m PROVE FALSE
      BY <1>1
    <2>1. n + 1 \in 1..Len(rows) /\ m \in 1..Len(rows) /\ rows[m].time <= t
      BY <1>1
    <2>2. rows[n + 1].time <= rows[m].time
      BY <1>1, <2>1, RowsIs
    <2> QED
      BY <1>1, <2>1, <2>2
  <1>4. Max(B) = n
    <2> HIDE DEF B
    <2> QED
      BY <1>2, <1>3, MaxOf
  <1> QED
    BY <1>4 DEF RowAt

\* There is a row held at every time, and it is an outage's or not until the next begins.
LEMMA RowHeld ==
  ASSUME Prepared, NEW t \in Nat
  PROVE  \E n \in 1..Len(rows) : /\ RowAt(t) = rows[n] /\ rows[n].time <= t
                                 /\ n < Len(rows) => t < rows[n + 1].time
  <1> DEFINE B == {m \in DOMAIN rows : rows[m].time <= t}
  <1>1. Len(rows) \in Nat /\ Len(rows) >= 2 /\ DOMAIN rows = 1..Len(rows) /\ rows[1].time = 0
        /\ \A m \in 1..Len(rows) : rows[m].time \in Nat
    BY RowsIs
  <1>2. 1 \in B /\ (\A m \in B : m \in Int) /\ (\A m \in B : m <= Len(rows)) /\ B # {} /\ Len(rows) \in Int
    BY <1>1
  <1>3. Max(B) \in B /\ \A m \in B : m <= Max(B)
    <2> HIDE DEF B
    <2> QED
      BY <1>2, MaxIs
  <1>4. Max(B) \in 1..Len(rows) /\ rows[Max(B)].time <= t /\ RowAt(t) = rows[Max(B)]
    BY <1>1, <1>3 DEF RowAt
  <1>5. ASSUME Max(B) < Len(rows) PROVE t < rows[Max(B) + 1].time
    <2>1. Max(B) + 1 \in 1..Len(rows)
      BY <1>1, <1>4, <1>5
    <2>2. Max(B) + 1 \notin B
      <3> HIDE DEF B
      <3> QED
        BY <1>3, <1>4
    <2> QED
      BY <1>1, <2>1, <2>2
  <1> QED
    BY <1>4, <1>5

\* Between a row's breakpoint and half a tick past a time at which it is held nothing of the link changes.
LEMMA RowHolds ==
  ASSUME Chosen, rows = Trace, NEW t \in 0..(End - 1)
  PROVE  \E h \in 0..Span :
           /\ RowAt(t).rate = State(h).rate /\ h <= Start + 3 * t + 1 /\ h < Span
           /\ \A b \in Breakpoints : b <= Start + 3 * t + 1 => b <= h
  <1>1. Start \in Nat /\ End \in Nat \ {0} /\ Start + 3 * End <= Span /\ Span \in Nat /\ t \in Nat /\ t < End
    BY WindowIs
  <1>2. Prepared
    BY TraceIs
  <1>3. PICK n \in 1..Len(rows) : RowAt(t) = rows[n] /\ rows[n].time <= t /\ (n < Len(rows) => t < rows[n + 1].time)
    BY <1>1, <1>2, RowHeld
  <1> DEFINE u == rows[n].time
             h == RowTimes[u]
  <1>4. u \in Times /\ u # End /\ u \in Nat /\ RowAt(t).rate = State(h).rate
    <2>1. u \in Times /\ rows[n].rate = State(h).rate
      BY TraceIs
    <2>2. u \in Nat
      BY <1>2, RowsIs
    <2>3. u < End
      BY <1>1, <1>3, <2>2
    <2> QED
      BY <1>1, <1>3, <2>1, <2>2, <2>3
  <1>5. /\ h \in Nat /\ Start <= h /\ h < Start + 3 * End /\ h <= Start + 3 * u + 1
        /\ \A b \in Inside : ToTick(b) <= u => b <= h
    BY <1>4, TimesIs
  <1>a. u <= t
    BY <1>3
  <1> HIDE DEF h, u
  <1>6. h \in 0..Span /\ h < Span /\ h <= Start + 3 * t + 1
    BY <1>1, <1>a, <1>4, <1>5
  <1>7. ASSUME NEW b \in Breakpoints, b <= Start + 3 * t + 1 PROVE b <= h
    <2>1. b \in Nat
      BY BreakpointsIs
    <2>2. CASE b <= Start
      BY <1>1, <1>5, <2>1, <2>2
    <2>3. CASE Start < b
      <3>1. ToTick(b) \in Int /\ ToTick(b) <= t
        BY <1>1, <1>7, <2>1, TickIs
      <3>2. b < Start + 3 * End
        BY <1>1, <1>7, <2>1
      <3>3. b \in Inside
        BY <1>1, <2>3, <3>1, <3>2 DEF Inside
      <3>4. PICK m \in 1..Len(rows) : rows[m].time = ToTick(b)
        BY <3>3, TraceIs DEF Times
      <3>5. m <= n
        <4> SUFFICES ASSUME n < m PROVE FALSE
          BY <1>2, RowsIs
        <4>1. n + 1 \in 1..Len(rows) /\ n + 1 <= m /\ t < rows[n + 1].time /\ rows[n + 1].time \in Nat
          BY <1>2, <1>3, RowsIs
        <4>2. rows[n + 1].time <= rows[m].time
          BY <1>2, <4>1, RowsIs
        <4> QED
          BY <1>1, <3>1, <3>4, <4>1, <4>2
      <3>6. ToTick(b) <= u
        BY <1>2, <3>4, <3>5, RowsIs DEF u
      <3> QED
        BY <1>5, <3>3, <3>6
    <2> QED
      BY <1>1, <2>1, <2>2, <2>3
  <1> QED
    BY <1>4, <1>6, <1>7

LEMMA TraceHeld == ASSUME Chosen, rows = Trace PROVE TraceHolds
  <1>1. End \in Nat \ {0} /\ Start \in Nat /\ Span \in Nat
    BY WindowIs
  <1>2. rows[1].time = 0 /\ rows[Len(rows)].time = End
    BY TraceIs DEF Prepared
  <1>3. ASSUME NEW t \in 0..(End - 1)
        PROVE  LET h == Start + 3 * t + 1
                   held == {s \in link.segments : s.start <= h /\ h < s.end /\ \E p \in link.passes : p.start <= h /\ h < p.end}
               IN RowAt(t).rate = Max({0} \union {s.rate : s \in held})
    <2> DEFINE g == Start + 3 * t + 1
               held == {s \in link.segments : s.start <= g /\ g < s.end /\ \E p \in link.passes : p.start <= g /\ g < p.end}
               M == {0} \union {s.rate : s \in held}
    <2>1. PICK h \in 0..Span :
            /\ RowAt(t).rate = State(h).rate /\ h <= Start + 3 * t + 1 /\ h < Span
            /\ \A b \in Breakpoints : b <= Start + 3 * t + 1 => b <= h
      BY RowHolds
    <2>2. g \in Nat
      BY <1>1
    <2>3. \A b \in Breakpoints : b <= g <=> b <= h
      BY <2>1, <2>2, BreakpointsIs
    <2>4. ASSUME NEW b \in Breakpoints PROVE b \in Nat /\ (g < b <=> h < b)
      BY <2>2, <2>3, BreakpointsIs
    <2>5. \A p \in link.passes : (p.start <= g /\ g < p.end) <=> (p.start <= h /\ h < p.end)
      BY <2>3, <2>4, BreakpointsIs
    <2>6. \A s \in link.segments : (s.start <= g /\ g < s.end) <=> (s.start <= h /\ h < s.end)
      BY <2>3, <2>4, BreakpointsIs
    <2>7. PassAt(h) = {p \in link.passes : p.start <= h /\ h < p.end}
      BY <2>1 DEF PassAt
    <2> HIDE DEF g
    <2>8. CASE PassAt(h) = {}
      <3>1. held = {}
        BY <2>5, <2>7, <2>8
      <3>2. M = {0}
        BY <3>1
      <3>3. State(h).rate = 0
        BY <2>8 DEF State
      <3>4. Max({0}) = 0
        BY MaxOf
      <3> QED
        BY <2>1, <3>2, <3>3, <3>4 DEF g
    <2>9. CASE PassAt(h) # {}
      <3>1. held = {s \in link.segments : s.start <= h /\ h < s.end}
        BY <2>5, <2>6, <2>7, <2>9
      <3>2. State(h).rate = SegmentRate(h)
        BY <2>9 DEF State
      <3>3. CASE held = {}
        <4>1. SegmentRate(h) = 0
          BY <2>1, <3>1, <3>3, SegmentIs
        <4>2. M = {0} /\ Max({0}) = 0
          BY <3>3, MaxOf
        <4> QED
          BY <2>1, <3>2, <4>1, <4>2 DEF g
      <3>4. CASE held # {}
        <4>1. \A s \in held : SegmentRate(h) = s.rate /\ s.rate \in Nat
          BY <3>1, SegmentIs, LinkIs
        <4> DEFINE r == SegmentRate(h)
        <4>2. M = {0, r} /\ r \in Nat
          BY <3>4, <4>1
        <4>3. Max({0, r}) = r
          <5>1. (\A x \in {0, r} : x \in Int) /\ r \in {0, r} /\ (\A x \in {0, r} : x <= r)
            BY <4>2
          <5> QED
            BY <5>1, MaxOf
        <4> QED
          BY <2>1, <3>2, <4>2, <4>3 DEF g
      <3> QED
        BY <3>3, <3>4
    <2> QED
      BY <2>8, <2>9
  <1> QED
    BY <1>2, <1>3 DEF TraceHolds

----------------------------------------------------------------------------
(* The simulation.                                                         *)

Statuses == {"outage_suppressed", "queue_drop", "outage_queue_drop", "end_of_window_drop", "unresolved",
             "rx_outage_drop", "received", "received_after_window"}
Records == [udp : Int, phy : Int, rx : Int, serialization : Int, delay : Int, status : Statuses]

\* The simulator is between the row it has applied and the next, and between two offers.
Clocks ==
  /\ now \in Nat /\ applied \in 0..Len(rows) /\ offered \in 0..Count
  /\ applied > 0 => rows[applied].time <= now
  /\ applied < Len(rows) => now <= rows[applied + 1].time /\ \A n \in 1..offered : OfferTime(n) < rows[applied + 1].time
  /\ \A n \in 1..offered : OfferTime(n) <= now
  /\ offered < Count => now <= OfferTime(offered + 1)

\* A packet was sent at the rate and delay of the row held then.
Began(p, t) ==
  /\ p.udp <= p.phy /\ p.phy <= t /\ p.phy < End
  /\ Available(RowAt(p.phy))
  /\ p.serialization = SerializationOf(RowAt(p.phy).rate) /\ p.delay = RowAt(p.phy).delay

Lost(p) == Overlaps(p.phy, p.phy + p.serialization) \/ Overlaps(p.phy + p.delay, p.rx)

\* The n-th packet's record at a time: what its status says of its times, and that one that waits is
\* queued and one that flies is yet to arrive.
Accounted(n, p, q, t) ==
  /\ IF p.status = "outage_suppressed" THEN p.udp = None /\ ~Available(RowAt(OfferTime(n)))
     ELSE p.udp = OfferTime(n) /\ Available(RowAt(OfferTime(n)))
  /\ p.phy # None => p.status \in FullTimes \union {"unresolved"} /\ Began(p, t)
  /\ p.rx # None <=> p.status \in FullTimes
  /\ p.status \in FullTimes => p.phy # None /\ p.rx = ArrivalTime(p)
  /\ p.status = "rx_outage_drop" => Lost(p)
  /\ p.status = "received" => ~Lost(p) /\ p.rx < End
  /\ p.status = "received_after_window" => ~Lost(p) /\ p.rx >= End
  /\ p.status = "outage_queue_drop" => \E o \in Outages : p.udp < o[1] /\ o[1] < End
  /\ p.status = "unresolved" => IF p.phy = None THEN \E i \in DOMAIN q : q[i] = n ELSE t <= ArrivalTime(p)

Packets ==
  /\ packets \in Seq(Records) /\ Len(packets) = offered
  /\ \A n \in 1..offered : Accounted(n, packets[n], queue, now)

\* What waits is unresolved and unsent, once each, and nothing waits in an outage.
Queued ==
  /\ queue \in Seq(1..offered)
  /\ \A i, k \in DOMAIN queue : queue[i] = queue[k] => i = k
  /\ \A i \in DOMAIN queue : packets[queue[i]].status = "unresolved" /\ packets[queue[i]].phy = None
  /\ queue # <<>> => applied \in 1..(Len(rows) - 1) /\ Available(Current)

\* One packet is offered every interval, and all of them before the window's end.
LEMMA Scaled ==
  ASSUME NEW a \in Nat, NEW b \in Nat, a <= b, NEW i \in Nat
  PROVE  a * i \in Nat /\ b * i \in Nat /\ a * i <= b * i
  <1>1. PICK d \in Nat : b = a + d
    <2>1. b - a \in Nat /\ b = a + (b - a)
      OBVIOUS
    <2> QED
      BY <2>1
  <1>2. d * i \in Nat /\ a * i \in Nat
    OBVIOUS
  <1>3. b * i = a * i + d * i
    BY <1>1
  <1> QED
    BY <1>2, <1>3

LEMMA OffersIs ==
  ASSUME Chosen
  PROVE  /\ Count \in Nat /\ OfferTime(1) = 0
         /\ \A n \in Nat \ {0} : OfferTime(n) \in Nat /\ OfferTime(n) <= OfferTime(n + 1)
         /\ \A n \in 1..Count : OfferTime(n) \in Nat /\ OfferTime(n) < End
  <1> DEFINE i == replay.interval
             c == Count
  <1>1. End \in Nat \ {0} /\ i \in Nat \ {0}
    BY WindowIs
  <1>2. c = (End + i - 1) \div i
    BY DEF Count
  <1>3. \A n : OfferTime(n) = (n - 1) * i
    BY DEF OfferTime
  <1> HIDE DEF i, c
  <1>4. c \in Nat /\ i * c <= End + i - 1
    BY <1>1, <1>2
  <1>5. ASSUME NEW n \in Nat \ {0} PROVE OfferTime(n) \in Nat /\ OfferTime(n) <= OfferTime(n + 1)
    <2>1. n - 1 \in Nat /\ n \in Nat /\ n - 1 <= n /\ i \in Nat /\ (n + 1) - 1 = n
      BY <1>1
    <2>2. (n - 1) * i \in Nat /\ (n - 1) * i <= n * i
      BY <2>1, Scaled
    <2> QED
      BY <1>3, <2>1, <2>2
  <1>6. ASSUME NEW n \in 1..c PROVE OfferTime(n) < End /\ OfferTime(n) \in Nat
    <2>1. n - 1 \in Nat /\ c - 1 \in Nat /\ n - 1 <= c - 1 /\ i \in Nat
      BY <1>1, <1>4
    <2>2. (n - 1) * i \in Nat /\ (c - 1) * i \in Nat /\ (n - 1) * i <= (c - 1) * i
      BY <2>1, Scaled
    <2>3. (c - 1) * i = i * c - i /\ i * c \in Int
      BY <1>1, <1>4
    <2> QED
      BY <1>1, <1>3, <1>4, <2>2, <2>3
  <1>7. OfferTime(1) = 0
    BY <1>1, <1>3
  <1> QED
    BY <1>4, <1>5, <1>6, <1>7 DEF c

\* An offer is before the window's end, and a row due or the end is the next row's time.
LEMMA DueIs ==
  ASSUME Chosen, Prepared, Clocks
  PROVE  /\ (RowDue \/ EndDue) => applied < Len(rows) /\ rows[applied + 1].time = now
         /\ RowDue => applied < Len(rows) - 1
         /\ EndDue => applied = Len(rows) - 1
         /\ OfferDue => now < End /\ now = OfferTime(offered + 1) /\ offered + 1 \in 1..Count
         /\ applied < Len(rows) /\ ~RowDue /\ ~EndDue => now < rows[applied + 1].time
         /\ applied < Len(rows) /\ ~RowDue /\ now < End => now < rows[applied + 1].time
         /\ applied < Len(rows) => rows[applied + 1].time \in Nat /\ rows[applied + 1].time <= End /\ applied + 1 \in 1..Len(rows)
         /\ now < End => applied < Len(rows)
  <1>1. Len(rows) \in Nat /\ Len(rows) >= 2 /\ rows[Len(rows)].time = End /\ End \in Nat \ {0}
    BY RowsIs, WindowIs
  <1>2. now \in Nat /\ applied \in 0..Len(rows) /\ offered \in 0..Count /\ Count \in Nat
    BY OffersIs DEF Clocks
  <1>3. ASSUME applied < Len(rows)
        PROVE  rows[applied + 1].time \in Nat /\ rows[applied + 1].time <= End /\ applied + 1 \in 1..Len(rows)
               /\ now <= rows[applied + 1].time
    <2>1. applied + 1 \in 1..Len(rows) /\ applied + 1 <= Len(rows) /\ Len(rows) \in 1..Len(rows)
      BY <1>1, <1>2, <1>3
    <2> QED
      BY <1>1, <1>3, <2>1, RowsIs DEF Clocks
  <1>4. RowDue => applied < Len(rows) - 1 /\ rows[applied + 1].time = now
    BY DEF RowDue
  <1>5. EndDue => applied = Len(rows) - 1 /\ applied + 1 = Len(rows) /\ now = End
    BY <1>1, <1>2 DEF EndDue
  <1>6. OfferDue => now < End /\ now = OfferTime(offered + 1) /\ offered + 1 \in 1..Count
    <2> SUFFICES ASSUME OfferDue PROVE now < End /\ now = OfferTime(offered + 1) /\ offered + 1 \in 1..Count
      OBVIOUS
    <2>1. now = OfferTime(offered + 1) /\ offered + 1 \in 1..Count
      BY <1>2 DEF OfferDue
    <2> QED
      BY <2>1, OffersIs
  <1>7. ASSUME applied < Len(rows), ~RowDue PROVE applied + 1 = Len(rows) \/ now < rows[applied + 1].time
    BY <1>1, <1>2, <1>3, <1>7 DEF RowDue
  <1>8. ASSUME applied < Len(rows), ~RowDue, now < End PROVE now < rows[applied + 1].time
    BY <1>1, <1>2, <1>3, <1>7, <1>8
  <1>9. ASSUME applied < Len(rows), ~RowDue, ~EndDue PROVE now < rows[applied + 1].time
    <2>1. CASE applied + 1 = Len(rows)
      BY <1>1, <1>2, <1>3, <1>9, <2>1 DEF EndDue
    <2> QED
      BY <1>7, <1>9, <2>1
  <1>10. now < End => applied < Len(rows)
    <2> SUFFICES ASSUME now < End, applied = Len(rows) PROVE FALSE
      BY <1>1, <1>2
    <2>1. rows[applied].time <= now
      BY <1>1 DEF Clocks
    <2> QED
      BY <1>1, <1>2, <2>1
  <1> QED
    BY <1>1, <1>2, <1>3, <1>4, <1>5, <1>6, <1>8, <1>9, <1>10

\* In the window, once its row is applied, the simulator works from the row held.
LEMMA CurrentIs ==
  ASSUME Chosen, Prepared, Clocks, ~RowDue, now < End
  PROVE  applied \in 1..(Len(rows) - 1) /\ now < rows[applied + 1].time /\ Current = RowAt(now)
  <1>1. Len(rows) \in Nat /\ Len(rows) >= 2 /\ rows[1].time = 0
    BY RowsIs
  <1>2. now \in Nat /\ applied \in 0..Len(rows)
    BY DEF Clocks
  <1>3. applied < Len(rows) /\ now < rows[applied + 1].time
    BY DueIs
  <1>4. applied # 0
    <2> SUFFICES ASSUME applied = 0 PROVE FALSE
      OBVIOUS
    <2>1. now < rows[1].time
      BY <1>3
    <2> QED
      BY <1>1, <1>2, <2>1
  <1>5. applied \in 1..Len(rows) /\ applied > 0
    BY <1>1, <1>2, <1>4
  <1>6. rows[applied].time <= now
    BY <1>5 DEF Clocks
  <1>7. RowAt(now) = rows[applied]
    BY <1>2, <1>3, <1>5, <1>6, RowAtIs
  <1> QED
    BY <1>1, <1>2, <1>3, <1>5, <1>7 DEF Current

\* What the simulation keeps: the trace and the settings.
Fixed == UNCHANGED <<link, replay, rows>>

LEMMA Stands ==
  ASSUME Fixed
  PROVE  /\ End' = End /\ Count' = Count /\ Outages' = Outages /\ (Prepared' <=> Prepared) /\ (Chosen' <=> Chosen)
         /\ \A n : OfferTime(n)' = OfferTime(n)
         /\ \A t : RowAt(t)' = RowAt(t)
         /\ \A n, p, q, t : Accounted(n, p, q, t)' <=> Accounted(n, p, q, t)
  <1> USE DEF Fixed
  <1>1. End' = End /\ Count' = Count /\ Outages' = Outages
    BY DEF End, Count, Outages, Available
  <1>2. (Prepared' <=> Prepared) /\ (Chosen' <=> Chosen)
    BY <1>1 DEF Prepared, Chosen, SerializationOf, Available
  <1>3. \A n : OfferTime(n)' = OfferTime(n)
    BY DEF OfferTime
  <1>4. \A t : RowAt(t)' = RowAt(t)
    BY DEF RowAt
  <1>5. \A a, b : Overlaps(a, b)' <=> Overlaps(a, b)
    BY <1>1 DEF Overlaps
  <1>6. \A p, t : Began(p, t)' <=> Began(p, t)
    BY <1>1, <1>4 DEF Began, SerializationOf, Available
  <1>7. \A p : Lost(p)' <=> Lost(p)
    BY <1>5 DEF Lost
  <1>8. \A p : ArrivalTime(p)' = ArrivalTime(p)
    BY DEF ArrivalTime
  <1>9. \A n, p, q, t : Accounted(n, p, q, t)' <=> Accounted(n, p, q, t)
    BY <1>1, <1>3, <1>4, <1>6, <1>7, <1>8 DEF Accounted, Available
  <1> QED
    BY <1>1, <1>2, <1>3, <1>4, <1>9

LEMMA PacketIs ==
  ASSUME Packets, NEW n \in 1..offered
  PROVE  /\ packets[n] \in Records /\ Accounted(n, packets[n], queue, now)
         /\ packets[n].udp \in Int /\ packets[n].phy \in Int /\ packets[n].rx \in Int
         /\ packets[n].serialization \in Int /\ packets[n].delay \in Int /\ packets[n].status \in Statuses
  <1>1. packets[n] \in Records
    BY DEF Packets
  <1>2. \A p \in Records : p.udp \in Int /\ p.phy \in Int /\ p.rx \in Int /\ p.serialization \in Int /\ p.delay \in Int /\ p.status \in Statuses
    BY DEF Records
  <1> QED
    BY <1>1, <1>2 DEF Packets

\* The packets of a step, one by one, are the packets after it.
LEMMA PacketsOf ==
  ASSUME Fixed, packets' \in Seq(Records), Len(packets') = offered',
         \A n \in 1..offered' : Accounted(n, packets'[n], queue', now')
  PROVE  Packets'
  BY Stands DEF Packets

\* A record stays accounted for as time passes, until it arrives, and as the queue changes around it.
LEMMA StaysAccounted ==
  ASSUME NEW n, NEW p \in Records, NEW q, NEW t \in Nat, Accounted(n, p, q, t), NEW r, NEW u \in Nat, t <= u,
         p.status = "unresolved" => IF p.phy = None THEN \E i \in DOMAIN r : r[i] = n ELSE u <= ArrivalTime(p)
  PROVE  Accounted(n, p, r, u)
  <1>1. p.phy \in Int
    BY DEF Records
  <1>2. Began(p, t) => Began(p, u)
    BY <1>1 DEF Began
  <1> QED
    BY <1>2 DEF Accounted

\* A flush: what waits is dropped, and nothing else changes.
LEMMA FlushKeeps ==
  ASSUME Fixed, Chosen, Packets, Queued, now \in Nat, UNCHANGED <<now, offered>>,
         NEW status \in {"outage_queue_drop", "end_of_window_drop"}, packets' = Flushed(status), queue' = <<>>,
         status = "outage_queue_drop" => \A n \in 1..offered : \E o \in Outages : OfferTime(n) < o[1] /\ o[1] < End
  PROVE  Packets'
  <1>1. offered \in Nat /\ Len(packets) = offered /\ DOMAIN packets = 1..offered
    BY DEF Packets
  <1>2. \A n \in 1..offered :
          packets'[n] = IF \E i \in DOMAIN queue : queue[i] = n THEN [packets[n] EXCEPT !.status = status] ELSE packets[n]
    BY <1>1 DEF Flushed
  <1>3. ASSUME NEW n \in 1..offered PROVE packets'[n] \in Records /\ Accounted(n, packets'[n], queue', now')
    <2> DEFINE p == packets[n]
    <2>1. /\ p \in Records /\ Accounted(n, p, queue, now) /\ p.status \in Statuses
          /\ p.udp \in Int /\ p.phy \in Int /\ p.rx \in Int
      BY PacketIs
    <2>2. CASE \E i \in DOMAIN queue : queue[i] = n
      <3>1. p.status = "unresolved" /\ p.phy = None
        BY <2>2 DEF Queued
      <3> DEFINE d == [p EXCEPT !.status = status]
      <3>2. packets'[n] = d
        BY <1>2, <2>2
      <3>3. d \in Records
        BY <2>1 DEF Records, Statuses
      <3>4. d.status = status /\ d.udp = p.udp /\ d.phy = p.phy /\ d.rx = p.rx
        BY <2>1 DEF Records
      <3>5. p.udp = OfferTime(n) /\ Available(RowAt(OfferTime(n))) /\ p.rx = None
        BY <2>1, <3>1 DEF Accounted, FullTimes
      <3> HIDE DEF p, d
      <3>6. Accounted(n, d, queue', now')
        BY <3>1, <3>4, <3>5 DEF Accounted, FullTimes
      <3> QED
        BY <3>2, <3>3, <3>6
    <2>3. CASE ~\E i \in DOMAIN queue : queue[i] = n
      <3>1. packets'[n] = p
        BY <1>2, <2>3
      <3>2. p.status = "unresolved" => p.phy # None /\ now <= ArrivalTime(p)
        BY <2>1, <2>3 DEF Accounted
      <3>3. Accounted(n, p, queue', now)
        <4> HIDE DEF p
        <4>1. now <= now
          OBVIOUS
        <4> QED
          BY <2>1, <3>2, <4>1, StaysAccounted
      <3> QED
        BY <2>1, <3>1, <3>3
    <2> QED
      BY <2>2, <2>3
  <1>4. packets' \in Seq(Records) /\ Len(packets') = offered
    <2>1. packets' \in [1..offered -> Records]
      BY <1>1, <1>3 DEF Flushed
    <2> QED
      BY <1>1, <2>1
  <1> QED
    BY <1>3, <1>4, PacketsOf

LEMMA EmptyQueued == ASSUME queue' = <<>>, offered' \in Nat PROVE Queued'
  BY DEF Queued

LEMMA UpdateStep ==
  ASSUME Chosen, Prepared, Clocks, Packets, Queued, Update
  PROVE  Clocks' /\ Packets' /\ Queued'
  <1>1. Fixed /\ UNCHANGED <<now, offered>> /\ RowDue /\ applied' = applied + 1
    BY DEF Update, Fixed
  <1>2. /\ applied < Len(rows) - 1 /\ rows[applied + 1].time = now /\ now \in Nat /\ applied \in 0..Len(rows)
        /\ Len(rows) \in Nat /\ offered \in 0..Count /\ Count \in Nat
    BY <1>1, DueIs, RowsIs, OffersIs DEF Clocks
  <1>3. applied + 1 \in 1..Len(rows) /\ applied + 2 \in 1..Len(rows) /\ applied + 1 < applied + 2
    BY <1>2
  <1>4. now < rows[applied + 2].time /\ rows[applied + 2].time <= End
    <2>1. rows[applied + 1].time < rows[applied + 2].time
      BY <1>3, RowsIs
    <2>2. Len(rows) \in 1..Len(rows) /\ applied + 2 <= Len(rows)
      BY <1>2
    <2>3. rows[applied + 2].time <= rows[Len(rows)].time /\ rows[Len(rows)].time = End
      BY <1>3, <2>2, RowsIs
    <2> QED
      BY <1>2, <2>1, <2>3
  <1>5. \A n \in 1..offered : OfferTime(n) < now
    BY <1>2 DEF Clocks
  <1>6. Clocks'
    <2>1. applied' \in 0..Len(rows) /\ applied' + 1 = applied + 2 /\ rows[applied'].time <= now
      BY <1>1, <1>2, <1>3
    <2>2. \A n \in 1..offered : OfferTime(n) \in Nat /\ OfferTime(n) <= now
      <3>1. \A n \in 1..offered : n \in 1..Count
        BY <1>2
      <3>2. \A n \in 1..offered : OfferTime(n) <= now
        BY DEF Clocks
      <3> QED
        BY <3>1, <3>2, OffersIs
    <2>3. \A n \in 1..offered : OfferTime(n) < rows[applied + 2].time
      BY <1>2, <1>3, <1>4, <2>2, RowsIs
    <2> QED
      BY <1>1, <1>2, <1>3, <1>4, <1>5, <2>1, <2>2, <2>3, Stands, RowsIs DEF Clocks, Fixed
  <1>7. CASE Available(rows[applied'])
    <2>1. UNCHANGED <<packets, queue>>
      BY <1>7 DEF Update
    <2>2. Packets'
      BY <1>1, <2>1, Stands DEF Packets
    <2>3. Queued'
      BY <1>1, <1>2, <1>3, <1>7, <2>1 DEF Queued, Current, Available, Fixed
    <2> QED
      BY <1>6, <2>2, <2>3
  <1>8. CASE ~Available(rows[applied'])
    <2>1. packets' = Flushed("outage_queue_drop") /\ queue' = <<>>
      BY <1>8 DEF Update
    <2>2. \A n \in 1..offered : \E o \in Outages : OfferTime(n) < o[1] /\ o[1] < End
      <3> DEFINE o == <<rows[applied + 1].time, rows[applied + 1 + 1].time>>
      <3>1. o \in Outages
        BY <1>1, <1>2, <1>8 DEF Outages
      <3>2. o[1] = now /\ now < End
        <4>1. End \in Nat /\ rows[applied + 2].time \in Nat
          BY <1>3, RowsIs, WindowIs
        <4>2. now < End
          BY <1>2, <1>4, <4>1
        <4> QED
          BY <1>2, <4>2
      <3> QED
        BY <1>5, <3>1, <3>2
    <2>3. Packets'
      BY <1>1, <1>2, <2>1, <2>2, FlushKeeps
    <2> QED
      BY <1>1, <1>2, <1>6, <2>1, <2>3, EmptyQueued
  <1> QED
    BY <1>7, <1>8

LEMMA FlushAtEndStep ==
  ASSUME Chosen, Prepared, Clocks, Packets, Queued, FlushAtEnd
  PROVE  Clocks' /\ Packets' /\ Queued'
  <1>1. Fixed /\ UNCHANGED <<now, offered>> /\ EndDue /\ applied' = applied + 1
        /\ packets' = Flushed("end_of_window_drop") /\ queue' = <<>>
    BY DEF FlushAtEnd, Fixed
  <1>2. /\ applied = Len(rows) - 1 /\ now \in Nat /\ Len(rows) \in Nat /\ Len(rows) >= 2 /\ offered \in 0..Count /\ Count \in Nat
        /\ rows[applied + 1].time = now
    BY <1>1, DueIs, RowsIs, OffersIs DEF Clocks
  <1>3. Packets'
    BY <1>1, <1>2, FlushKeeps
  <1>4. applied' = Len(rows) /\ applied' \in 0..Len(rows) /\ ~(applied' < Len(rows)) /\ rows[applied'].time <= now
    BY <1>1, <1>2
  <1>5. Clocks'
    BY <1>1, <1>4, Stands DEF Clocks, Fixed
  <1> QED
    BY <1>1, <1>2, <1>3, <1>5, EmptyQueued

\* The queue's elements are packets offered so far, and remain so.
LEMMA QueueIs ==
  ASSUME Queued, offered \in Nat
  PROVE  /\ Len(queue) \in Nat /\ DOMAIN queue = 1..Len(queue)
         /\ queue \in Seq(1..offered) /\ queue \in Seq(1..(offered + 1))
         /\ \A i \in DOMAIN queue : queue[i] \in 1..offered
  <1> DEFINE S == 1..offered
             T == 1..(offered + 1)
  <1>1. queue \in Seq(S)
    BY DEF Queued
  <1>2. S \subseteq T
    OBVIOUS
  <1> HIDE DEF S, T
  <1>3. Len(queue) \in Nat /\ DOMAIN queue = 1..Len(queue) /\ \A i \in 1..Len(queue) : queue[i] \in S
    BY <1>1, LenProperties, ElementOfSeq
  <1>4. queue \in Seq(T)
    BY <1>1, <1>2, SeqMonotonic
  <1> QED
    BY <1>1, <1>3, <1>4 DEF S, T

\* An offer adds a record, and those before it stand.
LEMMA AddKeeps ==
  ASSUME Fixed, Packets, now \in Nat, now' = now, offered' = offered + 1, NEW p \in Records, packets' = Append(packets, p),
         \A n \in 1..offered : (\E i \in DOMAIN queue : queue[i] = n) => \E i \in DOMAIN queue' : queue'[i] = n,
         Accounted(offered + 1, p, queue', now)
  PROVE  Packets' /\ (\A n \in 1..offered : packets'[n] = packets[n]) /\ packets'[offered + 1] = p
  <1>1. packets \in Seq(Records) /\ Len(packets) = offered /\ offered \in Nat
    BY DEF Packets
  <1>2. packets' \in Seq(Records) /\ Len(packets') = offered + 1
        /\ (\A n \in 1..offered : packets'[n] = packets[n]) /\ packets'[offered + 1] = p
    BY <1>1
  <1>3. ASSUME NEW n \in 1..offered PROVE Accounted(n, packets[n], queue', now)
    <2> DEFINE r == packets[n]
    <2>1. r \in Records /\ Accounted(n, r, queue, now) /\ now <= now
      BY PacketIs
    <2>2. r.status = "unresolved" => IF r.phy = None THEN \E i \in DOMAIN queue' : queue'[i] = n ELSE now <= ArrivalTime(r)
      BY <2>1 DEF Accounted
    <2> HIDE DEF r
    <2>3. Accounted(n, r, queue', now)
      BY <2>1, <2>2, StaysAccounted
    <2> QED
      BY <2>3 DEF r
  <1>4. \A n \in 1..offered' : Accounted(n, packets'[n], queue', now')
    <2> TAKE n \in 1..offered'
    <2>1. n \in 1..offered \/ n = offered + 1
      BY <1>1
    <2> QED
      BY <1>2, <1>3, <2>1
  <1> QED
    BY <1>2, <1>4, PacketsOf

\* A packet that begins now is sent at the current row's rate and delay.
LEMMA BegunIs ==
  ASSUME Chosen, Prepared, Clocks, ~RowDue, now < End, Available(Current), NEW p \in Records,
         p.status = "unresolved", p.udp \in Nat, p.udp <= now, p.rx = None
  PROVE  /\ Begun(p) \in Records /\ Begun(p).phy = now /\ Begun(p).udp = p.udp /\ Begun(p).rx = None
         /\ Begun(p).status = "unresolved" /\ Began(Begun(p), now) /\ now <= ArrivalTime(Begun(p)) /\ now # None
  <1>1. applied \in 1..(Len(rows) - 1) /\ Current = RowAt(now) /\ now \in Nat
    BY CurrentIs DEF Clocks
  <1>2. applied \in 1..Len(rows)
    BY <1>1, RowsIs
  <1>3. Current.rate \in Nat /\ Current.delay \in Nat
    BY <1>2, RowsIs DEF Current
  <1>4. Serialization[Current.rate] \in Nat \ {0} /\ SerializationOf(Current.rate) >= 1
    BY <1>2 DEF Current, Prepared
  <1>5. SerializationOf(Current.rate) \in Int
    BY <1>4, WindowIs DEF SerializationOf
  <1> DEFINE b == Begun(p)
             s == SerializationOf(Current.rate)
             d == Current.delay
  <1>6. b = [p EXCEPT !.phy = now, !.serialization = s, !.delay = d]
    BY DEF Begun
  <1>7. /\ s \in Int /\ s >= 1 /\ d \in Nat
    BY <1>3, <1>4, <1>5
  <1> HIDE DEF b, s, d
  <1>8. /\ b \in Records /\ b.phy = now /\ b.udp = p.udp /\ b.rx = None /\ b.status = "unresolved"
        /\ b.serialization = s /\ b.delay = d
    <2> DEFINE x == [p EXCEPT !.phy = now]
               y == [x EXCEPT !.serialization = s]
    <2>1. x \in Records /\ x.phy = now /\ x.udp = p.udp /\ x.rx = None /\ x.status = "unresolved"
      BY <1>1 DEF Records
    <2> HIDE DEF x
    <2>2. y \in Records /\ y.phy = now /\ y.udp = p.udp /\ y.rx = None /\ y.status = "unresolved" /\ y.serialization = s
      BY <1>7, <2>1 DEF Records
    <2>3. b = [y EXCEPT !.delay = d]
      BY <1>6 DEF x
    <2> HIDE DEF y
    <2> QED
      BY <1>7, <2>2, <2>3 DEF Records
  <1>9. Began(b, now)
    BY <1>1, <1>8 DEF Began, s, d
  <1>10. now <= ArrivalTime(b)
    BY <1>1, <1>7, <1>8 DEF ArrivalTime
  <1>11. now # None
    BY <1>1 DEF None
  <1> QED
    BY <1>8, <1>9, <1>10, <1>11 DEF b

LEMMA OfferStep ==
  ASSUME Chosen, Prepared, Clocks, Packets, Queued, Offer
  PROVE  Clocks' /\ Packets' /\ Queued'
  <1> DEFINE n == offered + 1
             fresh == [udp |-> now, phy |-> None, rx |-> None, serialization |-> 0, delay |-> 0, status |-> "unresolved"]
  <1>1. Fixed /\ UNCHANGED <<now, applied>> /\ ~RowDue /\ OfferDue /\ offered' = n
    BY DEF Offer, Fixed
  <1>2. now < End /\ now = OfferTime(n) /\ n \in 1..Count /\ now \in Nat /\ offered \in 0..Count /\ Count \in Nat
    BY <1>1, DueIs, OffersIs DEF Clocks
  <1>3. applied \in 1..(Len(rows) - 1) /\ now < rows[applied + 1].time /\ Current = RowAt(now) /\ Len(rows) \in Nat
    BY <1>1, <1>2, CurrentIs, RowsIs
  <1>4. Clocks'
    <2>1. \A m \in 1..offered' : m \in 1..offered \/ m = n
      BY <1>1, <1>2
    <2>2. \A m \in 1..offered' : OfferTime(m) <= now
      BY <1>2, <2>1 DEF Clocks
    <2>3. \A m \in 1..offered' : OfferTime(m) < rows[applied + 1].time
      BY <1>2, <1>3, <2>1 DEF Clocks
    <2>4. now <= OfferTime(n + 1)
      <3>1. n \in Nat \ {0}
        BY <1>2
      <3> QED
        BY <1>2, <3>1, OffersIs
    <2> QED
      BY <1>1, <1>2, <1>3, <2>2, <2>3, <2>4, Stands DEF Clocks, Fixed
  <1>5. offered \in Nat /\ Len(packets) = offered /\ n \in 1..(offered + 1) /\ n \notin 1..offered
    BY <1>2 DEF Packets
  <1>6. fresh \in Records /\ fresh.udp = now /\ fresh.phy = None /\ fresh.rx = None /\ fresh.status = "unresolved"
    BY <1>2 DEF Records, Statuses, None
  <1>7. queue \in Seq(1..offered) /\ \A i \in DOMAIN queue : queue[i] \in 1..offered
    BY <1>5, QueueIs
  <1>8. ASSUME NEW p \in Records, UNCHANGED queue, packets' = Append(packets, p), Accounted(n, p, queue, now)
        PROVE  Packets' /\ Queued'
    <2>1. Packets' /\ \A m \in 1..offered : packets'[m] = packets[m]
      BY <1>1, <1>2, <1>8, AddKeeps
    <2>2. queue' \in Seq(1..offered')
      BY <1>1, <1>5, <1>8, QueueIs
    <2>3. \A i \in DOMAIN queue' : packets'[queue'[i]] = packets[queue[i]]
      BY <1>7, <1>8, <2>1
    <2> QED
      BY <1>1, <1>8, <2>1, <2>2, <2>3 DEF Queued, Current, Available, Fixed
  <1> HIDE DEF n, fresh
  <1>9. CASE ~Available(Current)
    <2> DEFINE p == [fresh EXCEPT !.udp = None, !.status = "outage_suppressed"]
    <2>1. packets' = Append(packets, p) /\ UNCHANGED queue
      BY <1>9 DEF Offer, n, fresh
    <2>2. p \in Records /\ p.udp = None /\ p.phy = None /\ p.rx = None /\ p.status = "outage_suppressed"
      BY <1>6 DEF Records, Statuses, None
    <2> HIDE DEF p
    <2>3. Accounted(n, p, queue, now)
      BY <1>2, <1>3, <1>9, <2>2 DEF Accounted, FullTimes
    <2> QED
      BY <1>4, <1>8, <2>1, <2>2, <2>3
  <1>10. CASE Available(Current) /\ Len(queue) >= replay.queue
    <2> DEFINE p == [fresh EXCEPT !.status = "queue_drop"]
    <2>1. packets' = Append(packets, p) /\ UNCHANGED queue
      BY <1>10 DEF Offer, n, fresh
    <2>2. p \in Records /\ p.udp = now /\ p.phy = None /\ p.rx = None /\ p.status = "queue_drop"
      BY <1>6 DEF Records, Statuses
    <2> HIDE DEF p
    <2>3. Accounted(n, p, queue, now)
      BY <1>2, <1>3, <1>10, <2>2 DEF Accounted, FullTimes
    <2> QED
      BY <1>4, <1>8, <2>1, <2>2, <2>3
  <1>11. CASE Available(Current) /\ ~(Len(queue) >= replay.queue) /\ sending # Idle
    <2>1. packets' = Append(packets, fresh) /\ queue' = Append(queue, n)
      BY <1>11 DEF Offer, n, fresh
    <2>2. /\ queue' \in Seq(1..(offered + 1)) /\ Len(queue') = Len(queue) + 1 /\ DOMAIN queue' = 1..(Len(queue) + 1)
          /\ (\A i \in DOMAIN queue : queue'[i] = queue[i]) /\ queue'[Len(queue) + 1] = n /\ DOMAIN queue = 1..Len(queue)
          /\ Len(queue) \in Nat
      <3>1. queue \in Seq(1..(offered + 1)) /\ Len(queue) \in Nat /\ DOMAIN queue = 1..Len(queue)
        BY <1>5, QueueIs
      <3>2. n \in 1..(offered + 1)
        BY <1>5
      <3> QED
        BY <2>1, <3>1, <3>2
    <2>3. Accounted(n, fresh, queue', now)
      <3>1. \E i \in DOMAIN queue' : queue'[i] = n
        BY <2>2
      <3> QED
        BY <1>2, <1>3, <1>6, <1>11, <3>1 DEF Accounted, FullTimes
    <2>4. \A m \in 1..offered : (\E i \in DOMAIN queue : queue[i] = m) => \E i \in DOMAIN queue' : queue'[i] = m
      BY <2>2
    <2>5. Packets' /\ (\A m \in 1..offered : packets'[m] = packets[m]) /\ packets'[n] = fresh
      BY <1>1, <1>2, <1>6, <2>1, <2>3, <2>4, AddKeeps DEF n
    <2>6. \A i \in DOMAIN queue' : i \in DOMAIN queue \/ i = Len(queue) + 1
      BY <2>2
    <2>7. \A i, k \in DOMAIN queue' : queue'[i] = queue'[k] => i = k
      BY <1>5, <1>7, <2>2, <2>6 DEF Queued
    <2>8. \A i \in DOMAIN queue' : packets'[queue'[i]].status = "unresolved" /\ packets'[queue'[i]].phy = None
      BY <1>6, <1>7, <2>2, <2>5, <2>6 DEF Queued
    <2>9. applied' \in 1..(Len(rows') - 1) /\ Available(Current)'
      BY <1>1, <1>3, <1>11 DEF Fixed, Current, Available
    <2> QED
      BY <1>1, <1>4, <2>2, <2>5, <2>7, <2>8, <2>9 DEF Queued, n
  <1>12. CASE Available(Current) /\ ~(Len(queue) >= replay.queue) /\ sending = Idle
    <2>1. packets' = Append(packets, Begun(fresh)) /\ UNCHANGED queue
      BY <1>12 DEF Offer, n, fresh
    <2> DEFINE p == Begun(fresh)
    <2>2. /\ p \in Records /\ p.phy = now /\ p.udp = now /\ p.rx = None
          /\ p.status = "unresolved" /\ Began(p, now) /\ now <= ArrivalTime(p) /\ now # None
      <3>1. now <= now
        BY <1>2
      <3> QED
        BY <1>1, <1>2, <1>6, <1>12, <3>1, BegunIs
    <2> HIDE DEF p
    <2>3. Accounted(n, p, queue, now)
      BY <1>2, <1>3, <1>12, <2>2 DEF Accounted, FullTimes
    <2> QED
      BY <1>4, <1>8, <2>1, <2>2, <2>3 DEF p
  <1> QED
    BY <1>9, <1>10, <1>11, <1>12

\* A device that has sent a packet takes the next, and never in an outage or after the window.
LEMMA CompleteStep ==
  ASSUME Chosen, Prepared, Clocks, Packets, Queued, Complete
  PROVE  Clocks' /\ Packets' /\ Queued' /\ phase' = "simulate"
  <1>1. Fixed /\ UNCHANGED <<now, applied, offered>> /\ ~RowDue /\ ~EndDue /\ phase = "simulate"
    BY DEF Complete, Fixed
  <1>2. Clocks'
    BY <1>1, Stands DEF Clocks, Fixed
  <1>3. CASE queue = <<>>
    <2>1. UNCHANGED <<packets, queue, phase>>
      BY <1>3 DEF Complete
    <2>2. Packets'
      BY <1>1, <2>1, Stands DEF Packets
    <2>3. Queued'
      BY <1>1, <2>1 DEF Queued, Current, Available, Fixed
    <2> QED
      BY <1>1, <1>2, <2>1, <2>2, <2>3
  <1>4. CASE queue # <<>>
    <2>1. applied \in 1..(Len(rows) - 1) /\ Available(Current) /\ Len(rows) \in Nat /\ now \in Nat
      BY <1>4, RowsIs DEF Queued, Clocks
    <2>2. now < End
      <3>1. applied < Len(rows)
        BY <2>1
      <3>2. now < rows[applied + 1].time /\ rows[applied + 1].time <= End /\ rows[applied + 1].time \in Nat
        BY <1>1, <3>1, DueIs
      <3>3. End \in Nat
        BY WindowIs
      <3> QED
        BY <2>1, <3>2, <3>3
    <2> DEFINE h == Head(queue)
               p == packets[h]
               b == Begun(p)
    <2>3. packets' = [packets EXCEPT ![h] = b] /\ queue' = Tail(queue) /\ UNCHANGED phase
      <3>1. ~(now >= End \/ ~Available(Current))
        BY <2>1, <2>2, WindowIs
      <3> QED
        BY <1>4, <3>1 DEF Complete
    <2>4. offered \in Nat /\ Len(packets) = offered /\ packets \in Seq(Records)
      BY DEF Packets
    <2>5. /\ Len(queue) \in Nat /\ Len(queue) >= 1 /\ DOMAIN queue = 1..Len(queue) /\ queue \in Seq(1..offered)
          /\ h = queue[1] /\ (\A i \in 1..Len(queue) : queue[i] \in 1..offered)
      <3>1. Len(queue) \in Nat /\ DOMAIN queue = 1..Len(queue) /\ queue \in Seq(1..offered)
            /\ \A i \in DOMAIN queue : queue[i] \in 1..offered
        BY <2>4, QueueIs
      <3> QED
        BY <1>4, <3>1
    <2>6. /\ Tail(queue) \in Seq(1..offered) /\ Len(Tail(queue)) = Len(queue) - 1 /\ DOMAIN Tail(queue) = 1..(Len(queue) - 1)
          /\ \A i \in 1..(Len(queue) - 1) : Tail(queue)[i] = queue[i + 1]
      <3> DEFINE S == 1..offered
      <3>1. queue \in Seq(S)
        BY <2>5
      <3> HIDE DEF S
      <3>2. Tail(queue) \in Seq(S) /\ Len(Tail(queue)) = Len(queue) - 1
        BY <1>4, <3>1, HeadTailProperties
      <3>3. \A i \in 1..(Len(queue) - 1) : Tail(queue)[i] = queue[i + 1]
        BY <1>4, <2>5, <3>1
      <3>4. DOMAIN Tail(queue) = 1..(Len(queue) - 1)
        BY <3>2, LenProperties
      <3> QED
        BY <3>2, <3>3, <3>4 DEF S
    <2>7. 1 \in DOMAIN queue /\ h \in 1..offered /\ p.status = "unresolved" /\ p.phy = None
      BY <2>5 DEF Queued
    <2>8. p \in Records /\ p.udp = OfferTime(h) /\ Available(RowAt(OfferTime(h))) /\ p.rx = None /\ OfferTime(h) <= now
          /\ OfferTime(h) \in Nat
      <3>1. p \in Records /\ Accounted(h, p, queue, now)
        BY <2>7, PacketIs
      <3>2. OfferTime(h) <= now
        BY <2>7 DEF Clocks
      <3>3. h \in 1..Count
        BY <2>7, OffersIs DEF Clocks
      <3> QED
        BY <2>7, <3>1, <3>2, <3>3, OffersIs DEF Accounted, FullTimes
    <2> HIDE DEF h, p, b
    <2>9. /\ b \in Records /\ b.phy = now /\ b.udp = p.udp /\ b.rx = None
          /\ b.status = "unresolved" /\ Began(b, now) /\ now <= ArrivalTime(b) /\ now # None
      BY <1>1, <2>1, <2>2, <2>7, <2>8, BegunIs DEF b
    <2>10. /\ packets' \in Seq(Records) /\ Len(packets') = offered /\ packets'[h] = b
           /\ \A n \in 1..offered : n # h => packets'[n] = packets[n]
      BY <2>3, <2>4, <2>7, <2>9, ExceptSeq
    <2>11. ASSUME NEW n \in 1..offered PROVE Accounted(n, packets'[n], queue', now')
      <3>1. CASE n = h
        BY <1>1, <2>8, <2>9, <2>10, <3>1 DEF Accounted, FullTimes
      <3>2. CASE n # h
        <4> DEFINE r == packets[n]
        <4>1. r \in Records /\ Accounted(n, r, queue, now) /\ now <= now
          BY <2>1, PacketIs
        <4>2. (\E i \in DOMAIN queue : queue[i] = n) => \E i \in DOMAIN queue' : queue'[i] = n
          <5> SUFFICES ASSUME NEW i \in DOMAIN queue, queue[i] = n PROVE \E k \in DOMAIN queue' : queue'[k] = n
            OBVIOUS
          <5>1. i # 1
            BY <2>5, <3>2
          <5>2. i - 1 \in 1..(Len(queue) - 1) /\ (i - 1) + 1 = i
            BY <2>5, <5>1
          <5> QED
            BY <2>3, <2>6, <5>2
        <4>3. r.status = "unresolved" => IF r.phy = None THEN \E i \in DOMAIN queue' : queue'[i] = n ELSE now <= ArrivalTime(r)
          BY <4>1, <4>2 DEF Accounted
        <4> HIDE DEF r
        <4>4. Accounted(n, r, queue', now)
          BY <2>1, <4>1, <4>3, StaysAccounted
        <4> QED
          BY <1>1, <2>10, <3>2, <4>4 DEF r
      <3> QED
        BY <3>1, <3>2
    <2>12. Packets'
      BY <1>1, <2>10, <2>11, PacketsOf
    <2>13. Queued'
      <3>1. \A i \in DOMAIN queue' : i + 1 \in DOMAIN queue /\ queue'[i] = queue[i + 1] /\ queue'[i] # h /\ i \in Int
        <4> SUFFICES ASSUME NEW i \in 1..(Len(queue) - 1)
                     PROVE  i + 1 \in DOMAIN queue /\ queue'[i] = queue[i + 1] /\ queue'[i] # h /\ i \in Int
          BY <2>3, <2>6
        <4>1. i + 1 \in DOMAIN queue /\ queue'[i] = queue[i + 1] /\ i + 1 # 1 /\ i \in Int
          BY <2>3, <2>5, <2>6
        <4>2. queue[i + 1] # queue[1]
          BY <2>7, <4>1 DEF Queued
        <4> QED
          BY <2>5, <4>1, <4>2
      <3>2. \A i, k \in DOMAIN queue' : queue'[i] = queue'[k] => i = k
        <4> TAKE i, k \in DOMAIN queue'
        <4>1. queue'[i] = queue'[k] => i + 1 = k + 1
          BY <3>1 DEF Queued
        <4>2. i \in Int /\ k \in Int
          BY <3>1
        <4> QED
          BY <4>1, <4>2
      <3>3. \A i \in DOMAIN queue' : packets'[queue'[i]] = packets[queue[i + 1]]
        BY <2>5, <2>10, <3>1
      <3>4. \A i \in DOMAIN queue' : packets'[queue'[i]].status = "unresolved" /\ packets'[queue'[i]].phy = None
        BY <3>1, <3>3 DEF Queued
      <3>5. applied' \in 1..(Len(rows') - 1) /\ Available(Current)'
        BY <1>1, <2>1 DEF Fixed, Current, Available
      <3>6. queue' \in Seq(1..offered')
        BY <1>1, <2>3, <2>6
      <3> QED
        BY <3>2, <3>4, <3>5, <3>6 DEF Queued
    <2> QED
      BY <1>1, <1>2, <2>3, <2>12, <2>13
  <1> QED
    BY <1>3, <1>4

\* What arrives is received or lost, by where it overlapped an outage.
LEMMA ReceivedIs ==
  ASSUME Chosen, now \in Nat, NEW n, NEW p \in Records, NEW q, Accounted(n, p, q, now),
         p.phy # None, p.rx = None, ArrivalTime(p) = now, NEW r
  PROVE  Received(p) \in Records /\ Accounted(n, Received(p), r, now)
  <1> DEFINE lost == Overlaps(p.phy, p.phy + p.serialization) \/ Overlaps(p.phy + p.delay, now)
             s == IF lost THEN "rx_outage_drop" ELSE IF now < End THEN "received" ELSE "received_after_window"
             x == Received(p)
  <1>1. x = [p EXCEPT !.rx = now, !.status = s]
    BY DEF Received
  <1>2. s \in Statuses /\ s \in FullTimes /\ End \in Nat /\ (s = "rx_outage_drop" <=> lost)
        /\ (s = "received" => now < End) /\ (s = "received_after_window" => now >= End)
    BY WindowIs DEF Statuses, FullTimes
  <1> HIDE DEF lost, s, x
  <1>3. /\ x \in Records /\ x.rx = now /\ x.status = s /\ x.phy = p.phy /\ x.udp = p.udp
        /\ x.serialization = p.serialization /\ x.delay = p.delay
    <2> DEFINE y == [p EXCEPT !.rx = now]
    <2>1. /\ y \in Records /\ y.rx = now /\ y.phy = p.phy /\ y.udp = p.udp
          /\ y.serialization = p.serialization /\ y.delay = p.delay
      BY DEF Records
    <2>2. x = [y EXCEPT !.status = s]
      BY <1>1
    <2> HIDE DEF y
    <2> QED
      BY <1>2, <2>1, <2>2 DEF Records
  <1>4. p.status = "unresolved" /\ Began(p, now) /\ p.udp = OfferTime(n) /\ Available(RowAt(OfferTime(n)))
    BY DEF Accounted, FullTimes
  <1>5. Began(x, now)
    BY <1>3, <1>4 DEF Began
  <1>6. Lost(x) <=> lost
    BY <1>3 DEF Lost, lost
  <1>7. ArrivalTime(x) = now /\ now # None
    BY <1>3 DEF ArrivalTime, None
  <1>8. Accounted(n, x, r, now)
    BY <1>2, <1>3, <1>4, <1>5, <1>6, <1>7 DEF Accounted, FullTimes
  <1> QED
    BY <1>3, <1>8 DEF x

LEMMA ArriveStep ==
  ASSUME Chosen, Prepared, Clocks, Packets, Queued, Arrive
  PROVE  Clocks' /\ Packets' /\ Queued'
  <1>1. Fixed /\ UNCHANGED <<now, applied, offered, queue>>
        /\ packets' = [n \in DOMAIN packets |-> IF n \in Arriving THEN Received(packets[n]) ELSE packets[n]]
    BY DEF Arrive, Fixed
  <1>2. Clocks'
    BY <1>1, Stands DEF Clocks, Fixed
  <1>3. offered \in Nat /\ Len(packets) = offered /\ DOMAIN packets = 1..offered /\ now \in Nat
    BY DEF Packets, Clocks
  <1>4. \A n \in 1..offered : packets'[n] = IF n \in Arriving THEN Received(packets[n]) ELSE packets[n]
    BY <1>1, <1>3
  <1>5. ASSUME NEW n \in 1..offered PROVE packets'[n] \in Records /\ Accounted(n, packets'[n], queue', now')
    <2> DEFINE p == packets[n]
    <2>1. p \in Records /\ Accounted(n, p, queue, now)
      BY PacketIs
    <2>2. CASE n \in Arriving
      <3>1. p.phy # None /\ p.rx = None /\ ArrivalTime(p) = now
        BY <2>2 DEF Arriving
      <3> HIDE DEF p
      <3>2. Received(p) \in Records /\ Accounted(n, Received(p), queue', now)
        BY <1>3, <2>1, <3>1, ReceivedIs
      <3> QED
        BY <1>1, <1>4, <2>2, <3>2 DEF p
    <2>3. CASE n \notin Arriving
      BY <1>1, <1>4, <2>1, <2>3
    <2> QED
      BY <2>2, <2>3
  <1>6. packets' \in Seq(Records) /\ Len(packets') = offered
    <2>1. packets' \in [1..offered -> Records]
      BY <1>1, <1>3, <1>5
    <2> QED
      BY <1>3, <2>1
  <1>7. Packets'
    BY <1>1, <1>5, <1>6, PacketsOf
  <1>8. \A i \in DOMAIN queue : packets'[queue[i]] = packets[queue[i]]
    <2> TAKE i \in DOMAIN queue
    <2>1. queue[i] \in 1..offered
      BY <1>3, QueueIs
    <2>2. queue[i] \notin Arriving
      BY DEF Queued, Arriving
    <2> QED
      BY <1>4, <2>1, <2>2
  <1>9. Queued'
    <2>1. queue' = queue /\ offered' = offered /\ applied' = applied /\ rows' = rows
      BY <1>1 DEF Fixed
    <2>2. \A i \in DOMAIN queue' : packets'[queue'[i]].status = "unresolved" /\ packets'[queue'[i]].phy = None
      BY <1>8, <2>1 DEF Queued
    <2>3. Current' = Current
      BY <2>1 DEF Current
    <2> QED
      BY <2>1, <2>2, <2>3 DEF Queued, Available
  <1> QED
    BY <1>2, <1>7, <1>9

\* A finite set of naturals has a greatest element: the one that all the others are below.
LEMMA FiniteMax ==
  ASSUME NEW S, IsFiniteSet(S), \A x \in S : x \in Nat, S # {}
  PROVE  Max(S) \in S /\ \A x \in S : x <= Max(S)
  <1> DEFINE c == Cardinality(S)
  <1>1. c \in Nat /\ c # 0
    BY FS_CardinalityType, FS_EmptySet
  <1>2. PICK t \in S : Below(S, t) = c - 1
    <2>1. c \in 1..c
      BY <1>1
    <2> QED
      BY <2>1, NthIs
  <1>3. \A x \in S : x <= t
    <2> SUFFICES ASSUME NEW x \in S, t < x PROVE FALSE
      OBVIOUS
    <2>1. Below(S, t) < Below(S, x) /\ Below(S, x) \in 0..(c - 1)
      BY NthIs
    <2> HIDE DEF c
    <2> QED
      BY <1>1, <1>2, <2>1
  <1>4. Max(S) = t
    BY <1>3, MaxOf
  <1> QED
    BY <1>3, <1>4

\* The values of a function on the first naturals are finitely many.
LEMMA ImageFinite ==
  ASSUME NEW m \in Nat, NEW f, DOMAIN f = 1..m, f = [n \in 1..m |-> f[n]]
  PROVE  IsFiniteSet({f[n] : n \in 1..m})
  <1> DEFINE T == {f[n] : n \in 1..m}
  <1>1. f \in [1..m -> T] /\ \A t \in T : \E n \in 1..m : f[n] = t
    OBVIOUS
  <1>2. f \in Surjection(1..m, T)
    <2> HIDE DEF T
    <2> QED
      BY <1>1 DEF Surjection
  <1>3. IsFiniteSet(1..m)
    BY FS_Interval
  <1> HIDE DEF T
  <1>4. IsFiniteSet(T)
    BY <1>2, <1>3, FS_Surjection
  <1> QED
    BY <1>4 DEF T

\* The simulator waits for the slowest and the furthest packet of any row but the last.
LEMMA StopIs ==
  ASSUME Chosen, Prepared
  PROVE  /\ StopTime \in Nat /\ StopTime > End
         /\ \A n \in 1..(Len(rows) - 1) : Available(rows[n]) =>
              /\ SerializationOf(rows[n].rate) \in Nat
              /\ End + SerializationOf(rows[n].rate) + rows[n].delay + 1 <= StopTime
  <1> DEFINE used == {rows[n] : n \in 1..(Len(rows) - 1)}
             S == {0} \union {SerializationOf(r.rate) : r \in {s \in used : Available(s)}}
             D == {r.delay : r \in used}
             m == Len(rows) - 1
  <1>0. Len(rows) \in Nat /\ Len(rows) >= 2 /\ End \in Nat
    BY RowsIs, WindowIs
  <1>1. m \in Nat \ {0} /\ End \in Nat /\ \A n \in 1..m : n \in 1..Len(rows)
    <2> DEFINE l == Len(rows)
    <2>1. l \in Nat /\ l >= 2
      BY <1>0
    <2> HIDE DEF l
    <2>2. l - 1 \in Nat \ {0} /\ \A n \in 1..(l - 1) : n \in 1..l
      BY <2>1
    <2> QED
      BY <1>0, <2>2 DEF l
  <1>2. ASSUME NEW n \in 1..m, Available(rows[n])
        PROVE  SerializationOf(rows[n].rate) \in Nat
    <2>1. n \in 1..Len(rows)
      BY <1>1
    <2>2. Serialization[rows[n].rate] \in Nat \ {0} /\ SerializationOf(rows[n].rate) >= 1
      BY <1>2, <2>1 DEF Prepared
    <2>3. SerializationOf(rows[n].rate) = Serialization[rows[n].rate] + replay.rounding /\ replay.rounding \in -1..1
      BY WindowIs DEF SerializationOf
    <2> QED
      BY <2>2, <2>3
  <1>3. \A n \in 1..m : rows[n].delay \in Nat
    BY <1>1, RowsIs
  <1>4. IsFiniteSet(D)
    <2> DEFINE f == [n \in 1..m |-> rows[n].delay]
    <2>1. IsFiniteSet({f[n] : n \in 1..m})
      BY <1>1, ImageFinite
    <2>2. D = {f[n] : n \in 1..m}
      OBVIOUS
    <2> QED
      BY <2>1, <2>2
  <1>5. IsFiniteSet(S)
    <2> DEFINE f == [n \in 1..m |-> IF Available(rows[n]) THEN SerializationOf(rows[n].rate) ELSE 0]
               T == {f[n] : n \in 1..m}
    <2>1. IsFiniteSet(T)
      BY <1>1, ImageFinite
    <2>2. S \subseteq T \union {0}
      OBVIOUS
    <2>3. IsFiniteSet(T \union {0})
      <3> HIDE DEF T
      <3> QED
        BY <2>1, FS_AddElement
    <2> HIDE DEF S, T
    <2> QED
      BY <2>2, <2>3, FS_Subset
  <1>6. (\A x \in S : x \in Nat) /\ (\A x \in D : x \in Nat) /\ S # {} /\ D # {}
    <2>1. \A x \in S : x \in Nat
      BY <1>2
    <2>2. rows[1] \in used
      BY <1>0
    <2> QED
      BY <1>3, <2>1, <2>2
  <1>7. /\ \A n \in 1..m : rows[n].delay \in D
        /\ \A n \in 1..m : Available(rows[n]) => SerializationOf(rows[n].rate) \in S
    OBVIOUS
  <1>8. StopTime = End + Max(S) + Max(D) + 1
    BY DEF StopTime
  <1> HIDE DEF S, D
  <1>9. Max(S) \in Nat /\ Max(D) \in Nat /\ (\A x \in S : x <= Max(S)) /\ (\A x \in D : x <= Max(D))
    BY <1>4, <1>5, <1>6, FiniteMax
  <1>10. StopTime \in Nat /\ StopTime > End
    BY <1>1, <1>8, <1>9
  <1>11. ASSUME NEW n \in 1..m, Available(rows[n])
         PROVE  End + SerializationOf(rows[n].rate) + rows[n].delay + 1 <= StopTime
    <2>1. SerializationOf(rows[n].rate) <= Max(S) /\ rows[n].delay <= Max(D)
      BY <1>7, <1>9, <1>11
    <2> DEFINE x == SerializationOf(rows[n].rate)
               y == rows[n].delay
    <2>2. x \in Nat /\ y \in Nat /\ x <= Max(S) /\ y <= Max(D)
      BY <1>2, <1>3, <1>11, <2>1
    <2> HIDE DEF x, y
    <2>3. End + x + y + 1 <= StopTime
      BY <1>1, <1>8, <1>9, <2>2
    <2> QED
      BY <2>3 DEF x, y
  <1> QED
    BY <1>2, <1>10, <1>11 DEF m

\* Of a packet sent, when: in a row of the window, before its end.
LEMMA SentIs ==
  ASSUME Chosen, Prepared, NEW p \in Records, NEW t, Began(p, t), p.phy \in Nat
  PROVE  \E n \in 1..(Len(rows) - 1) :
           /\ RowAt(p.phy) = rows[n] /\ Available(rows[n])
           /\ p.serialization = SerializationOf(rows[n].rate) /\ p.delay = rows[n].delay
  <1>1. PICK n \in 1..Len(rows) : RowAt(p.phy) = rows[n] /\ rows[n].time <= p.phy
    BY RowHeld
  <1>2. n # Len(rows)
    <2> SUFFICES ASSUME n = Len(rows) PROVE FALSE
      OBVIOUS
    <2>1. End <= p.phy /\ p.phy < End /\ End \in Nat
      BY <1>1, RowsIs, WindowIs DEF Began
    <2> QED
      BY <2>1
  <1>0. Len(rows) \in Nat
    BY RowsIs
  <1>3. n \in 1..(Len(rows) - 1)
    BY <1>0, <1>2
  <1> QED
    BY <1>1, <1>3 DEF Began

\* Every packet offered, and none waits or flies.
Settled == offered = Count /\ \A n \in 1..offered : packets[n].status # "unresolved"

\* When the simulator stops, every packet has been offered and has ended in one way.
LEMMA StopSettles ==
  ASSUME Chosen, Prepared, Clocks, Packets, Queued, ~RowDue, ~EndDue, Arriving = {}, now = StopTime
  PROVE  Settled
  <1>1. now \in Nat /\ End \in Nat /\ now > End /\ offered \in 0..Count /\ Count \in Nat
    BY StopIs, WindowIs, OffersIs DEF Clocks
  <1>2. applied = Len(rows)
    <2> SUFFICES ASSUME applied # Len(rows) PROVE FALSE
      OBVIOUS
    <2>0. Len(rows) \in Nat /\ applied \in 0..Len(rows)
      BY RowsIs DEF Clocks
    <2>1. applied < Len(rows)
      BY <2>0
    <2>2. now < rows[applied + 1].time /\ rows[applied + 1].time <= End /\ rows[applied + 1].time \in Nat
      BY <2>1, DueIs
    <2> QED
      BY <1>1, <2>2
  <1>3. queue = <<>>
    BY <1>2, RowsIs DEF Queued
  <1>4. offered = Count
    <2> SUFFICES ASSUME offered < Count PROVE FALSE
      BY <1>1
    <2>1. offered + 1 \in 1..Count /\ now <= OfferTime(offered + 1)
      BY <1>1 DEF Clocks
    <2>2. OfferTime(offered + 1) < End /\ OfferTime(offered + 1) \in Nat
      BY <2>1, OffersIs
    <2> QED
      BY <1>1, <2>1, <2>2
  <1>5. ASSUME NEW n \in 1..offered, packets[n].status = "unresolved" PROVE FALSE
    <2> DEFINE p == packets[n]
    <2>1. p \in Records /\ Accounted(n, p, queue, now) /\ p.phy \in Int /\ p.serialization \in Int /\ p.delay \in Int
      BY PacketIs
    <2>2. p.phy # None /\ Began(p, now) /\ p.rx = None /\ now <= ArrivalTime(p) /\ p.udp = OfferTime(n)
      BY <1>3, <1>5, <2>1 DEF Accounted, FullTimes
    <2>3. ArrivalTime(p) # now
      BY <2>2 DEF Arriving
    <2>4. p.phy \in Nat /\ p.phy < End
      <3>1. OfferTime(n) \in Nat
        BY <1>4, OffersIs
      <3> QED
        BY <2>1, <2>2, <3>1 DEF Began
    <2> HIDE DEF p
    <2>5. PICK m \in 1..(Len(rows) - 1) : /\ RowAt(p.phy) = rows[m] /\ Available(rows[m])
                                          /\ p.serialization = SerializationOf(rows[m].rate) /\ p.delay = rows[m].delay
      BY <2>1, <2>2, <2>4, SentIs
    <2>6. End + p.serialization + p.delay + 1 <= now
      BY <2>5, StopIs
    <2>7. ArrivalTime(p) = p.phy + p.serialization + p.delay
      BY DEF ArrivalTime
    <2>8. p.serialization \in Int /\ p.delay \in Int /\ p.phy < End /\ now <= ArrivalTime(p)
      BY <2>1, <2>2, <2>4
    <2> QED
      BY <1>1, <2>4, <2>6, <2>7, <2>8
  <1> QED
    BY <1>4, <1>5 DEF Settled

LEMMA AdvanceStep ==
  ASSUME Chosen, Prepared, Clocks, Packets, Queued, Advance
  PROVE  Clocks' /\ Packets' /\ Queued' /\ (phase' = phase \/ (phase' = "parse" /\ Settled'))
  <1>1. Fixed /\ UNCHANGED <<applied, offered, packets, queue>> /\ ~RowDue /\ ~EndDue /\ ~OfferDue /\ Arriving = {}
    BY DEF Advance, Fixed
  <1>2. now \in Nat /\ offered \in 0..Count /\ Count \in Nat /\ applied \in 0..Len(rows) /\ Len(packets) = offered
    BY OffersIs DEF Clocks, Packets
  <1>3. Queued'
    BY <1>1 DEF Queued, Current, Available, Fixed
  <1>4. CASE now = StopTime
    <2>1. UNCHANGED now /\ phase' = "parse"
      BY <1>4 DEF Advance
    <2>2. Settled
      BY <1>1, <1>4, StopSettles
    <2>3. Settled'
      BY <1>1, <2>2, Stands DEF Settled
    <2>4. Clocks' /\ Packets'
      BY <1>1, <2>1, Stands DEF Clocks, Packets, Fixed
    <2> QED
      BY <1>3, <2>1, <2>3, <2>4
  <1>5. CASE now # StopTime
    <2>1. now' = now + 1 /\ UNCHANGED phase
      BY <1>5 DEF Advance
    <2>2. applied < Len(rows) => now + 1 <= rows[applied + 1].time
      BY <1>1, <1>2, DueIs
    <2>3. offered < Count => now + 1 <= OfferTime(offered + 1)
      <3> SUFFICES ASSUME offered < Count PROVE now + 1 <= OfferTime(offered + 1)
        OBVIOUS
      <3>1. offered + 1 \in 1..Count /\ now <= OfferTime(offered + 1)
        BY <1>2 DEF Clocks
      <3>2. OfferTime(offered + 1) \in Nat /\ OfferTime(offered + 1) # now
        BY <1>1, <3>1, OffersIs DEF OfferDue
      <3> QED
        BY <1>2, <3>1, <3>2
    <2>4. \A n \in 1..offered : OfferTime(n) <= now + 1
      <3> TAKE n \in 1..offered
      <3>1. n \in 1..Count /\ OfferTime(n) <= now
        BY <1>2 DEF Clocks
      <3>2. OfferTime(n) \in Nat
        BY <3>1, OffersIs
      <3> QED
        BY <1>2, <3>1, <3>2
    <2>5. applied > 0 => rows[applied].time <= now + 1
      <3> SUFFICES ASSUME applied > 0 PROVE rows[applied].time <= now + 1
        OBVIOUS
      <3>1. applied \in 1..Len(rows) /\ rows[applied].time <= now
        BY <1>2, RowsIs DEF Clocks
      <3>2. rows[applied].time \in Nat
        BY <3>1, RowsIs
      <3> QED
        BY <1>2, <3>1, <3>2
    <2>6. Clocks'
      BY <1>1, <1>2, <2>1, <2>2, <2>3, <2>4, <2>5, Stands DEF Clocks, Fixed
    <2>7. ASSUME NEW n \in 1..offered PROVE Accounted(n, packets[n], queue, now + 1)
      <3> DEFINE p == packets[n]
      <3>1. p \in Records /\ Accounted(n, p, queue, now) /\ p.phy \in Int /\ p.serialization \in Int /\ p.delay \in Int
        BY PacketIs
      <3>2. p.status = "unresolved" => IF p.phy = None THEN \E i \in DOMAIN queue : queue[i] = n ELSE now + 1 <= ArrivalTime(p)
        <4>1. ASSUME p.status = "unresolved", p.phy # None PROVE now + 1 <= ArrivalTime(p)
          <5>1. p.rx = None /\ now <= ArrivalTime(p)
            BY <3>1, <4>1 DEF Accounted, FullTimes
          <5>2. ArrivalTime(p) # now
            BY <1>1, <4>1, <5>1 DEF Arriving
          <5>3. ArrivalTime(p) \in Int
            BY <3>1 DEF ArrivalTime
          <5> HIDE DEF p
          <5> QED
            BY <1>2, <5>1, <5>2, <5>3
        <4> QED
          BY <3>1, <4>1 DEF Accounted
      <3> HIDE DEF p
      <3>3. now + 1 \in Nat /\ now <= now + 1
        BY <1>2
      <3> QED
        BY <1>2, <3>1, <3>2, <3>3, StaysAccounted DEF p
    <2>8. Packets'
      BY <1>1, <2>1, <2>7, PacketsOf DEF Packets
    <2> QED
      BY <1>3, <2>1, <2>6, <2>8
  <1> QED
    BY <1>4, <1>5

----------------------------------------------------------------------------
(* The account.                                                            *)

\* A packet that has ended is one the parser accepts: its times are those of its status, in order, and
\* follow the trace.
LEMMA PacketAccepted ==
  ASSUME Chosen, Prepared, NEW n \in 1..Count, NEW p \in Records, NEW q, NEW t, Accounted(n, p, q, t), p.status # "unresolved"
  PROVE  /\ HasItsTimes(p) /\ IsCausal(n, p)
         /\ (p.status = "outage_suppressed") <=> ~Available(RowAt(OfferTime(n)))
         /\ FollowsTrace(p)
         /\ p.status = "received" => p.rx < End
         /\ p.status = "received_after_window" => p.rx >= End
  <1>1. OfferTime(n) \in Nat /\ OfferTime(n) < End /\ End \in Nat \ {0} /\ None = -1
    BY OffersIs, WindowIs DEF None
  <1>2. /\ p.udp \in Int /\ p.phy \in Int /\ p.rx \in Int /\ p.serialization \in Int /\ p.delay \in Int
        /\ p.status \in Statuses
    BY DEF Records
  <1>3. p.udp = IF p.status = "outage_suppressed" THEN None ELSE OfferTime(n)
    BY DEF Accounted
  <1>4. p.status \in FullTimes <=> p.phy # None
    BY DEF Accounted
  <1>5. p.status \in FullTimes <=> p.rx # None
    BY DEF Accounted
  <1>6. ASSUME p.phy # None
        PROVE  /\ p.phy \in Nat /\ p.udp <= p.phy /\ p.phy < End /\ p.rx = p.phy + p.serialization + p.delay
               /\ \E m \in 1..(Len(rows) - 1) :
                    /\ RowAt(p.phy) = rows[m] /\ Available(rows[m])
                    /\ p.serialization = SerializationOf(rows[m].rate) /\ p.delay = rows[m].delay
    <2>1. Began(p, t) /\ p.rx = ArrivalTime(p) /\ p.udp = OfferTime(n)
      BY <1>4, <1>6 DEF Accounted, FullTimes
    <2>2. p.udp <= p.phy /\ p.phy < End
      BY <2>1 DEF Began
    <2>3. p.phy \in Nat
      BY <1>1, <1>2, <2>1, <2>2
    <2> QED
      BY <2>1, <2>2, <2>3, SentIs DEF ArrivalTime
  <1>7. ASSUME p.phy # None
        PROVE  /\ Available(RowAt(p.phy)) /\ p.delay = RowAt(p.phy).delay /\ p.delay \in Nat
               /\ Serialization[RowAt(p.phy).rate] \in Nat /\ p.serialization >= 1
               /\ p.serialization - Serialization[RowAt(p.phy).rate] \in -1..1
    <2>1. PICK m \in 1..(Len(rows) - 1) : /\ RowAt(p.phy) = rows[m] /\ Available(rows[m])
                                          /\ p.serialization = SerializationOf(rows[m].rate) /\ p.delay = rows[m].delay
      BY <1>6, <1>7
    <2>2. Len(rows) \in Nat
      BY RowsIs
    <2>3. m \in 1..Len(rows)
      BY <2>2
    <2>4. Serialization[rows[m].rate] \in Nat /\ SerializationOf(rows[m].rate) >= 1
      BY <2>1, <2>3 DEF Prepared
    <2>5. rows[m].delay \in Nat
      BY <2>3, RowsIs
    <2>6. p.serialization = Serialization[rows[m].rate] + replay.rounding /\ replay.rounding \in -1..1
      BY <2>1, WindowIs DEF SerializationOf
    <2>7. p.serialization - Serialization[rows[m].rate] \in -1..1
      BY <2>4, <2>6
    <2> QED
      BY <2>1, <2>4, <2>5, <2>7
  <1>8. HasItsTimes(p)
    <2>1. (p.status = "outage_suppressed") <=> p.udp = None
      BY <1>1, <1>3
    <2>2. p.status = "outage_queue_drop" => \E o \in Outages : p.udp < o[1] /\ o[1] < End
      BY DEF Accounted
    <2> QED
      BY <1>4, <1>5, <2>1, <2>2 DEF HasItsTimes
  <1>9. IsCausal(n, p)
    <2>1. p.udp < End /\ p.phy < End
      BY <1>1, <1>3, <1>6
    <2>2. p.udp # None => OfferTime(n) <= p.udp
      BY <1>1, <1>3
    <2>3. p.phy # None => p.udp # None /\ p.udp <= p.phy /\ OfferTime(n) <= p.phy
      <3> SUFFICES ASSUME p.phy # None PROVE p.udp # None /\ p.udp <= p.phy /\ OfferTime(n) <= p.phy
        OBVIOUS
      <3>1. p.udp = OfferTime(n)
        BY <1>3, <1>4 DEF FullTimes
      <3> QED
        BY <1>1, <1>6, <3>1
    <2>4. p.rx # None => p.phy # None /\ p.phy <= p.rx
      <3> SUFFICES ASSUME p.rx # None PROVE p.phy # None /\ p.phy <= p.rx
        OBVIOUS
      <3>1. p.phy # None
        BY <1>4, <1>5
      <3> QED
        BY <1>2, <1>6, <1>7, <3>1
    <2>5. p.rx # None => p.udp <= p.rx /\ OfferTime(n) <= p.rx
      BY <1>1, <1>2, <2>3, <2>4
    <2> DEFINE times == <<OfferTime(n), p.udp, p.phy, p.rx>>
    <2>6. \A i \in 1..4, k \in 1..4 : i < k /\ times[i] # None /\ times[k] # None => times[i] <= times[k]
      <3> SUFFICES ASSUME NEW i \in 1..4, NEW k \in 1..4, i < k, times[i] # None, times[k] # None
                   PROVE  times[i] <= times[k]
        OBVIOUS
      <3>1. times[1] = OfferTime(n) /\ times[2] = p.udp /\ times[3] = p.phy /\ times[4] = p.rx
        OBVIOUS
      <3>2. \/ (i = 1 /\ k = 2) \/ (i = 1 /\ k = 3) \/ (i = 1 /\ k = 4)
            \/ (i = 2 /\ k = 3) \/ (i = 2 /\ k = 4) \/ (i = 3 /\ k = 4)
        OBVIOUS
      <3> HIDE DEF times
      <3> QED
        BY <2>2, <2>3, <2>4, <2>5, <3>1, <3>2
    <2> QED
      BY <2>1, <2>6 DEF IsCausal
  <1>10. FollowsTrace(p)
    <2> SUFFICES ASSUME p.phy # None PROVE FollowsTrace(p)
      BY DEF FollowsTrace
    <2>1. p.rx # None /\ p.status \in FullTimes
      BY <1>4, <1>5
    <2> DEFINE row == RowAt(p.phy)
               seen == p.rx - p.phy - row.delay
    <2>2. seen = p.serialization /\ p.rx - seen = p.phy + p.delay
      <3>1. p.rx = p.phy + p.serialization + p.delay /\ row.delay = p.delay
        BY <1>6, <1>7
      <3> HIDE DEF row
      <3> QED
        BY <1>2, <3>1
    <2>3. p.status = "rx_outage_drop" => Lost(p)
      BY DEF Accounted
    <2>4. p.status \in {"received", "received_after_window"} => ~Lost(p)
      BY DEF Accounted
    <2>5. Lost(p) <=> Overlaps(p.phy, p.phy + seen) \/ Overlaps(p.rx - seen, p.rx)
      BY <2>2 DEF Lost
    <2>6. seen >= 1 /\ seen - Serialization[row.rate] \in -1..1 /\ Available(row)
      BY <1>7, <2>2
    <2> QED
      BY <2>1, <2>3, <2>4, <2>5, <2>6 DEF FollowsTrace
  <1>11. (p.status = "outage_suppressed") <=> ~Available(RowAt(OfferTime(n)))
    BY DEF Accounted
  <1>12. (p.status = "received" => p.rx < End) /\ (p.status = "received_after_window" => p.rx >= End)
    BY DEF Accounted
  <1> QED
    BY <1>8, <1>9, <1>10, <1>11, <1>12

LEMMA PreparedIs == ASSUME Prepared PROVE IsPrepared
  <1>1. Len(rows) \in Nat /\ Len(rows) >= 2 /\ DOMAIN rows = 1..Len(rows) /\ rows[1].time = 0 /\ rows[Len(rows)].time = End
    BY RowsIs
  <1>2. \A n \in 1..(Len(rows) - 1) : rows[n].time < rows[n + 1].time
    <2> TAKE n \in 1..(Len(rows) - 1)
    <2>1. n \in 1..Len(rows) /\ n + 1 \in 1..Len(rows) /\ n < n + 1
      BY <1>1
    <2> QED
      BY <2>1, RowsIs
  <1>3. ASSUME NEW n \in DOMAIN rows, Available(rows[n]) PROVE Serialization[rows[n].rate] >= 1
    <2>1. Serialization[rows[n].rate] \in Nat \ {0}
      BY <1>1, <1>3 DEF Prepared
    <2> QED
      BY <2>1
  <1> QED
    BY <1>1, <1>2, <1>3 DEF IsPrepared

LEMMA AccountIs == ASSUME Chosen, Prepared, Packets, Settled PROVE Accepts(packets)
  <1>1. Len(packets) = Count /\ offered = Count
    BY DEF Packets, Settled
  <1>2. ASSUME NEW n \in 1..Count
        PROVE  LET p == packets[n]
               IN /\ HasItsTimes(p) /\ IsCausal(n, p)
                  /\ (p.status = "outage_suppressed") <=> ~Available(RowAt(OfferTime(n)))
                  /\ FollowsTrace(p)
                  /\ p.status = "received" => p.rx < End
                  /\ p.status = "received_after_window" => p.rx >= End
    <2>1. packets[n] \in Records /\ Accounted(n, packets[n], queue, now) /\ packets[n].status # "unresolved"
      BY <1>1, PacketIs DEF Settled
    <2> QED
      BY <2>1, PacketAccepted
  <1> QED
    BY <1>1, <1>2, PreparedIs DEF Accepts

\* The packets that ended in one of some ways.
Ended(statuses) == {n \in DOMAIN packets : packets[n].status \in statuses}

LEMMA EndedApart ==
  ASSUME IsFiniteSet(DOMAIN packets), NEW X, NEW Y, X \cap Y = {}
  PROVE  /\ Cardinality(Ended(X)) \in Nat /\ Cardinality(Ended(Y)) \in Nat
         /\ Cardinality(Ended(X \union Y)) = Cardinality(Ended(X)) + Cardinality(Ended(Y))
  <1> DEFINE A == Ended(X)
             B == Ended(Y)
  <1>1. Ended(X \union Y) = A \union B /\ A \cap B = {} /\ A \subseteq DOMAIN packets /\ B \subseteq DOMAIN packets
    BY DEF Ended
  <1> HIDE DEF A, B
  <1>2. IsFiniteSet(A) /\ IsFiniteSet(B)
    BY <1>1, FS_Subset
  <1>3. Cardinality(A) \in Nat /\ Cardinality(B) \in Nat
    BY <1>2, FS_CardinalityType
  <1>4. Cardinality(A \union B) = Cardinality(A) + Cardinality(B)
    <2>1. Cardinality(A \cap B) = 0
      BY <1>1, FS_EmptySet
    <2>2. Cardinality(A \union B) = Cardinality(A) + Cardinality(B) - Cardinality(A \cap B)
      BY <1>2, FS_Union
    <2> QED
      BY <1>3, <2>1, <2>2
  <1> QED
    BY <1>1, <1>3, <1>4 DEF A, B

\* Every packet that was let in ended in one of the other ways.
LEMMA TotalsAgree ==
  ASSUME Chosen, Packets, Settled
  PROVE  LET total == Accounting(packets)
         IN total.admitted = total.received + total.queued + total.flushed + total.corrupted
  <1> DEFINE S == {"outage_suppressed"}
             R == {"received", "received_after_window"}
             Q == {"queue_drop"}
             F == {"outage_queue_drop", "end_of_window_drop"}
             C == {"rx_outage_drop"}
             SR == S \union R
             SRQ == SR \union Q
             SRQF == SRQ \union F
             c(X) == Cardinality(Ended(X))
  <1>1. DOMAIN packets = 1..Len(packets) /\ Len(packets) = offered /\ offered \in Nat
    BY DEF Packets
  <1>2. IsFiniteSet(DOMAIN packets) /\ Cardinality(DOMAIN packets) = Len(packets)
    BY <1>1, FS_Interval
  <1>3. Ended(SRQF \union C) = DOMAIN packets
    <2>1. \A n \in DOMAIN packets : packets[n].status \in Statuses /\ packets[n].status # "unresolved"
      BY <1>1, PacketIs DEF Settled
    <2> QED
      BY <2>1 DEF Ended, Statuses
  <1>4. S \cap R = {} /\ SR \cap Q = {} /\ SRQ \cap F = {} /\ SRQF \cap C = {}
    OBVIOUS
  <1>5. /\ Accounting(packets).admitted = Len(packets) - c(S) /\ Accounting(packets).received = c(R)
        /\ Accounting(packets).queued = c(Q) /\ Accounting(packets).flushed = c(F) /\ Accounting(packets).corrupted = c(C)
    BY DEF Accounting, Ended
  <1> HIDE DEF S, R, Q, F, C
  <1>6. c(S) \in Nat /\ c(R) \in Nat /\ c(SR) = c(S) + c(R)
    BY <1>2, <1>4, EndedApart
  <1> HIDE DEF SR
  <1>7. c(Q) \in Nat /\ c(SRQ) = c(SR) + c(Q)
    BY <1>2, <1>4, EndedApart
  <1> HIDE DEF SRQ
  <1>8. c(F) \in Nat /\ c(SRQF) = c(SRQ) + c(F)
    BY <1>2, <1>4, EndedApart
  <1> HIDE DEF SRQF
  <1>9. c(C) \in Nat /\ c(SRQF \union C) = c(SRQF) + c(C)
    BY <1>2, <1>4, EndedApart
  <1>10. Len(packets) = c(SRQF \union C)
    BY <1>2, <1>3
  <1> HIDE DEF c
  <1> QED
    BY <1>5, <1>6, <1>7, <1>8, <1>9, <1>10

----------------------------------------------------------------------------
(* The whole replay.                                                       *)

\* The trace is prepared once, of a link and a replay that stay.
Traced == (rows # <<>> => rows = Trace) /\ (phase \in Running => rows = Trace)

Untried == phase \in Reading \union {"prepare"} => now = 0 /\ applied = 0 /\ offered = 0 /\ packets = <<>> /\ queue = <<>>

Simulated == phase \in Running => Clocks /\ Packets /\ Queued

Finished == phase \in Running \ {"simulate"} => Settled

\* Unless files are replaced, all that is there and all that is read is of the first run.
Undisturbed ==
  replay.fault # "results" =>
    /\ \A f \in DOMAIN disk : disk[f] = 1
    /\ ~source.disturbed
    /\ phase \in {"prepare"} \union Running => source.digest = 1

\* Only a fault takes the output from the replay, or makes it raise.
Blamed == (target = "rival" => replay.fault = "rival") /\ (phase = "raised" => replay.fault # "none")

AInv == IInv /\ Chosen /\ Traced /\ Untried /\ Simulated /\ Finished /\ Undisturbed /\ Blamed

LEMMA InitAInv == Init => AInv
  <1> SUFFICES ASSUME Init PROVE AInv
    OBVIOUS
  <1>1. Chosen /\ Traced /\ Untried /\ Simulated /\ Finished
    BY DEF Init, Chosen, Traced, Untried, Simulated, Finished, Running
  <1>2. Undisturbed /\ Blamed
    BY DEF Init, Undisturbed, Blamed, Running, Unread
  <1> QED
    BY <1>1, <1>2, InitIInv DEF AInv

\* What a trace is, in any state and so in the next one.
LEMMA TracePrepared == (Chosen /\ rows = Trace) => Prepared
  BY TraceIs

LEMMA TracePreparedNext == (Chosen /\ rows = Trace)' => Prepared'
  BY TracePrepared, PTL

LEMMA TraceStays == ASSUME UNCHANGED <<link, replay>> PROVE Trace' = Trace /\ (Chosen' <=> Chosen)
  <1>1. \A h : PassAt(h)' = PassAt(h) /\ SegmentRate(h)' = SegmentRate(h)
    BY DEF PassAt, SegmentRate
  <1>2. \A h : QueryTime(h)' = QueryTime(h)
    BY <1>1 DEF QueryTime
  <1>3. \A h : State(h)' = State(h)
    BY <1>1, <1>2 DEF State
  <1>4. Start' = Start /\ End' = End /\ Breakpoints' = Breakpoints
    BY DEF Start, End, Breakpoints
  <1>5. \A h : ToTick(h)' = ToTick(h)
    BY <1>4 DEF ToTick
  <1>6. RowTimes' = RowTimes
    BY <1>4, <1>5 DEF RowTimes
  <1>7. \A n : Row(n)' = Row(n)
    BY <1>3, <1>6 DEF Row
  <1> QED
    BY <1>6, <1>7 DEF Trace, Chosen

\* The trace that is prepared is one the simulation can begin with.
LEMMA PrepareStep ==
  ASSUME Chosen, Untried, phase = "prepare", Prepare
  PROVE  Chosen' /\ rows' = Trace' /\ Clocks' /\ Packets' /\ Queued'
  <1>1. UNCHANGED <<link, replay, now, applied, offered, packets, queue>> /\ rows' = Trace
    BY DEF Prepare
  <1>2. now = 0 /\ applied = 0 /\ offered = 0 /\ packets = <<>> /\ queue = <<>>
    BY DEF Untried
  <1>3. Chosen' /\ rows' = Trace'
    BY <1>1, TraceStays
  <1>4. Prepared'
    BY <1>3, TracePreparedNext
  <1>5. rows' \in Seq([time : Nat, rate : Nat, delay : Nat]) /\ rows'[1].time = 0
    BY <1>4 DEF Prepared
  <1>6. Len(rows') \in Nat
    BY <1>5
  <1>7. Count' \in Nat /\ OfferTime(1)' = 0
    <2>1. Count \in Nat /\ OfferTime(1) = 0
      BY OffersIs
    <2>2. Count' = Count /\ OfferTime(1)' = OfferTime(1)
      BY <1>1 DEF Count, End, OfferTime
    <2> QED
      BY <2>1, <2>2
  <1>8. Clocks'
    <2>1. now' = 0 /\ applied' = 0 /\ offered' = 0
      BY <1>1, <1>2
    <2>2. OfferTime(offered + 1)' = 0
      BY <1>7, <2>1 DEF OfferTime
    <2> QED
      BY <1>5, <1>6, <1>7, <2>1, <2>2 DEF Clocks
  <1>9. Packets'
    BY <1>1, <1>2 DEF Packets
  <1>10. Queued'
    BY <1>1, <1>2 DEF Queued
  <1> QED
    BY <1>3, <1>8, <1>9, <1>10

\* Nothing of the simulation changes but in its own steps.
LEMMA Leaves ==
  ASSUME Chosen, Traced, Untried, Simulated, Finished,
         UNCHANGED <<link, replay, rows, now, applied, offered, packets, queue>>,
         phase' \in Running => phase \in Running /\ (phase' = "simulate" <=> phase = "simulate"),
         phase' \in Reading \union {"prepare"} => phase \in Reading \union {"prepare"}
  PROVE  Chosen' /\ Traced' /\ Untried' /\ Simulated' /\ Finished'
  <1>1. Fixed
    BY DEF Fixed
  <1>2. Chosen' /\ Traced'
    BY TraceStays DEF Traced
  <1>3. Untried'
    BY DEF Untried
  <1>4. Clocks /\ Packets /\ Queued => Clocks' /\ Packets' /\ Queued'
    BY <1>1, Stands DEF Clocks, Packets, Queued, Current, Available
  <1>5. Settled => Settled'
    BY <1>1, Stands DEF Settled
  <1> QED
    BY <1>2, <1>3, <1>4, <1>5 DEF Simulated, Finished

\* A step of the simulation.
LEMMA SimulationStep ==
  ASSUME Chosen, Traced, Simulated, Finished, phase = "simulate", Fixed, phase' = "simulate", Clocks', Packets', Queued'
  PROVE  Chosen' /\ Traced' /\ Untried' /\ Simulated' /\ Finished'
  BY TraceStays DEF Traced, Untried, Simulated, Finished, Reading, Running, Fixed

LEMMA StepSimulated == ASSUME AInv, [Next]_vars PROVE Chosen' /\ Traced' /\ Untried' /\ Simulated' /\ Finished'
  <1> USE DEF AInv
  <1>1. CASE Verify \/ ReadResults \/ ReadTables \/ ReadInputs
    BY <1>1, Leaves DEF Verify, ReadResults, ReadTables, ReadInputs, Reads, Untouched, Raise, Reading, Running
  <1>2. CASE Edit \/ Take \/ Publish
    BY <1>2, Leaves DEF Edit, Take, Publish, Untouched, Raise, Reading, Running
  <1>3. CASE Parse
    BY <1>3, Leaves DEF Parse, Raise, Reading, Running
  <1>4. CASE UNCHANGED vars
    BY <1>4, Leaves DEF vars
  <1>5. CASE Prepare
    <2>1. phase = "prepare" /\ phase' \in {"raised", "simulate"}
      BY <1>5 DEF Prepare, Raise
    <2>2. Chosen' /\ rows' = Trace' /\ Clocks' /\ Packets' /\ Queued'
      BY <1>5, <2>1, PrepareStep
    <2> QED
      BY <2>1, <2>2 DEF Traced, Untried, Simulated, Finished, Reading, Running
  <1>6. ASSUME phase = "simulate" PROVE Prepared /\ Clocks /\ Packets /\ Queued
    BY <1>6, TracePrepared DEF Traced, Simulated, Running
  <1>7. CASE Update
    <2>1. phase = "simulate" /\ Fixed /\ phase' = "simulate"
      BY <1>7 DEF Update, Fixed
    <2> QED
      BY <1>6, <1>7, <2>1, UpdateStep, SimulationStep
  <1>8. CASE FlushAtEnd
    <2>1. phase = "simulate" /\ Fixed /\ phase' = "simulate"
      BY <1>8 DEF FlushAtEnd, Fixed
    <2> QED
      BY <1>6, <1>8, <2>1, FlushAtEndStep, SimulationStep
  <1>9. CASE Offer
    <2>1. phase = "simulate" /\ Fixed /\ phase' = "simulate"
      BY <1>9 DEF Offer, Fixed
    <2> QED
      BY <1>6, <1>9, <2>1, OfferStep, SimulationStep
  <1>10. CASE Complete
    <2>1. phase = "simulate" /\ Fixed
      BY <1>10 DEF Complete, Fixed
    <2>2. Clocks' /\ Packets' /\ Queued' /\ phase' = "simulate"
      BY <1>6, <1>10, <2>1, CompleteStep
    <2> QED
      BY <2>1, <2>2, SimulationStep
  <1>11. CASE Arrive
    <2>1. phase = "simulate" /\ Fixed /\ phase' = "simulate"
      BY <1>11 DEF Arrive, Fixed
    <2> QED
      BY <1>6, <1>11, <2>1, ArriveStep, SimulationStep
  <1>12. CASE Advance
    <2>1. phase = "simulate" /\ Fixed
      BY <1>12 DEF Advance, Fixed
    <2>2. Clocks' /\ Packets' /\ Queued' /\ (phase' = phase \/ (phase' = "parse" /\ Settled'))
      BY <1>6, <1>12, <2>1, AdvanceStep
    <2>3. CASE phase' = phase
      BY <2>1, <2>2, <2>3, SimulationStep
    <2>4. CASE phase' = "parse" /\ Settled'
      BY <2>1, <2>2, <2>4, TraceStays DEF Traced, Untried, Simulated, Finished, Reading, Running, Fixed
    <2> QED
      BY <2>2, <2>3, <2>4
  <1> QED
    BY <1>1, <1>2, <1>3, <1>4, <1>5, <1>7, <1>8, <1>9, <1>10, <1>11, <1>12 DEF Next

\* A replay of which nothing goes wrong refuses nothing.
LEMMA StepBlamed == ASSUME AInv, [Next]_vars PROVE Undisturbed' /\ Blamed'
  <1> USE DEF Undisturbed, Blamed, Reading, Running, Untouched, Raise
  <1>a. /\ DOMAIN disk = Names /\ IInv /\ Undisturbed /\ Blamed /\ Chosen /\ Traced /\ Simulated /\ Finished
        /\ TypeOK /\ Consistent /\ Claimed
    BY DEF AInv, IInv, TypeOK, Disks
  <1>b. replay.fault # "results" => Whole /\ disk.manifest = 1 /\ disk.json = 1 /\ disk.tables = 1 /\ disk.inputs = 1
    BY <1>a DEF Whole, Names
  <1>1. CASE Verify
    BY <1>1, <1>a, <1>b DEF Verify, Reads
  <1>2. CASE ReadResults
    BY <1>2, <1>a, <1>b DEF ReadResults, Reads, TypeOK, Sources
  <1>3. CASE ReadTables
    BY <1>3, <1>a, <1>b DEF ReadTables, Reads, TypeOK, Sources
  <1>4. CASE ReadInputs
    <2>1. replay.fault # "results" => disk.inputs = source.json
      BY <1>4, <1>a, <1>b DEF ReadInputs, Reads, Consistent
    <2> QED
      BY <1>4, <1>a, <1>b, <2>1 DEF ReadInputs, Reads, TypeOK, Sources
  <1>5. CASE Edit
    BY <1>5, <1>a DEF Edit
  <1>6. CASE Prepare
    <2>1. replay.fault = "none" => Provenance /\ Free
      BY <1>6, <1>a, <1>b DEF Prepare, Provenance, Free, TypeOK, Claimed
    <2> QED
      BY <1>6, <1>a, <2>1 DEF Prepare
  <1>7. CASE Take
    BY <1>7, <1>a DEF Take
  <1>8. CASE Parse
    <2>1. phase = "parse" /\ Accepts(packets)
      BY <1>8, <1>a, AccountIs, TracePrepared DEF Parse, Traced, Simulated, Finished
    <2>2. replay.fault = "none" => ~Refused
      BY <2>1 DEF Refused, BackendFails, BackendChanged
    <2> QED
      BY <1>8, <1>a, <2>2 DEF Parse
  <1>9. CASE Publish
    <2>1. replay.fault = "none" => Free
      BY <1>9, <1>a DEF Publish, Free, TypeOK, Claimed
    <2> QED
      BY <1>9, <1>a, <2>1 DEF Publish
  <1>10. CASE Update \/ FlushAtEnd \/ Offer \/ Arrive
    BY <1>10, <1>a DEF Update, FlushAtEnd, Offer, Arrive
  <1>11. CASE Complete
    <2>1. phase = "simulate" /\ Prepared /\ Clocks /\ Packets /\ Queued
      BY <1>11, <1>a, TracePrepared DEF Complete, Traced, Simulated
    <2>2. phase' = "simulate"
      BY <1>11, <1>a, <2>1, CompleteStep
    <2> QED
      BY <1>11, <1>a, <2>1, <2>2 DEF Complete
  <1>12. CASE Advance
    BY <1>12, <1>a DEF Advance
  <1>13. CASE UNCHANGED vars
    BY <1>13, <1>a DEF vars
  <1> QED
    BY <1>1, <1>2, <1>3, <1>4, <1>5, <1>6, <1>7, <1>8, <1>9, <1>10, <1>11, <1>12, <1>13 DEF Next

LEMMA StepIInv == ASSUME IInv, [Next]_vars PROVE IInv'
  BY TypeStep, StepConsistent, StepControl DEF IInv

THEOREM ReplayInvariance == Spec => []AInv
  <1>1. AInv /\ [Next]_vars => AInv'
    <2> SUFFICES ASSUME AInv, [Next]_vars PROVE AInv'
      OBVIOUS
    <2>1. IInv'
      BY StepIInv DEF AInv
    <2> QED
      BY <2>1, StepSimulated, StepBlamed DEF AInv
  <1> QED
    BY InitAInv, <1>1, PTL DEF Spec

\* The trace is the link at every tick, for any passes and segments, sampling and window: neither the
\* merging of breakpoints that round to one tick nor the rounding itself loses a change (_boundaries,
\* ReplaySource.breakpoints, link_state).
THEOREM TraceIsTheLink == Spec => []TraceHolds
  <1>1. AInv => TraceHolds
    <2> SUFFICES ASSUME AInv, rows # <<>> PROVE TraceHolds
      BY DEF TraceHolds
    <2> QED
      BY TraceHeld DEF AInv, Traced
  <1> QED
    BY ReplayInvariance, <1>1, PTL

\* Replay::Transmit never refuses a packet, every packet is resolved by the time the simulator stops, and
\* the parser accepts each record and the totals, for any trace, interval, queue and rounding
\* (Replay::Run, parse_packet_results).
THEOREM AccountStands == Spec => []AccountAccepted
  <1>1. AInv => AccountAccepted
    <2> SUFFICES ASSUME AInv PROVE AccountAccepted
      OBVIOUS
    <2>1. ASSUME phase = "parse"
          PROVE  LET total == Accounting(packets)
                 IN /\ Accepts(packets)
                    /\ total.admitted = total.received + total.queued + total.flushed + total.corrupted
      <3>1. Chosen /\ Prepared /\ Packets /\ Settled
        BY <2>1, TracePrepared DEF AInv, Traced, Simulated, Finished, Running
      <3> QED
        BY <3>1, AccountIs, TotalsAgree
    <2> QED
      BY <2>1 DEF AccountAccepted, AInv, Blamed
  <1> QED
    BY ReplayInvariance, <1>1, PTL

=============================================================================
