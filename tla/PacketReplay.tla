---------------------------- MODULE PacketReplay ----------------------------
(***************************************************************************)
(* The packet replay of one link of a saved run: the reading of the run's  *)
(* directory, which may change under it (results/manifest.py, results/     *)
(* io.py), the trace prepared from its tables (replay/source.py, replay/   *)
(* packet_replay.py), the ns-3 simulation of it (adapters/ns3/             *)
(* openleo-replay.cc), the parser's own account of every packet, and the   *)
(* publication of the evidence.  The two directions are independent and    *)
(* alike: one is modelled.                                                 *)
(*                                                                         *)
(* The tables' times are in thirds of the simulator's tick, which stands   *)
(* for the nanosecond, so that the rounding of a time to a tick shows.     *)
(***************************************************************************)
EXTENDS Integers, Sequences, FiniteSets, FiniteSetsExt

CONSTANTS Span,             \* the results' window, in thirds
          Grid,             \* its samples
          Tolerance,        \* tolerance_s of the root-found ends, in thirds
          Links,            \* the tables: [passes, segments] of the link
          Replays,          \* [start, duration, interval (ticks), queue, rounding, fault]
          Serialization,    \* Serialization[rate]: ticks to send a packet, before rounding
          PathDelay         \* PathDelay[h]: the delay at a time, in ticks

\* What goes wrong in a replay, if anything: an unknown version of the backend, files of the results
\* replaced, the backend's failure, another file in its place, or another process that takes the output.
Faults == {"none", "handshake", "results", "exit", "changed", "rival"}

\* The tables and the settings, as their readers have checked them: a link is served one segment at a
\* time, the window lies inside the results, and a packet takes a tick or more to send, as the
\* simulator rounds it too.
ASSUME PacketReplayAssumption ==
  /\ Span \in Nat /\ Grid \subseteq 0..Span /\ Tolerance \in Nat /\ PathDelay \in [0..Span -> Nat]
  /\ Replays \subseteq [start : Nat, duration : Nat \ {0}, interval : Nat \ {0}, queue : Nat \ {0},
                         rounding : -1..1, fault : Faults]
  /\ \A r \in Replays : 3 * (r.start + r.duration) <= Span
  /\ \A l \in Links :
       /\ l.passes \subseteq [start : 0..Span, end : 0..Span, truncated : BOOLEAN]
       /\ l.segments \subseteq [start : 0..Span, end : 0..Span, rate : Nat]
       /\ \A s, t \in l.segments : s = t \/ s.end <= t.start \/ t.end <= s.start
       /\ \A s \in l.segments : s.rate > 0 =>
            /\ Serialization[s.rate] \in Nat \ {0}
            /\ \A r \in Replays : Serialization[s.rate] + r.rounding >= 1

VARIABLES link, replay,
          disk,             \* which of two runs each file of the results directory is of
          source,           \* which run what has been read of it is of
          phase,            \* where _execute_packet_replay is
          rows,             \* the trace
          now, applied,     \* the simulator's clock, and how many rows it has applied
          offered,          \* how many packets have been offered
          packets,          \* the records
          queue,            \* the packets that wait, first to leave first
          sending,          \* [packet, until], or idle
          target,           \* the output: "none", "rival" or "evidence"
          temporary         \* there is a temporary directory

vars == <<link, replay, disk, source, phase, rows, now, applied, offered, packets, queue, sending, target, temporary>>

----------------------------------------------------------------------------
(* The source.                                                             *)

None == -1

\* The pass that holds a time; one cut by the results' end holds that too.
PassAt(h) ==
  {p \in link.passes : p.start <= h /\ (h < p.end \/ (h = p.end /\ h = Span /\ p.truncated))}

SegmentRate(h) ==
  LET holding == {s \in link.segments :
        s.start <= h /\ (h < s.end \/ (h = s.end /\ h = Span /\ s.start < h))}
  IN IF holding = {} THEN 0 ELSE (CHOOSE s \in holding : \A r \in holding : r.start <= s.start).rate

\* The delay is asked for where the link is surely above the mask.
QueryTime(h) ==
  LET p == CHOOSE p \in PassAt(h) : TRUE
      last == IF p.truncated THEN p.end ELSE Max({p.start, p.end - Tolerance})
  IN Min({h, last})

\* A row of the trace: a link that is not visible or has no rate is an outage.
State(h) ==
  IF PassAt(h) = {} THEN [rate |-> 0, delay |-> 0]
  ELSE [rate |-> SegmentRate(h), delay |-> PathDelay[QueryTime(h)]]

\* Fault: the rate's changes are not breakpoints.
PassBoundaries == Grid \union UNION {{p.start, p.end} : p \in link.passes}

Breakpoints == Grid \union UNION {{i.start, i.end} : i \in link.passes \union link.segments}

----------------------------------------------------------------------------
(* The trace.                                                              *)

Start == 3 * replay.start
End == replay.duration

\* Half up.
ToTick(h) == (2 * (h - Start) + 3) \div 6

\* Of the breakpoints of a tick the last counts; the window's ends have rows of their own.
RowTimes ==
  LET inside == {h \in Breakpoints : Start < h /\ h < Start + 3 * End /\ ToTick(h) < End}
  IN [t \in {0, End} \union {ToTick(h) : h \in inside} |->
        IF t = End THEN Start + 3 * End ELSE Max({Start} \union {h \in inside : ToTick(h) <= t})]

Row(n) ==
  LET times == RowTimes
      t == CHOOSE t \in DOMAIN times : Cardinality({u \in DOMAIN times : u < t}) = n - 1
  IN [time |-> t, rate |-> State(times[t]).rate, delay |-> State(times[t]).delay]

Trace == [n \in 1..Cardinality(DOMAIN RowTimes) |-> Row(n)]

Count == (End + replay.interval - 1) \div replay.interval
OfferTime(n) == (n - 1) * replay.interval

RowAt(t) == rows[Max({n \in DOMAIN rows : rows[n].time <= t})]
Available(row) == row.rate > 0

Outages == {<<rows[n].time, rows[n + 1].time>> : n \in {m \in 1..(Len(rows) - 1) : ~Available(rows[m])}}

----------------------------------------------------------------------------
(* The simulator.  Events of one tick: rows, offers, then what packets do. *)

\* Whatever fails, the call raises and the temporary directory is removed.
Raise == phase' = "raised" /\ temporary' = FALSE

\* ns-3's own rounding of the serialization time.
SerializationOf(rate) == Serialization[rate] + replay.rounding

Idle == [packet |-> 0, until |-> 0]
Current == rows[applied]
RowDue == applied < Len(rows) - 1 /\ rows[applied + 1].time = now
EndDue == now = End /\ applied = Len(rows) - 1
OfferDue == offered < Count /\ OfferTime(offered + 1) = now
SendDue == sending # Idle /\ sending.until = now
ArrivalTime(p) == p.phy + p.serialization + p.delay
Arriving == {n \in 1..offered : packets[n].phy # None /\ packets[n].rx = None /\ ArrivalTime(packets[n]) = now}

Flushed(status) ==
  [n \in DOMAIN packets |->
     IF \E i \in DOMAIN queue : queue[i] = n THEN [packets[n] EXCEPT !.status = status] ELSE packets[n]]

\* Replay::Update, before any packet of its tick.
Update ==
  /\ phase = "simulate" /\ RowDue
  /\ applied' = applied + 1
  /\ IF Available(rows[applied']) THEN UNCHANGED <<packets, queue>>
     ELSE packets' = Flushed("outage_queue_drop") /\ queue' = <<>>
  /\ UNCHANGED <<link, replay, disk, source, phase, rows, now, offered, sending, target, temporary>>

FlushAtEnd ==
  /\ phase = "simulate" /\ EndDue
  /\ packets' = Flushed("end_of_window_drop") /\ queue' = <<>>
  /\ applied' = applied + 1
  /\ UNCHANGED <<link, replay, disk, source, phase, rows, now, offered, sending, target, temporary>>

Begun(packet) ==
  [packet EXCEPT !.phy = now, !.serialization = SerializationOf(Current.rate), !.delay = Current.delay]

\* Replay::Offer and what the device does with the packet: send it, queue it or drop it.
Offer ==
  /\ phase = "simulate" /\ ~RowDue /\ OfferDue
  /\ LET n == offered + 1
         fresh == [udp |-> now, phy |-> None, rx |-> None, serialization |-> 0, delay |-> 0, status |-> "unresolved"]
         add(packet) == packets' = Append(packets, packet)
     IN /\ offered' = n
        /\ IF ~Available(Current) THEN
             add([fresh EXCEPT !.udp = None, !.status = "outage_suppressed"]) /\ UNCHANGED <<queue, sending>>
           ELSE IF Len(queue) >= replay.queue THEN
             add([fresh EXCEPT !.status = "queue_drop"]) /\ UNCHANGED <<queue, sending>>
           ELSE IF sending # Idle THEN
             add(fresh) /\ queue' = Append(queue, n) /\ UNCHANGED sending
           ELSE
             /\ add(Begun(fresh)) /\ UNCHANGED queue
             /\ sending' = [packet |-> n, until |-> now + SerializationOf(Current.rate)]
  /\ UNCHANGED <<link, replay, disk, source, phase, rows, now, applied, target, temporary>>

\* The device has sent a packet and takes the next.  Replay::Transmit refuses one it should not see.
Complete ==
  /\ phase = "simulate" /\ ~RowDue /\ ~EndDue /\ ~OfferDue /\ SendDue
  /\ IF queue = <<>> THEN sending' = Idle /\ UNCHANGED <<packets, queue, phase, temporary>>
     ELSE IF now >= End \/ ~Available(Current) THEN Raise /\ UNCHANGED <<packets, queue, sending>>
     ELSE /\ packets' = [packets EXCEPT ![Head(queue)] = Begun(@)]
          /\ sending' = [packet |-> Head(queue), until |-> now + SerializationOf(Current.rate)]
          /\ queue' = Tail(queue) /\ UNCHANGED <<phase, temporary>>
  /\ UNCHANGED <<link, replay, disk, source, rows, now, applied, offered, target>>

Overlaps(start, stop) == \E o \in Outages : start < o[2] /\ o[1] < stop

\* Replay::Corrupt and Receive: a packet that overlaps an outage where it leaves or arrives is lost.
Received(p) ==
  [p EXCEPT !.rx = now, !.status =
     IF Overlaps(p.phy, p.phy + p.serialization) \/ Overlaps(p.phy + p.delay, now) THEN "rx_outage_drop"
     ELSE IF now < End THEN "received" ELSE "received_after_window"]

Arrive ==
  /\ phase = "simulate" /\ ~RowDue /\ ~EndDue /\ ~OfferDue /\ ~SendDue
  /\ Arriving # {}
  /\ packets' = [n \in DOMAIN packets |-> IF n \in Arriving THEN Received(packets[n]) ELSE packets[n]]
  /\ UNCHANGED <<link, replay, disk, source, phase, rows, now, applied, offered, queue, sending, target, temporary>>

\* Fault: the delay of the slowest packet is not waited for.
StopWithoutDelay ==
  LET used == {rows[n] : n \in 1..(Len(rows) - 1)}
  IN End + Max({0} \union {SerializationOf(r.rate) : r \in {s \in used : Available(s)}}) + 1

\* Simulator::Stop: one packet of the lowest rate and the longest delay after the end.
StopTime ==
  LET used == {rows[n] : n \in 1..(Len(rows) - 1)}
  IN End + Max({0} \union {SerializationOf(r.rate) : r \in {s \in used : Available(s)}})
         + Max({r.delay : r \in used}) + 1

Advance ==
  /\ phase = "simulate" /\ ~RowDue /\ ~EndDue /\ ~OfferDue /\ ~SendDue /\ Arriving = {}
  /\ IF now = StopTime THEN phase' = "parse" /\ UNCHANGED now ELSE now' = now + 1 /\ UNCHANGED phase
  /\ UNCHANGED <<link, replay, disk, source, rows, applied, offered, packets, queue, sending, target, temporary>>

----------------------------------------------------------------------------
(* The parser.                                                             *)

FullTimes == {"received", "received_after_window", "rx_outage_drop"}

\* Which of the times a packet of each status has.
HasItsTimes(p) ==
  /\ (p.status = "outage_suppressed") <=> p.udp = None
  /\ p.status \in FullTimes => p.phy # None /\ p.rx # None
  /\ p.status \notin FullTimes \union {"unresolved"} => p.phy = None /\ p.rx = None
  /\ p.status = "unresolved" => p.rx = None
  /\ p.status = "outage_queue_drop" => \E o \in Outages : p.udp < o[1] /\ o[1] < End

IsCausal(n, p) ==
  LET times == <<OfferTime(n), p.udp, p.phy, p.rx>>
  IN /\ \A i \in 1..4, k \in 1..4 : i < k /\ times[i] # None /\ times[k] # None => times[i] <= times[k]
     /\ p.udp < End /\ p.phy < End

\* Against the trace: the serialization seen is the nearest one give or take a tick.
FollowsTrace(p) ==
  p.phy # None =>
    LET row == RowAt(p.phy)
        expected == Serialization[row.rate]
        seen == IF p.rx = None THEN expected ELSE p.rx - p.phy - row.delay
        lost == \/ Overlaps(p.phy, p.phy + seen)
                \/ p.rx # None /\ Overlaps(p.rx - seen, p.rx)
    IN /\ Available(row)
       /\ seen >= 1 /\ seen - expected \in -1..1
       /\ p.status = "rx_outage_drop" => lost
       /\ p.status \in {"received", "received_after_window"} => ~lost

\* _validate_prepared: the trace starts at zero, ascends to the window's end and can be serialized.
IsPrepared ==
  /\ Len(rows) >= 2 /\ rows[1].time = 0 /\ rows[Len(rows)].time = End
  /\ \A n \in 1..(Len(rows) - 1) : rows[n].time < rows[n + 1].time
  /\ \A n \in DOMAIN rows : Available(rows[n]) => Serialization[rows[n].rate] >= 1

\* parse_packet_results.
Accepts(records) ==
  /\ IsPrepared /\ Len(records) = Count
  /\ \A n \in 1..Count :
       LET p == records[n]
       IN /\ HasItsTimes(p) /\ IsCausal(n, p)
          /\ (p.status = "outage_suppressed") <=> ~Available(RowAt(OfferTime(n)))
          /\ FollowsTrace(p)
          /\ p.status = "received" => p.rx < End
          /\ p.status = "received_after_window" => p.rx >= End

\* The summary: how many packets ended in each way.
Accounting(records) ==
  LET count(statuses) == Cardinality({n \in DOMAIN records : records[n].status \in statuses})
  IN [offered |-> Len(records), admitted |-> Len(records) - count({"outage_suppressed"}),
      received |-> count({"received", "received_after_window"}), within |-> count({"received"}),
      queued |-> count({"queue_drop"}), flushed |-> count({"outage_queue_drop", "end_of_window_drop"}),
      corrupted |-> count({"rx_outage_drop"})]

----------------------------------------------------------------------------
(* ReplaySource.from_results reads the directory one file at a time.       *)

Unread == [json |-> 0, tables |-> 0, digest |-> 0, disturbed |-> FALSE]
Reading == {"open", "verified", "listed", "loaded"}
Untouched == UNCHANGED <<link, replay, rows, now, applied, offered, packets, queue, sending, target>>

\* verify_manifest: the files there are those the manifest lists.
Whole == \A f \in DOMAIN disk : disk[f] = disk.manifest

\* One step of the reading: what it reads, unless it refuses.
Reads(from, to, accepted, read) ==
  /\ phase = from
  /\ IF accepted THEN phase' = to /\ source' = read /\ UNCHANGED temporary
     ELSE Raise /\ UNCHANGED source
  /\ UNCHANGED disk /\ Untouched

Verify == Reads("open", "verified", Whole, source)

\* results.json must list the tables' files with the digests the manifest has; the tables are then
\* decoded without a look at either.
ReadResults == Reads("verified", "listed", disk.manifest = disk.json, [source EXCEPT !.json = disk.json])
ReadTables == Reads("listed", "loaded", TRUE, [source EXCEPT !.tables = disk.tables])

\* The archived inputs must be those results.json records, and the manifest's digest is what later
\* readings are held against.
ReadInputs == Reads("loaded", "prepare", disk.inputs = source.json, [source EXCEPT !.digest = disk.manifest])

\* Another program puts a file of another run in its place, at any moment until the replay has the trace.
Edit ==
  /\ replay.fault = "results" /\ phase \in Reading \union {"prepare"}
  /\ \E f \in {g \in DOMAIN disk : disk[g] = 1} : disk' = [disk EXCEPT ![f] = 2]
  /\ source' = [source EXCEPT !.disturbed = @ \/ phase \in Reading \ {"open"}]
  /\ UNCHANGED <<phase, temporary>> /\ Untouched

----------------------------------------------------------------------------
(* _execute_packet_replay.  A replay's fault says what goes wrong, if      *)
(* anything: where a call fails it raises, and the temporary is removed.   *)

\* provenance: the directory is whole and its manifest the one read.
Provenance == Whole /\ disk.manifest = source.digest

\* _check_output_target: nothing is there, or an empty directory.
Free == target = "none"

BackendFails == replay.fault = "exit"
BackendChanged == replay.fault = "changed"

\* prepare_packet_replay, provenance, the output's check and the version the backend must give.
Prepare ==
  /\ phase = "prepare"
  /\ rows' = Trace
  /\ IF ~Provenance \/ ~Free \/ replay.fault = "handshake" THEN Raise
     ELSE phase' = "simulate" /\ temporary' = TRUE
  /\ UNCHANGED <<link, replay, disk, source, now, applied, offered, packets, queue, sending, target>>

\* Another process takes the target.
Take ==
  /\ replay.fault = "rival" /\ target = "none"
  /\ target' = "rival"
  /\ UNCHANGED <<link, replay, disk, source, phase, rows, now, applied, offered, packets, queue, sending, temporary>>

\* Fault: the executable's digest is taken once.
RefuseFailed == BackendFails \/ ~Accepts(packets)

\* The backend failed or is another file now, or its packets are not accepted.
Refused == BackendFails \/ BackendChanged \/ ~Accepts(packets)

Parse ==
  /\ phase = "parse"
  /\ IF Refused THEN Raise ELSE phase' = "publish" /\ UNCHANGED temporary
  /\ UNCHANGED <<link, replay, disk, source, rows, now, applied, offered, packets, queue, sending, target>>

\* The target is checked again; a rename over a rival's files fails.
Publish ==
  /\ phase = "publish"
  /\ IF ~Free THEN Raise /\ UNCHANGED target
     ELSE target' = "evidence" /\ temporary' = FALSE /\ phase' = "returned"
  /\ UNCHANGED <<link, replay, disk, source, rows, now, applied, offered, packets, queue, sending>>

Init ==
  /\ link \in Links /\ replay \in Replays
  /\ disk = [f \in {"json", "tables", "inputs", "manifest"} |-> 1] /\ source = Unread
  /\ phase = "open" /\ rows = <<>>
  /\ now = 0 /\ applied = 0 /\ offered = 0 /\ packets = <<>> /\ queue = <<>> /\ sending = Idle
  /\ target = "none" /\ temporary = FALSE

Next ==
  \/ Verify \/ ReadResults \/ ReadTables \/ ReadInputs \/ Edit
  \/ Prepare \/ Take \/ Parse \/ Publish
  \/ Update \/ FlushAtEnd \/ Offer \/ Complete \/ Arrive \/ Advance

Spec == Init /\ [][Next]_vars

----------------------------------------------------------------------------
(* Properties.                                                             *)

\* The trace is the link: at every tick the row held is the link's state less than half a tick later, by
\* the passes and segments themselves; no change of rate or visibility is lost between rows or by rounding.
TraceHolds ==
  rows # <<>> =>
    /\ rows[1].time = 0 /\ rows[Len(rows)].time = End
    /\ \A t \in 0..(End - 1) :
         LET h == Start + 3 * t + 1
             held == {s \in link.segments : s.start <= h /\ h < s.end /\ \E p \in link.passes : p.start <= h /\ h < p.end}
         IN RowAt(t).rate = Max({0} \union {s.rate : s \in held})

\* Whatever the links do at a packet's offer, transmission or reception, the simulation neither stops
\* early nor transmits in an outage, every packet is accounted for when it stops, and the parser, which
\* works from the trace alone, accepts the account: each admitted packet arrives or is lost in one way.
AccountAccepted ==
  /\ phase = "raised" => replay.fault # "none"
  /\ phase = "parse" =>
       LET total == Accounting(packets)
       IN /\ Accepts(packets)
          /\ total.admitted = total.received + total.queued + total.flushed + total.corrupted

\* Evidence is published only of a replay whose backend was checked before and after it ran and whose
\* packets are accepted, never over another's files, and a call that raises leaves no directory.  The
\* run it names was whole in the directory when the trace was prepared, and is the run whose tables were
\* replayed, unless files were replaced between being verified and the last of them being read.
EvidenceIsValidated ==
  /\ target = "evidence" =>
       /\ replay.fault \in {"none", "rival", "results"} /\ Accepts(packets) /\ phase = "returned"
       /\ Whole /\ disk.manifest = source.digest
       /\ source.disturbed \/ (source.json = source.digest /\ source.tables = source.digest)
  /\ phase \in {"raised", "returned"} => ~temporary
  /\ phase = "returned" => target = "evidence"
=============================================================================
