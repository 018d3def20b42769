---------------------------- MODULE NetworkReplay ----------------------------
(***************************************************************************)
(* The network replay of a saved run's route between two stations: the     *)
(* snapshots prepared from the routes held and the acquisition of the      *)
(* endpoints (replay/network_replay.py), the ns-3 simulation of a queue in *)
(* each direction of each link (adapters/ns3/openleo-network-replay.cc),   *)
(* the parser's account of packets, hops and queues                        *)
(* (replay/network_packet_io.py), and the publication of the evidence.     *)
(*                                                                         *)
(* Satellites are the nodes below Source.  Packets go both ways along the  *)
(* route, and a device serves whatever the route of the moment hands it:   *)
(* when a route turns round over a link that stays, packets for Source     *)
(* wait behind those for Target.                                           *)
(***************************************************************************)
EXTENDS Integers, Sequences, FiniteSets, SequencesExt, FiniteSetsExt

CONSTANTS Source, Target,   \* the stations' nodes
          Holdings,         \* [time -> frame]: the breakpoints with the route and the links they hold
          Replays,          \* [start, duration, acquisition, interval, flows, queue, rounding, fault]
          Serialization     \* Serialization[rate]: ticks to send a packet, before rounding

\* What goes wrong in a replay, if anything: an unknown version of the backend, its failure, another file in
\* its place, inputs it changed, files it left, or another process that takes the output.
Faults == {"none", "handshake", "exit", "changed", "traces", "artifact", "rival"}

Edge(u, v) == IF u < v THEN <<u, v>> ELSE <<v, u>>
EdgesOf(path) == {Edge(path[i], path[i + 1]) : i \in 1..(Len(path) - 1)}

\* A route is simple and connects only its endpoints.
IsRoute(path) ==
  /\ path \in Seq(Nat) /\ Len(path) >= 3 /\ path[1] = Source /\ path[Len(path)] = Target
  /\ \A i \in 2..(Len(path) - 1) : path[i] < Source
  /\ \A i, j \in 1..Len(path) : path[i] = path[j] => i = j

\* The settings and the routes as prepare_network_replay has checked them.  The grid of the saved run begins
\* at 0, so that there is always a breakpoint that holds a route; a route follows active links, and of every
\* link that a route takes each breakpoint has the state; a packet takes a tick or more to send, as the
\* simulator rounds it too.  Flows are four at most and an interval is 512 ns or more: none offers at the time of another.
ASSUME NetworkReplayAssumption ==
  /\ Source \in Nat /\ Target \in Nat /\ Source < Target
  /\ Replays \subseteq [start : Nat, duration : Nat \ {0}, acquisition : Nat, interval : Nat \ {0},
                        flows : Nat \ {0}, queue : Nat \ {0}, rounding : -1..1, fault : Faults]
  /\ \A r \in Replays : r.flows <= r.interval
  /\ \A held \in Holdings :
       LET taken == UNION {EdgesOf(held[t].path) : t \in DOMAIN held}
       IN /\ DOMAIN held \subseteq Nat /\ 0 \in DOMAIN held
          /\ \A t \in DOMAIN held :
               /\ held[t].path = <<>> \/ IsRoute(held[t].path)
               /\ taken \subseteq DOMAIN held[t].edges
               /\ \A e \in EdgesOf(held[t].path) : held[t].edges[e].rate > 0
               /\ \A e \in taken :
                    LET link == held[t].edges[e]
                    IN /\ link.rate \in Nat /\ link.delay \in Nat
                       /\ link.rate > 0 =>
                            /\ Serialization[link.rate] \in Nat \ {0}
                            /\ \A r \in Replays : Serialization[link.rate] + r.rounding >= 1

VARIABLES holding, replay,
          phase,            \* where _execute_network_replay is
          rows,             \* the prepared snapshots
          now, applied,     \* the simulator's clock, and how many snapshots it has applied
          offered,          \* how many packets have been offered
          packets,          \* the records, with their hops
          queue, sending,   \* of each device, by the nodes it joins
          target,           \* the output: "none", "rival" or "evidence"
          temporary         \* there is a temporary directory

simulator == <<now, applied, offered, packets, queue, sending>>
vars == <<holding, replay, phase, rows, simulator, target, temporary>>

None == -1
End == replay.duration

----------------------------------------------------------------------------
(* prepare_network_replay.                                                 *)

Ascending(S) == [n \in 1..Cardinality(S) |-> CHOOSE t \in S : Cardinality({u \in S : u < t}) = n - 1]
IsGround(edge) == edge[2] >= Source
Endpoints(path) == <<path[2], path[Len(path) - 1]>>
Selected(path) == {e \in EdgesOf(path) : IsGround(e)}

HeldAt(t) == holding[Max({h \in DOMAIN holding : h <= replay.start + t})]

Boundaries == Ascending({0} \union {t \in 1..(End - 1) : replay.start + t \in DOMAIN holding})

Unscanned == [shots |-> <<>>, pair |-> <<>>, ready |-> None]

\* One turn of the loop over the boundaries: a new pair of endpoints has to be acquired.
Turn(scan, n) ==
  LET t == Boundaries[n]
      next == IF n = Len(Boundaries) THEN End ELSE Boundaries[n + 1]
      frame == HeldAt(t)
      ready == IF Endpoints(frame.path) # scan.pair THEN t + replay.acquisition ELSE scan.ready
      first == [time |-> t, state |-> IF t < ready THEN "acquiring" ELSE "ready", frame |-> frame]
      late == IF t < ready /\ ready < next THEN <<[first EXCEPT !.time = ready, !.state = "ready"]>> ELSE <<>>
  IN IF frame.path = <<>>
     THEN [shots |-> Append(scan.shots, [time |-> t, state |-> "disconnected", frame |-> frame]),
           pair |-> <<>>, ready |-> None]
     ELSE [shots |-> Append(scan.shots, first) \o late, pair |-> Endpoints(frame.path), ready |-> ready]

\* Fault: the endpoints outlive a disconnection.
TurnKeepingPair(scan, n) ==
  IF HeldAt(Boundaries[n]).path = <<>> THEN [Turn(scan, n) EXCEPT !.pair = scan.pair, !.ready = scan.ready]
  ELSE Turn(scan, n)

SnapshotsKeepingPair ==
  LET scans[n \in 0..Len(Boundaries)] == IF n = 0 THEN Unscanned ELSE TurnKeepingPair(scans[n - 1], n)
  IN scans[Len(Boundaries)].shots

\* The loop, after so many boundaries.
Scans[n \in 0..Len(Boundaries)] == IF n = 0 THEN Unscanned ELSE Turn(Scans[n - 1], n)
Snapshots == Scans[Len(Boundaries)].shots

\* The tables: a ground link is there only while the route that takes it is ready.
Prepared ==
  LET shots == Snapshots
      union == UNION {EdgesOf(shots[n].frame.path) : n \in DOMAIN shots}
      state(shot, e) ==
        LET link == shot.frame.edges[e]
            up == link.rate > 0 /\ (IsGround(e) => shot.state = "ready" /\ e \in Selected(shot.frame.path))
        IN [rate |-> IF up THEN link.rate ELSE 0, delay |-> link.delay, available |-> up]
      row(shot) == [time |-> shot.time, state |-> shot.state,
                    path |-> IF shot.state = "ready" THEN shot.frame.path ELSE <<>>,
                    edges |-> [e \in union |-> state(shot, e)]]
      stop == [time |-> End, state |-> "stop", path |-> <<>>,
               edges |-> [e \in union |-> [rate |-> 0, delay |-> 0, available |-> FALSE]]]
  IN Append([n \in DOMAIN shots |-> row(shots[n])], stop)

\* Each flow offers at its own phase, in both directions: to the target, then to the source.
FlowPhase(flow) == (flow * replay.interval) \div replay.flows
FlowTimes ==
  Ascending(UNION {{t \in FlowPhase(flow)..(End - 1) : (t - FlowPhase(flow)) % replay.interval = 0}
                     : flow \in 0..(replay.flows - 1)})
OfferTimes == LET times == FlowTimes IN [n \in 1..(2 * Len(times)) |-> times[(n + 1) \div 2]]
Aim(n) == IF n % 2 = 1 THEN Target ELSE Source
Origin(aim) == IF aim = Target THEN Source ELSE Target

RowAt(t) == rows[Max({n \in DOMAIN rows : rows[n].time <= t})]

Outages(e) ==
  {<<rows[n].time, rows[n + 1].time>> : n \in {m \in 1..(Len(rows) - 1) : ~rows[m].edges[e].available}}
Overlaps(e, start, stop) == \E o \in Outages(e) : start < stop /\ start < o[2] /\ o[1] < stop

\* The next node of a packet: the path is taken backwards towards the source.
NextNode(row, node, aim) ==
  LET step == IF aim = Target THEN 1 ELSE -1
      places == {i \in DOMAIN row.path : i + step \in DOMAIN row.path}
  IN IF \E i \in places : row.path[i] = node
     THEN row.path[step + CHOOSE i \in places : row.path[i] = node] ELSE None

----------------------------------------------------------------------------
(* The simulator.  Events of one tick: snapshots, offers, then devices and *)
(* packets in the order they were scheduled in, which is left open.        *)

Idle == [packet |-> 0, until |-> 0]
Current == rows[applied]
UpdateDue == applied < Len(rows) /\ rows[applied + 1].time = now
OfferDue == offered < Len(OfferTimes) /\ OfferTimes[offered + 1] = now
Dynamic == phase = "simulate" /\ ~UpdateDue /\ ~OfferDue

SendingDone(link) == sending[link] # Idle /\ sending[link].until = now
LastHop(n) == packets[n].hops[Len(packets[n].hops)]
ArrivalDue(n) ==
  /\ packets[n].hops # <<>> /\ LastHop(n).rx = None
  /\ LastHop(n).tx + LastHop(n).serialization + LastHop(n).delay = now

Waits(n, link) == \E i \in DOMAIN queue[link] : queue[link][i] = n

\* Replay::Update: queues of links that are gone are flushed, and of all links at the stop.
Update ==
  /\ phase = "simulate" /\ UpdateDue
  /\ applied' = applied + 1
  /\ LET row == rows[applied']
         flushed == {link \in DOMAIN queue : ~row.edges[Edge(link[1], link[2])].available}
         status == IF row.state = "stop" THEN "end_of_window_drop" ELSE "outage_queue_drop"
     IN /\ queue' = [link \in DOMAIN queue |-> IF link \in flushed THEN <<>> ELSE queue[link]]
        /\ packets' = [n \in DOMAIN packets |->
             IF \E link \in flushed : Waits(n, link) THEN [packets[n] EXCEPT !.status = status] ELSE packets[n]]
  /\ UNCHANGED <<holding, replay, phase, rows, now, offered, sending, target, temporary>>

\* Whatever fails, the call raises and the temporary directory is removed.
Raise == phase' = "raised" /\ temporary' = FALSE
Proceed == UNCHANGED <<phase, temporary>>

\* Replay::Transmit.
Begun(n, link, records) ==
  LET edge == Current.edges[Edge(link[1], link[2])]
      hop == [from |-> link[1], to |-> link[2], tx |-> now, rx |-> None, rate |-> edge.rate, delay |-> edge.delay,
              serialization |-> Serialization[edge.rate] + replay.rounding, status |-> "unresolved"]
  IN [records EXCEPT ![n].hops = Append(@, hop)]

MayTransmit(link) == now < End /\ Current.edges[Edge(link[1], link[2])].available

Transmit(n, link, records) ==
  IF MayTransmit(link)
  THEN /\ packets' = Begun(n, link, records)
       /\ sending' = [sending EXCEPT ![link] = [packet |-> n, until |->
            now + Serialization[Current.edges[Edge(link[1], link[2])].rate] + replay.rounding]]
       /\ Proceed
  ELSE Raise /\ packets' = records /\ UNCHANGED sending

\* Fault: the packet that is sent counts in the queue.
SendCounting(n, link, records) ==
  IF sending[link] = Idle THEN Transmit(n, link, records) /\ UNCHANGED queue
  ELSE /\ Proceed /\ UNCHANGED sending
       /\ IF Len(queue[link]) + 1 >= replay.queue
          THEN packets' = [records EXCEPT ![n].status = "queue_drop"] /\ UNCHANGED queue
          ELSE packets' = records /\ queue' = [queue EXCEPT ![link] = Append(@, n)]

\* The device: it sends, queues or drops.
Send(n, link, records) ==
  IF sending[link] = Idle THEN Transmit(n, link, records) /\ UNCHANGED queue
  ELSE /\ Proceed /\ UNCHANGED sending
       /\ IF Len(queue[link]) >= replay.queue
          THEN packets' = [records EXCEPT ![n].status = "queue_drop"] /\ UNCHANGED queue
          ELSE packets' = records /\ queue' = [queue EXCEPT ![link] = Append(@, n)]

\* Replay::Offer.
Offer ==
  /\ phase = "simulate" /\ ~UpdateDue /\ OfferDue
  /\ LET n == offered + 1
         fresh == [aim |-> Aim(n), udp |-> now, rx |-> None, status |-> "unresolved", hops |-> <<>>]
         from == Origin(Aim(n))
         status == IF Current.state = "acquiring" THEN "acquisition_suppressed" ELSE "no_route"
     IN /\ offered' = n
        /\ IF Current.state = "ready"
           THEN Send(n, <<from, NextNode(Current, from, Aim(n))>>, Append(packets, fresh))
           ELSE /\ packets' = Append(packets, [fresh EXCEPT !.udp = None, !.status = status])
                /\ Proceed /\ UNCHANGED <<queue, sending>>
  /\ UNCHANGED <<holding, replay, rows, now, applied, target>>

\* A device has sent its packet and takes the next.
Complete(link) ==
  /\ SendingDone(link) /\ Dynamic
  /\ IF queue[link] = <<>> THEN sending' = [sending EXCEPT ![link] = Idle] /\ Proceed /\ UNCHANGED <<packets, queue>>
     ELSE /\ Transmit(Head(queue[link]), link, packets)
          /\ queue' = [queue EXCEPT ![link] = Tail(@)]
  /\ UNCHANGED <<holding, replay, rows, now, applied, offered, target>>

\* Replay::Corrupt.
Corrupted(hop) ==
  LET e == Edge(hop.from, hop.to)
  IN Overlaps(e, hop.tx, hop.tx + hop.serialization) \/ Overlaps(e, hop.tx + hop.delay, now)

\* Corrupt, then Receive at the packet's end, forwarding by the route of the moment, or IpDrop.
Arrive(n) ==
  /\ ArrivalDue(n) /\ Dynamic
  /\ LET hop == LastHop(n)
         lost == Corrupted(hop)
         done == [packets EXCEPT ![n].hops[Len(packets[n].hops)] =
                    [@ EXCEPT !.rx = now, !.status = IF lost THEN "rx_outage_drop" ELSE "received"]]
         aim == packets[n].aim
         onward == NextNode(Current, hop.to, aim)
         ended(status, rx) == /\ packets' = [done EXCEPT ![n].status = status, ![n].rx = rx]
                              /\ Proceed /\ UNCHANGED <<queue, sending>>
     IN IF lost THEN ended("rx_outage_drop", None)
        ELSE IF hop.to = aim THEN ended(IF now < End THEN "received" ELSE "received_after_window", now)
        ELSE IF onward = None THEN ended(IF now >= End THEN "end_of_window_drop" ELSE "route_drop", None)
        ELSE Send(n, <<hop.to, onward>>, done)
  /\ UNCHANGED <<holding, replay, rows, now, applied, offered, target>>

\* Simulator::Stop: a packet sent last may take this long.
StopTime ==
  End + 1 + Max({0} \union UNION {{Serialization[row.edges[e].rate] + replay.rounding + row.edges[e].delay
                                     : e \in {d \in DOMAIN row.edges : row.edges[d].available}}
                                    : row \in {rows[n] : n \in 1..(Len(rows) - 1)}})

Advance ==
  /\ Dynamic
  /\ \A link \in DOMAIN sending : ~SendingDone(link)
  /\ \A n \in DOMAIN packets : ~ArrivalDue(n)
  /\ IF now = StopTime THEN phase' = "parse" /\ UNCHANGED now ELSE now' = now + 1 /\ UNCHANGED phase
  /\ UNCHANGED <<holding, replay, rows, applied, offered, packets, queue, sending, target, temporary>>

----------------------------------------------------------------------------
(* The parser.                                                             *)

\* _validate_prepared: what the routes and links must be, checked again from the tables.
IsPrepared ==
  LET row(n) == rows[n]
  IN /\ Len(rows) >= 2 /\ row(1).time = 0 /\ row(Len(rows)).time = End
     /\ \A n \in 1..(Len(rows) - 1) : row(n).time < row(n + 1).time
     /\ \A n \in DOMAIN rows :
          LET ground == {e \in DOMAIN row(n).edges : IsGround(e) /\ row(n).edges[e].available}
          IN /\ (row(n).state = "stop") <=> (n = Len(rows))
             /\ \A e \in DOMAIN row(n).edges : (row(n).edges[e].rate > 0) <=> row(n).edges[e].available
             /\ row(n).state = "stop" => \A e \in DOMAIN row(n).edges : ~row(n).edges[e].available
             /\ row(n).state # "ready" => row(n).path = <<>> /\ ground = {}
             /\ row(n).state = "ready" =>
                  LET path == row(n).path
                  IN /\ Len(path) >= 3 /\ path[1] = Source /\ path[Len(path)] = Target
                     /\ \A i \in 2..(Len(path) - 1) : path[i] < Source
                     /\ Cardinality(ToSet(path)) = Len(path)
                     /\ ground = Selected(path)
                     /\ \A e \in EdgesOf(path) : row(n).edges[e].available

\* Where and when a packet was before its i-th hop.
Before(p, i) ==
  IF i = 1 THEN [node |-> Origin(p.aim), time |-> p.udp] ELSE [node |-> p.hops[i - 1].to, time |-> p.hops[i - 1].rx]
AtLast(p) == Before(p, Len(p.hops) + 1)

Suppressed == {"no_route", "acquisition_suppressed"}
Delivered == {"received", "received_after_window"}
InQueue == {"queue_drop", "outage_queue_drop", "end_of_window_drop", "unresolved"}

\* A packet's own row, against the route at its offer.
IsPacket(n, p) ==
  LET state == RowAt(OfferTimes[n]).state
  IN /\ p.aim = Aim(n)
     /\ p.status = "no_route" <=> state = "disconnected"
     /\ p.status = "acquisition_suppressed" <=> state = "acquiring"
     /\ p.udp = IF p.status \in Suppressed THEN None ELSE OfferTimes[n]
     /\ p.status \in Suppressed => p.hops = <<>>
     /\ (p.status \in Delivered) <=> p.rx # None
     /\ p.status \in Delivered => p.rx >= p.udp /\ (p.status = "received" <=> p.rx < End)

\* A hop is causal and follows the route at the decision and the link's state while it is sent.
IsHop(p, i) ==
  LET hop == p.hops[i]
      before == Before(p, i)
      e == Edge(hop.from, hop.to)
      state == RowAt(hop.tx).edges[e]
      seen == hop.rx - hop.tx - state.delay
  IN /\ before.time # None /\ before.time <= hop.tx /\ hop.tx < End
     /\ hop.from = before.node /\ hop.from # p.aim
     /\ i > 1 => p.hops[i - 1].status = "received"
     /\ NextNode(RowAt(before.time), hop.from, p.aim) = hop.to
     /\ ~Overlaps(e, before.time, hop.tx)
     /\ state.available /\ hop.rate = state.rate /\ hop.delay = state.delay
     /\ seen >= 1 /\ seen - Serialization[state.rate] \in -1..1
     /\ hop.status = IF Overlaps(e, hop.tx, hop.tx + seen) \/ Overlaps(e, hop.rx - seen, hop.rx)
                     THEN "rx_outage_drop" ELSE "received"

\* How a packet ended, against its hops.
EndsRight(p) ==
  LET lost == p.hops # <<>> /\ p.hops[Len(p.hops)].status = "rx_outage_drop"
      last == AtLast(p)
      reached == p.hops # <<>> /\ ~lost /\ last.node = p.aim
  IN /\ p.status \in Delivered <=> reached
     /\ reached => p.rx = last.time
     /\ p.status = "rx_outage_drop" <=> lost
     /\ p.status = "route_drop" => p.hops # <<>> /\ last.time < End /\ NextNode(RowAt(last.time), last.node, p.aim) = None
     /\ p.status \in InQueue =>
          IF last.time >= End THEN p.status \in {"end_of_window_drop", "unresolved"}
          ELSE /\ NextNode(RowAt(last.time), last.node, p.aim) # None
               /\ LET e == Edge(last.node, NextNode(RowAt(last.time), last.node, p.aim))
                  IN /\ p.status = "outage_queue_drop" => \E o \in Outages(e) : last.time < o[1] /\ o[1] < End
                     /\ p.status \in {"end_of_window_drop", "unresolved"} => ~Overlaps(e, last.time, End)

\* What went through a device: packets it sent, and packets that waited for it or found it full.
Served(link) ==
  LET taken(n) == {i \in DOMAIN packets[n].hops : <<packets[n].hops[i].from, packets[n].hops[i].to>> = link}
  IN UNION {{[packet |-> n, admitted |-> Before(packets[n], i).time, tx |-> packets[n].hops[i].tx,
              end |-> packets[n].hops[i].rx - packets[n].hops[i].delay, status |-> "transmit"]
               : i \in taken(n)} : n \in DOMAIN packets}

Left(link) ==
  LET e == Edge(link[1], link[2])
      release(p) == IF p.status # "outage_queue_drop" THEN End
                    ELSE Min({o[1] : o \in {q \in Outages(e) : q[1] > AtLast(p).time}})
  IN {[packet |-> n, admitted |-> AtLast(packets[n]).time, tx |-> None,
       end |-> release(packets[n]), status |-> packets[n].status]
        : n \in {m \in DOMAIN packets :
             LET p == packets[m]
             IN /\ p.status \in InQueue /\ AtLast(p).time < End
                /\ link = <<AtLast(p).node, NextNode(RowAt(AtLast(p).time), AtLast(p).node, p.aim)>>}}

\* The maximal runs of services without a pause of more than a tick.
RunEnd(served, t) ==
  LET begins == {s.tx : s \in {r \in served : \A q \in served : q.tx < r.tx => r.tx > q.end + 1}}
      begin == Max({b \in begins : b <= t})
  IN IF \A b \in begins : b > t THEN None
     ELSE Max({s.end : s \in {r \in served : r.tx >= begin /\ \A b \in begins : b > begin => r.tx < b}})

\* Services in the order of admission that start when they can, one at a time.
InOrderOfAdmission(served) ==
  \A s \in served :
    LET earlier == {q \in served : q.tx < s.tx}
        busy == Max({0} \union {q.end : q \in earlier})
    IN /\ \A q \in earlier : q.admitted <= s.admitted
       /\ s.tx - Max({s.admitted, busy}) \in -1..1

\* A packet that left unsent waited behind a device that was busy all the time, and nobody overtook it.
Waited(served, w) ==
  /\ w.end > w.admitted
  /\ RunEnd(served, w.admitted) # None /\ RunEnd(served, w.admitted) >= w.end - 1
  /\ ~\E s \in served : s.admitted > w.admitted /\ s.tx < w.end

\* The queue's length at every time, and that it is full where it drops.
WithinCapacity(served, left) ==
  LET queued == {s \in served : s.tx # s.admitted} \union {w \in left : w.status # "queue_drop"}
      leaves(q) == IF q.tx = None THEN q.end ELSE q.tx
      drops == {w.admitted : w \in {v \in left : v.status = "queue_drop"}}
      times == drops \union {q.admitted : q \in queued} \union {leaves(q) : q \in queued}
      before(t) == Cardinality({q \in queued : q.admitted < t}) - Cardinality({q \in queued : leaves(q) < t})
      after(t) == Cardinality({q \in queued : q.admitted <= t}) - Cardinality({q \in queued : leaves(q) <= t})
      instant(t) == Cardinality({s \in served : s.tx = t /\ s.admitted = t})
      ending(t) == \E s \in served : s.end = t /\ \A q \in served : q.tx < t => q.tx <= s.tx
      upper(t) == before(t) - Cardinality({q \in queued : q.tx = None /\ q.end = t})
                  + Cardinality({q \in queued : q.admitted = t}) + (IF ending(t) THEN instant(t) ELSE 0)
  IN \A t \in times : (t \in drops => upper(t) >= replay.queue) /\ after(t) \in 0..replay.queue

\* _validate_fifo.
IsFifo(link) ==
  LET served == Served(link)
      left == Left(link)
  IN /\ InOrderOfAdmission(served)
     /\ \A w \in left : w.status # "queue_drop" => Waited(served, w)
     /\ WithinCapacity(served, left)

\* _parse_network_results.
Accepts ==
  /\ IsPrepared
  /\ Len(packets) = Len(OfferTimes)
  /\ \A n \in DOMAIN packets :
       /\ IsPacket(n, packets[n])
       /\ \A i \in DOMAIN packets[n].hops : IsHop(packets[n], i)
       /\ EndsRight(packets[n])
  /\ \A link \in DOMAIN queue : IsFifo(link)

----------------------------------------------------------------------------
(* _execute_network_replay.                                                *)

Prepare ==
  /\ phase = "prepare"
  /\ rows' = Prepared
  /\ LET edges == DOMAIN rows'[1].edges
         links == edges \union {<<e[2], e[1]>> : e \in edges}
     IN queue' = [link \in links |-> <<>>] /\ sending' = [link \in links |-> Idle]
  /\ IF target # "none" \/ replay.fault = "handshake" THEN Raise
     ELSE phase' = "simulate" /\ temporary' = TRUE
  /\ UNCHANGED <<holding, replay, now, applied, offered, packets, target>>

\* Another process takes the target.
Take ==
  /\ replay.fault = "rival" /\ target = "none" /\ phase \in {"prepare", "simulate", "parse", "publish"}
  /\ target' = "rival"
  /\ UNCHANGED <<holding, replay, phase, rows, simulator, temporary>>

\* Fault: what the backend did to its inputs is not looked at.
RefusedButTraces == replay.fault \in {"exit", "changed", "artifact"} \/ ~Accepts

\* The backend failed, is another file now, changed its inputs or left other files, or is not accepted.
Refused == replay.fault \in {"exit", "changed", "traces", "artifact"} \/ ~Accepts

Parse ==
  /\ phase = "parse"
  /\ IF Refused THEN Raise ELSE phase' = "publish" /\ UNCHANGED temporary
  /\ UNCHANGED <<holding, replay, rows, simulator, target>>

Publish ==
  /\ phase = "publish"
  /\ IF target # "none" THEN Raise /\ UNCHANGED target
     ELSE target' = "evidence" /\ temporary' = FALSE /\ phase' = "returned"
  /\ UNCHANGED <<holding, replay, rows, simulator>>

Init ==
  /\ holding \in Holdings /\ replay \in Replays
  /\ phase = "prepare" /\ rows = <<>>
  /\ now = 0 /\ applied = 0 /\ offered = 0 /\ packets = <<>> /\ queue = <<>> /\ sending = <<>>
  /\ target = "none" /\ temporary = FALSE

Next ==
  \/ Prepare \/ Take \/ Parse \/ Publish
  \/ Update \/ Offer \/ Advance
  \/ \E link \in DOMAIN sending : Complete(link)
  \/ \E n \in DOMAIN packets : Arrive(n)

Spec == Init /\ [][Next]_vars

----------------------------------------------------------------------------
(* Properties.                                                             *)

\* The snapshots gate the ends: at every tick a route is ready just when its first and last satellite have
\* been those of the routes held for the whole acquisition delay, in this window and without a break; links
\* between satellites are up by themselves, and a ground link only for the ready route that takes it.
AcquisitionGates ==
  rows # <<>> =>
    \A t \in 0..(End - 1) :
      LET path == HeldAt(t).path
          same(u) == HeldAt(u).path # <<>> /\ Endpoints(HeldAt(u).path) = Endpoints(path)
          ready == t >= replay.acquisition /\ \A u \in (t - replay.acquisition)..t : same(u)
      IN /\ RowAt(t).state = IF path = <<>> THEN "disconnected" ELSE IF ready THEN "ready" ELSE "acquiring"
         /\ \A e \in DOMAIN RowAt(t).edges :
              RowAt(t).edges[e].available <=>
                HeldAt(t).edges[e].rate > 0 /\ (IsGround(e) => RowAt(t).state = "ready" /\ e \in EdgesOf(path))

\* Whatever the routes and links do while packets are offered, queued, sent and forwarded, the simulation
\* neither stops early nor sends on a link that is gone, every packet and hop is accounted for when it
\* stops, and the parser accepts the account: each packet's way, and each device as one bounded queue.
AccountAccepted ==
  /\ phase = "raised" => replay.fault # "none"
  /\ phase = "parse" =>
       /\ Accepts
       /\ \A n \in DOMAIN packets :
            packets[n].status # "unresolved" /\ \A i \in DOMAIN packets[n].hops : packets[n].hops[i].rx # None

\* Evidence is published only of a backend that was the same file before and after, that succeeded, kept its
\* inputs and left no other file, and whose account is accepted; never over another's files; and a call that
\* raises leaves no directory.
EvidenceIsValidated ==
  /\ target = "evidence" => replay.fault \in {"none", "rival"} /\ Accepts /\ phase = "returned"
  /\ phase \in {"raised", "returned"} => ~temporary
=============================================================================
