------------------------------ MODULE Timeline ------------------------------
(***************************************************************************)
(* One station over a window, from elevations to metrics: the passes of    *)
(* satellite 0 are searched (Events), those of the others are given, every *)
(* pass is tiled by rate segments, and the station's links are compared    *)
(* and routed (Statistics).  engine/run.py does the same per station.      *)
(*                                                                         *)
(* Delays and the links between satellites move from tick to tick (Sky);   *)
(* a route reads them at its breakpoints only.  The target is a second     *)
(* station, whose links last through the window.                           *)
(***************************************************************************)
EXTENDS Events

CONSTANTS Others,        \* per other satellite, its pair: [passes, segments]
          Sky,           \* Sky[t]: [delay, of the station's links; target, its links; isl, the others']
          IslRate, FixedRate

Satellites == {0} \union DOMAIN (CHOOSE o \in Others : TRUE)

\* Intervals that do not overlap and do not start at once.
Apart(intervals) ==
  /\ \A x \in intervals : x.start \in Ticks /\ x.end \in Ticks /\ x.start <= x.end
  /\ \A x, y \in intervals :
       x # y => (x.start < y.start /\ x.end <= y.start) \/ (y.start < x.start /\ y.end <= x.start)

\* Passes, and segments that lie in them.
IsPair(pair) ==
  /\ Apart(pair.passes) /\ Apart(pair.segments)
  /\ \A s \in pair.segments : s.start < s.end /\ \E p \in pair.passes : p.start <= s.start /\ s.end <= p.end

\* The other pairs are what the search and the schedule made of them, as they make that of satellite 0 here.
ASSUME TimelineAssumption ==
  \A others \in Others :
    /\ Satellites = {0} \union DOMAIN others /\ 0 \notin DOMAIN others
    /\ \A s \in DOMAIN others : IsPair(others[s])

\* The target sees a satellite all the time or never, at one rate.
ASSUME SkyAssumption ==
  /\ IslRate \in Nat \ {0} /\ FixedRate \in Nat \ {0}
  /\ \A t \in Ticks :
       /\ Sky[t].delay \in [Satellites -> Nat]
       /\ Sky[t].isl \in [DOMAIN Sky[t].isl -> Nat] /\ DOMAIN Sky[t].isl \subseteq SUBSET Satellites
       /\ DOMAIN Sky[t].target = Satellites
       /\ \A s \in Satellites : Sky[t].target[s].rate = Sky[0].target[s].rate

VARIABLES pairs,      \* every satellite's passes and rate segments
          result,     \* what the run reports, once it has
          links       \* history: every satellite's rate at every tick, -1 where it is not visible

vars == <<eventsVars, pairs, result, links>>

Stats == INSTANCE Statistics

NoResult == [accepted |-> {}]
RouteModels == {"minimum_delay", "maximum_rate", "fixed_capacity"}

Instants == 0..(Window - 1)

\* The maximal runs of ticks of one rate within a pass (what Acm's schedule is without a delay).
Segments(pass, rate) ==
  {s \in {[start |-> a, end |-> b, rate |-> rate[a]] :
            a \in pass.start..(pass.end - 1), b \in (pass.start + 1)..pass.end} :
     /\ s.start < s.end /\ \A t \in s.start..(s.end - 1) : rate[t] = s.rate
     /\ s.start = pass.start \/ rate[s.start - 1] # s.rate
     /\ s.end = pass.end \/ rate[s.end] # s.rate}

\* Events off, the last sample's elevation holds; the rate grows with it, from none at the mask.
Shown(t) == IF setup.events THEN world[t] ELSE world[Max({u \in grid : u <= t})]
RateOf(t) == IF Shown(t) > 0 THEN Shown(t) ELSE 0

\* By looking at every interval: at a shared end the next one's rate holds, at a pass's end nothing.
LinkAt(pair, t) ==
  IF ~\E p \in pair.passes : p.start <= t /\ t < p.end THEN -1
  ELSE Max({0} \union {g.rate : g \in {h \in pair.segments : h.start <= t /\ t < h.end}})

\* Where the delay of satellite s is read for a breakpoint t: events off, a pass may end past the mask, where
\* there is no link to read it from, and the last sample has it.  The other pairs are in sight where they have a pass.
Reading(s, t) ==
  IF s = 0 /\ ~setup.events /\ world[t] < 0 THEN Max({u \in grid : u <= t}) ELSE t

\* The sky as it is read for a breakpoint.
Seen(t) == [Sky[t] EXCEPT !.delay = [s \in Satellites |-> Sky[Reading(s, t)].delay[s]]]

Tile ==
  /\ phase = "found"
  /\ LET rate == [t \in Instants |-> RateOf(t)]
     IN pairs' = [s \in Satellites |->
          IF s = 0 THEN [passes |-> passes, segments |-> UNION {Segments(p, rate) : p \in passes}] ELSE pairs[s]]
  /\ links' = [t \in Instants |-> [s \in Satellites |-> LinkAt(pairs'[s], t)]]
  /\ phase' = "tiled"
  /\ UNCHANGED <<setup, world, grid, times, pieces, level, brackets, passes, result>>

\* The metrics, when every pair passes its checks.
Report ==
  /\ phase = "tiled"
  /\ LET accepted == {s \in Satellites : Stats!IsAccepted(pairs[s])}
     IN result' = IF accepted # Satellites THEN [accepted |-> accepted]
          ELSE [accepted |-> accepted, envelope |-> Stats!Envelope(pairs), station |-> Stats!StationMetrics(pairs),
                rows |-> UNION {{Stats!PassRow(pairs[s], p) : p \in pairs[s].passes} \X {s} : s \in Satellites},
                routes |-> [m \in RouteModels |-> Stats!RouteIntervals(grid, pairs, m, [t \in Ticks |-> Seen(t)])]]
  /\ phase' = "reported"
  /\ UNCHANGED <<setup, world, grid, times, pieces, level, brackets, passes, pairs, links>>

Search == EventsNext /\ UNCHANGED <<pairs, result, links>>

Init == EventsInit /\ pairs \in Others /\ result = NoResult /\ links = <<>>

Next == Search \/ Tile \/ Report

Spec == Init /\ [][Next]_vars

----------------------------------------------------------------------------
(* Properties.                                                             *)

\* The checks of statistics.py on what a search found never fail: passes and segments are ordered and
\* disjoint and every segment lies in its pass, whatever roots were found, and zero-length passes too.
PairsAccepted == phase = "reported" => result.accepted = Satellites

Up(t) == {s \in Satellites : links[t][s] > 0}
TrueBest(t) ==
  IF Up(t) = {} THEN -1 ELSE Min({s \in Up(t) : \A r \in Up(t) : links[t][r] <= links[t][s]})

SumSecond(set) == FoldSet(LAMBDA p, sum : sum + p[2], 0, set)

\* The envelope and the station's metrics are what watching the station at every time gives: the
\* best rate, the lower index of equals, availability without double counting, every handover once.
\* So are the usable time and the bits of each pass, whose segments are found by their starts.
EnvelopeIsBest ==
  phase = "reported" =>
    LET best == [t \in Instants |-> TrueBest(t)]
        envelope == {result.envelope[i] : i \in DOMAIN result.envelope}
    IN /\ \A t \in Instants :
            best[t] # -1 => \E i \in envelope : i.start <= t /\ t < i.end /\ i.value = <<best[t], links[t][best[t]]>>
       /\ result.station = [
            visible |-> Cardinality({t \in Instants : \E s \in Satellites : links[t][s] # -1}),
            usable |-> Cardinality({t \in Instants : best[t] # -1}),
            bits |-> SumSecond({<<t, links[t][best[t]]>> : t \in {u \in Instants : best[u] # -1}}),
            handovers |-> Cardinality({t \in 1..(Window - 1) : best[t - 1] # -1 /\ best[t] # -1 /\ best[t] # best[t - 1]})]
       /\ \A row \in result.rows :
            LET during == {t \in row[1].aos..(row[1].los - 1) : links[t][row[2]] > 0}
            IN /\ row[1].usable = Cardinality(during)
               /\ row[1].bits = SumSecond({<<t, links[t][row[2]]>> : t \in during})

\* No older than the last sample at or before t.
Fresh(t) == {b \in Instants : b <= t /\ ~\E u \in grid : b < u /\ u <= t}

\* The links of tick t, with the sky of tick b but for the delay of satellite 0, read at tick q.
Graph(t, b, q) ==
  [source |-> [s \in Satellites |-> IF links[t][s] = -1 THEN Stats!NoLink
                 ELSE [rate |-> links[t][s], delay |-> Sky[IF s = 0 THEN q ELSE b].delay[s]]],
   target |-> Sky[b].target, isl |-> Sky[b].isl]

\* The route held at any time is the best over the links and the rates of that very time, with
\* delays and links between satellites read no longer ago than the last sample, and the delay of a
\* link never where its satellite is out of sight, on a grid fine enough for the passes: a rate, a
\* lock or a pass that changes between samples is resolved, a delay or a satellite's neighbour is
\* not.  The metrics count connected time, delivered bits, delay and changes of nodes as an observer
\* of the routes held does.
RoutesHold ==
  phase = "reported" => \A m \in RouteModels :
    LET intervals == result.routes[m]
        held == [t \in Instants |->
          LET i == CHOOSE i \in DOMAIN intervals : intervals[i].start <= t /\ t < intervals[i].end
          IN intervals[i].value]
        connected == {t \in Instants : held[t] # Stats!NoRoute}
    IN /\ \A t \in Instants : \E b, q \in Fresh(t) :
            /\ held[t] = Stats!Route(m, Graph(t, b, q))
            /\ links[t][0] # -1 /\ (setup.events => IsFine) => world[q] >= 0
       /\ Stats!RouteMetrics(intervals) = [
            connected |-> Cardinality(connected),
            bits |-> SumSecond({<<t, held[t].bottleneck>> : t \in connected}),
            delay |-> SumSecond({<<t, held[t].delay>> : t \in connected}),
            changes |-> Cardinality({t \in connected \ {0} :
              t - 1 \in connected /\ held[t - 1].nodes # held[t].nodes})]
=============================================================================
