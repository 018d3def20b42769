----------------------------- MODULE Statistics -----------------------------
(***************************************************************************)
(* From passes to numbers (engine/statistics.py, engine/integrate.py and   *)
(* the time axis of engine/routing.py): the checks on a pair's intervals,  *)
(* measures of unions of intervals, the envelope of the best links, and    *)
(* the routes of a pair of stations held between breakpoints.  Times are   *)
(* integers, an interval is a record with start and end, and includes its  *)
(* start but not its end.  A pair is [satellite, passes, segments].        *)
(***************************************************************************)
EXTENDS Integers, Sequences, FiniteSets, SequencesExt

CONSTANTS Satellites,     \* their indices
          IslRate,        \* the capacity of a link between satellites
          FixedRate       \* fixed_capacity_bps

None == -1
Best(set) == CHOOSE m \in set : \A n \in set : n <= m
Least(set) == CHOOSE m \in set : \A n \in set : m <= n

\* A set in a total order, smallest first.
InOrder(set, less(_, _)) ==
  [n \in 1..Cardinality(set) |-> CHOOSE x \in set : Cardinality({y \in set : less(y, x)}) = n - 1]

Sorted(intervals) ==
  InOrder(intervals, LAMBDA a, b : a.start < b.start \/ (a.start = b.start /\ a.end < b.end))

\* Fault: bisect_left.
LastStartedBefore(intervals, t) ==
  Best({None} \union {i \in DOMAIN intervals : intervals[i].start < t})

\* bisect_right(starts, t) - 1: the last interval that has started, or None.
LastStarted(intervals, t) ==
  Best({None} \union {i \in DOMAIN intervals : intervals[i].start <= t})

----------------------------------------------------------------------------
(* Integration.                                                            *)

\* Touching and overlapping intervals are one run, measured end to end.
Measure(intervals) ==
  LET Join(run, i) ==
        IF run.end # None /\ i.start <= run.end THEN [run EXCEPT !.end = Best({@, i.end})]
        ELSE [sum |-> run.sum + run.end - run.start, start |-> i.start, end |-> i.end]
      last == FoldLeft(Join, [sum |-> 0, start |-> None, end |-> None],
                       Sorted({[start |-> i.start, end |-> i.end] : i \in {j \in intervals : j.start < j.end}}))
  IN last.sum + last.end - last.start

\* Of values by interval.
Piecewise(value) == FoldSet(LAMBDA i, sum : sum + value[i] * (i.end - i.start), 0, DOMAIN value)

----------------------------------------------------------------------------
(* Pairs and stations.                                                     *)

\* _pair_intervals: ordered, disjoint, and every segment within the pass that holds its start.
IsAccepted(pair) ==
  LET spans == Sorted(pair.passes)
      disjoint(items) ==
        /\ \A i \in DOMAIN items : items[i].start <= items[i].end
        /\ \A i \in 1..(Len(items) - 1) : items[i].end <= items[i + 1].start
  IN /\ disjoint(spans) /\ disjoint(Sorted(pair.segments))
     /\ \A s \in pair.segments :
          LET index == LastStarted(spans, s.start) IN index # None /\ s.end <= spans[index].end

\* Fault: an equal rate takes the link over.
BestOfEqual(pairs, t) ==
  LET rate(s) == Best({0} \union {g.rate : g \in {h \in pairs[s].segments : h.start <= t /\ t < h.end}})
      top == Best({rate(s) : s \in Satellites})
  IN IF top = 0 THEN <<None, 0>> ELSE <<Best({s \in Satellites : rate(s) = top}), top>>

\* The satellite with the highest rate from a cut on; the lowest index of equals; none without a rate.
BestAt(pairs, t) ==
  LET rate(s) == Best({0} \union {g.rate : g \in {h \in pairs[s].segments : h.start <= t /\ t < h.end}})
      top == Best({rate(s) : s \in Satellites})
  IN IF top = 0 THEN <<None, 0>> ELSE <<Least({s \in Satellites : rate(s) = top}), top>>

\* Values by time, held from each time to the next, with equal neighbours merged.
Held(value) ==
  LET all == InOrder(DOMAIN value, <)
      starts == SelectSeq([i \in 1..(Len(all) - 1) |-> i],
                          LAMBDA i : i = 1 \/ value[all[i]] # value[all[i - 1]])
  IN [n \in DOMAIN starts |->
        [start |-> all[starts[n]],
         end |-> IF n = Len(starts) THEN Last(all) ELSE all[starts[n + 1]],
         value |-> value[all[starts[n]]]]]

Cuts(pairs) ==
  UNION {UNION {{g.start, g.end} : g \in {h \in pairs[s].segments : h.start < h.end}} : s \in Satellites}

\* best_link_segments.
Envelope(pairs) == IF Cuts(pairs) = {} THEN <<>> ELSE Held([t \in Cuts(pairs) |-> BestAt(pairs, t)])

\* bisect_left(starts, t): how many of the intervals start before a time.
StartedBefore(intervals, t) == Cardinality({i \in DOMAIN intervals : intervals[i].start < t})

\* _pass_rows: the segments of a pass are those that start in it.
PassRow(pair, pass) ==
  LET tiles == Sorted(pair.segments)
      inside == {tiles[i] : i \in (StartedBefore(tiles, pass.start) + 1)..StartedBefore(tiles, pass.end)}
  IN [aos |-> pass.start, los |-> pass.end,
      usable |-> Measure({g \in inside : g.rate > 0}), bits |-> Piecewise([g \in inside |-> g.rate])]

\* station_metrics, as sums over the window.
StationMetrics(pairs) ==
  LET envelope == Envelope(pairs)
  IN [visible |-> Measure(UNION {pairs[s].passes : s \in Satellites}),
      usable |-> Measure(UNION {{g \in pairs[s].segments : g.rate > 0} : s \in Satellites}),
      bits |-> Piecewise([i \in {envelope[n] : n \in DOMAIN envelope} |-> i.value[2]]),
      handovers |-> Cardinality({i \in 2..Len(envelope) :
        /\ envelope[i - 1].value[1] # None /\ envelope[i].value[1] # None
        /\ envelope[i - 1].value[1] # envelope[i].value[1]})]

----------------------------------------------------------------------------
(* Routes, from one station, the source, to another, the target.           *)

\* Fault: the rate segments are not breakpoints.
PassBreakpoints(grid, pairs) ==
  grid \union UNION {UNION {{i.start, i.end} : i \in pairs[s].passes} : s \in Satellites}

RouteBreakpoints(grid, pairs) ==
  grid \union UNION {UNION {{i.start, i.end} : i \in pairs[s].passes \union pairs[s].segments} : s \in Satellites}

\* Where a station does not see a satellite.
NoLink == [rate |-> None, delay |-> None]

\* link_state_from_pairs: no link, or the rate of the segment that holds t and the delay read for t.
LinkState(pair, t, delay) ==
  LET spans == Sorted(pair.passes)
      tiles == Sorted(pair.segments)
      pass == LastStarted(spans, t)
      segment == LastStarted(tiles, t)
  IN IF pass = None \/ t >= spans[pass].end THEN NoLink
     ELSE [rate |-> IF segment # None /\ t < tiles[segment].end THEN tiles[segment].rate ELSE 0,
           delay |-> delay]

Chains ==
  {p \in UNION {[1..n -> Satellites] : n \in 1..Cardinality(Satellites)} : IsInjective(p)}

\* Fewer hops, then lower indices.
Precedes(p, q) ==
  \/ Len(p) < Len(q)
  \/ Len(p) = Len(q) /\ \E i \in DOMAIN p : p[i] < q[i] /\ \A k \in 1..(i - 1) : p[k] = q[k]

NoRoute == [nodes |-> None, delay |-> None, bottleneck |-> 0]

\* On a graph [source, target : a link per satellite, isl : a delay per two satellites in reach]: what
\* Routing's loops answer on it.
Route(model, graph) ==
  LET capacity(link) == IF model = "fixed_capacity" /\ link # NoLink THEN FixedRate ELSE link.rate
      hops(p) == [i \in 1..(Len(p) - 1) |-> {p[i], p[i + 1]}]
      usable == {p \in Chains : /\ capacity(graph.source[p[1]]) > 0 /\ capacity(graph.target[Last(p)]) > 0
                                /\ Range(hops(p)) \subseteq DOMAIN graph.isl}
      over(p) == [nodes |-> p,
                  delay |-> graph.source[p[1]].delay + graph.target[Last(p)].delay
                            + FoldLeft(LAMBDA sum, hop : sum + graph.isl[hop], 0, hops(p)),
                  bottleneck |-> Least({capacity(graph.source[p[1]]), capacity(graph.target[Last(p)])}
                                       \union {IslRate : hop \in Range(hops(p))})]
      width(r) == IF model = "maximum_rate" THEN r.bottleneck ELSE 0
      better(r, q) == \/ width(r) > width(q)
                      \/ width(r) = width(q)
                         /\ (r.delay < q.delay \/ (r.delay = q.delay /\ Precedes(r.nodes, q.nodes)))
      routes == {over(p) : p \in usable}
  IN IF routes = {} THEN NoRoute ELSE CHOOSE r \in routes : \A q \in routes \ {r} : better(r, q)

\* evaluate_routes, for one pair of stations and one model: sky[t] has the target's links, the links between
\* the satellites and the delays of the source's links as they are read for a breakpoint t.
RouteIntervals(grid, pairs, model, sky) ==
  Held([t \in RouteBreakpoints(grid, pairs) |->
          Route(model, [source |-> [s \in Satellites |-> LinkState(pairs[s], t, sky[t].delay[s])],
                        target |-> sky[t].target, isl |-> sky[t].isl])])

\* route_metrics: a change is between neighbours that are both connected.
RouteMetrics(intervals) ==
  LET connected == {intervals[i] : i \in {k \in DOMAIN intervals : intervals[k].value # NoRoute}}
  IN [connected |-> Measure(connected),
      bits |-> Piecewise([i \in connected |-> i.value.bottleneck]),
      delay |-> Piecewise([i \in connected |-> i.value.delay]),
      changes |-> Cardinality({i \in 2..Len(intervals) :
        /\ intervals[i - 1].value # NoRoute /\ intervals[i].value # NoRoute
        /\ intervals[i - 1].end = intervals[i].start
        /\ intervals[i - 1].value.nodes # intervals[i].value.nodes})]
=============================================================================
