------------------------------ MODULE Routing ------------------------------
(***************************************************************************)
(* The route of one pair of stations at one breakpoint (engine/routing.py):*)
(* the graph of the three route models and the two heap loops over it,     *)
(* shortest_path and widest_path, an action for each entry popped.  Nodes  *)
(* are the satellites from 0 on, then the two stations.  Geometry is given *)
(* as its outcome, the links there are, with exact integer delays.  A heap *)
(* is a set: no entry is pushed twice, since each is better than the last. *)
(***************************************************************************)
EXTENDS Integers, Sequences, FiniteSets, FiniteSetsExt, Functions

CONSTANTS SatelliteCount,
          Worlds,         \* the links: [isl : [pairs -> delay], up, down : [satellites -> state]]
          IslCapacity, FixedCapacity,
          Infinity        \* more than any capacity: the bottleneck of no edge at all

Satellites == 0..(SatelliteCount - 1)
Source == SatelliteCount
Target == SatelliteCount + 1
Nodes == 0..Target
Pairs == {pair \in Satellites \X Satellites : pair[1] < pair[2]}
Models == {"minimum_delay", "maximum_rate", "fixed_capacity"}

ASSUME RoutingAssumption ==
  /\ SatelliteCount \in Nat \ {0} /\ Infinity \in Nat
  /\ IslCapacity \in 1..(Infinity - 1) /\ FixedCapacity \in 1..(Infinity - 1)
  \* Delay 0 stands for no link, as a delay is positive; rate 0 is a link without lock.
  /\ \A world \in Worlds :
       /\ world.isl \in [Pairs -> Nat]
       /\ world.up \in [Satellites -> [delay : Nat, rate : 0..(Infinity - 1)]]
       /\ world.down \in [Satellites -> [delay : Nat, rate : 0..(Infinity - 1)]]

VARIABLES world,    \* the links at the breakpoint
          model,    \* the route model
          phase,    \* "widen", "shorten" or "done": the loop that runs
          heap,     \* the entries to pop
          best,     \* the labelled nodes' best labels
          minimum,  \* minimum_capacity_bps
          route     \* the answer: None or the label of the target

vars == <<world, model, phase, heap, best, minimum, route>>

None == [path |-> <<>>]

----------------------------------------------------------------------------
(* The graph.                                                              *)

\* A visible link without lock is no edge, but to the fixed-capacity model.
Capacity(link) == IF model = "fixed_capacity" THEN FixedCapacity ELSE link.rate

Up(s) == [ends |-> {s, Source}, delay |-> world.up[s].delay, capacity |-> Capacity(world.up[s])]
Down(s) == [ends |-> {s, Target}, delay |-> world.down[s].delay, capacity |-> Capacity(world.down[s])]
Isl(pair) == [ends |-> {pair[1], pair[2]}, delay |-> world.isl[pair], capacity |-> IslCapacity]

Edges ==
  {edge \in {Up(s) : s \in Satellites} \union {Down(s) : s \in Satellites} \union {Isl(p) : p \in Pairs} :
     edge.delay > 0 /\ edge.capacity > 0}

----------------------------------------------------------------------------
(* shortest_path: labels are (delay, hops, path) with the bottleneck.      *)

Start == [delay |-> 0, hops |-> 0, path |-> <<Source>>, bottleneck |-> Infinity]
End(label) == label.path[Len(label.path)]

LexLess(p, q) == \E i \in DOMAIN p : p[i] < q[i] /\ \A k \in 1..(i - 1) : p[k] = q[k]

Less(a, b) ==
  \/ a.delay < b.delay
  \/ a.delay = b.delay /\ a.hops < b.hops
  \/ a.delay = b.delay /\ a.hops = b.hops /\ LexLess(a.path, b.path)

\* Fault: the heap is ordered by hops, and labels by delay.
FewestHops(label) == \A other \in heap : label.hops <= other.hops

First(label) == \A other \in heap \ {label} : Less(label, other)

Extended(label, node, edge) ==
  [delay |-> label.delay + edge.delay, hops |-> label.hops + 1,
   path |-> Append(label.path, node), bottleneck |-> Min({label.bottleneck, edge.capacity})]

\* Fault: the first label a node gets is its best.
ImprovesNothing(label) == End(label) \notin DOMAIN best

Improves(label) == End(label) \notin DOMAIN best \/ Less(label, best[End(label)])

Candidates(label) ==
  UNION {{Extended(label, node, edge) : edge \in {e \in Edges : e.ends = {node, End(label)} /\ e.capacity >= minimum}}
           : node \in Nodes \ Range(label.path)}

Labelled(labels) ==
  [node \in DOMAIN best \union {End(l) : l \in labels} |->
     IF \E l \in labels : End(l) = node
     THEN CHOOSE l \in labels : End(l) = node
     ELSE best[node]]

Pop ==
  /\ phase = "shorten"
  /\ \E label \in heap :
       /\ First(label)
       /\ IF best[End(label)] = label /\ End(label) = Target
          THEN phase' = "done" /\ route' = label /\ UNCHANGED <<heap, best>>
          ELSE LET better == IF best[End(label)] = label
                             THEN {l \in Candidates(label) : Improves(l)}
                             ELSE {}
               IN /\ heap' = (heap \ {label}) \union better
                  /\ best' = Labelled(better)
                  /\ UNCHANGED <<phase, route>>
  /\ UNCHANGED <<world, model, minimum>>

----------------------------------------------------------------------------
(* widest_path: labels are the bottleneck alone.                           *)

Wider(label) ==
  LET reached == UNION {{[node |-> node, capacity |-> Min({label.capacity, edge.capacity})]
                           : edge \in {e \in Edges : e.ends = {node, label.node}}} : node \in Nodes \ {label.node}}
  IN {l \in reached : l.node \notin DOMAIN best \/ l.capacity > best[l.node]}

PopWidest ==
  /\ phase = "widen"
  /\ \E label \in heap :
       /\ \A other \in heap : other.capacity <= label.capacity
       /\ \A other \in heap : other.capacity = label.capacity => other.node >= label.node
       /\ IF label.capacity = best[label.node] /\ label.node = Target
          THEN /\ phase' = "shorten"
               /\ minimum' = label.capacity
               /\ heap' = {Start}
               /\ best' = [node \in {Source} |-> Start]
          ELSE LET wider == IF label.capacity < best[label.node] THEN {} ELSE Wider(label)
               IN /\ heap' = (heap \ {label}) \union wider
                  /\ best' = [node \in DOMAIN best \union {l.node : l \in wider} |->
                                IF \E l \in wider : l.node = node
                                THEN (CHOOSE l \in wider : l.node = node).capacity
                                ELSE best[node]]
                  /\ UNCHANGED <<phase, minimum>>
  /\ UNCHANGED <<world, model, route>>

Exhaust ==
  /\ phase # "done"
  /\ heap = {}
  /\ phase' = "done"
  /\ UNCHANGED <<world, model, heap, best, minimum, route>>

----------------------------------------------------------------------------
Init ==
  /\ world \in Worlds
  /\ model \in Models
  /\ minimum = 0
  /\ route = None
  /\ \/ /\ model = "maximum_rate"
        /\ phase = "widen"
        /\ heap = {[node |-> Source, capacity |-> Infinity]}
        /\ best = [node \in {Source} |-> Infinity]
     \/ /\ model # "maximum_rate"
        /\ phase = "shorten"
        /\ heap = {Start}
        /\ best = [node \in {Source} |-> Start]

Next == Pop \/ PopWidest \/ Exhaust

Spec == Init /\ [][Next]_vars

----------------------------------------------------------------------------
(* Properties.                                                             *)

\* The routes there are, whatever the heap does: paths that meet no node twice, over links.
Paths ==
  {path \in UNION {[1..n -> Nodes] : n \in 2..(SatelliteCount + 2)} :
     path[1] = Source /\ path[Len(path)] = Target /\ IsInjective(path)}

Linked(path) == \A i \in 1..(Len(path) - 1) : \E e \in Edges : e.ends = {path[i], path[i + 1]}

Link(path, i) == CHOOSE e \in Edges : e.ends = {path[i], path[i + 1]}

Delay(path) ==
  LET sum[i \in 1..Len(path)] == IF i = 1 THEN 0 ELSE sum[i - 1] + Link(path, i - 1).delay
  IN sum[Len(path)]

Bottleneck(path) == Min({Link(path, i).capacity : i \in 1..(Len(path) - 1)})

Along(path) ==
  [delay |-> Delay(path), hops |-> Len(path) - 1, path |-> path, bottleneck |-> Bottleneck(path)]

Routes == {Along(path) : path \in {p \in Paths : Linked(p)}}

\* The routes the model chooses among: all, or those no other is wider than.
Eligible ==
  LET routes == Routes
  IN {r \in routes : model = "maximum_rate" => \A other \in routes : other.bottleneck <= r.bottleneck}

\* The answer is the first, by delay, hops and node indices, of the routes the
\* model chooses among, and None when there is none.  Greedy labels hide how the
\* widest prefix of a route may be of no use to it (widest_path's comment).
RouteIsBest ==
  phase = "done" =>
    LET eligible == Eligible
    IN IF eligible = {} THEN route = None
       ELSE /\ route \in eligible
            /\ \A other \in eligible \ {route} :
                 \/ route.delay < other.delay
                 \/ route.delay = other.delay /\ route.hops < other.hops
                 \/ /\ route.delay = other.delay /\ route.hops = other.hops
                    /\ LexLess(route.path, other.path)

\* A node whose best label has left the heap keeps it: what shortest_path returns
\* at the first such label of the target cannot be improved by going on.
SettledIsFinal ==
  [][phase = "shorten" /\ phase' = "shorten" =>
       \A node \in DOMAIN best : best[node] \notin heap => best'[node] = best[node]]_vars
=============================================================================
