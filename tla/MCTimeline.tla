----------------------------- MODULE MCTimeline -----------------------------
(***************************************************************************)
(* Small windows for Timeline: an elevation changes at every tick, by at   *)
(* most MaxSlope, turns MaxTurns times and stays near the mask; the step   *)
(* divides the window or not, and is refined or not.                       *)
(***************************************************************************)
EXTENDS Timeline, TLC

CONSTANTS MaxElevation, MaxSlope, MaxTurns

Rising(walk, n) == walk[n] > walk[n - 1]
Turns(walk) == Cardinality({n \in DOMAIN walk \ {0} : n - 1 # 0 /\ Rising(walk, n) # Rising(walk, n - 1)})

Walks ==
  LET Heights == (-MaxElevation)..MaxElevation
      walk[n \in 0..Window] ==
        IF n = 0 THEN {0 :> -1, 0 :> 1}
        ELSE {w \in UNION {{v @@ (n :> h) : h \in {g \in Heights :
                              g # v[n - 1] /\ g - v[n - 1] \in (-MaxSlope)..MaxSlope}} : v \in walk[n - 1]} :
                Turns(w) <= MaxTurns}
  IN walk[Window]

MCSetups ==
  {[step |-> 3, factor |-> 1, events |-> TRUE], [step |-> 3, factor |-> 2, events |-> TRUE],
   [step |-> 7, factor |-> 1, events |-> TRUE], [step |-> 3, factor |-> 1, events |-> FALSE]}

GivenPair(rates) ==
  LET shown == {p \in [start : Ticks, end : Ticks] :
        /\ p.start < p.end /\ \A t \in p.start..(p.end - 1) : rates[t] >= 0
        /\ p.start = 0 \/ rates[p.start - 1] < 0
        /\ p.end = Window \/ rates[p.end] < 0}
  IN [passes |-> shown, segments |-> UNION {Segments(p, rates) : p \in shown}]

\* A satellite that is up at the start, rises again, loses lock for a while and is up at the end.
MCOthers == {1 :> GivenPair(0 :> 2 @@ 1 :> 1 @@ 2 :> -1 @@ 3 :> -1 @@ 4 :> 1 @@ 5 :> 1 @@ 6 :> 0 @@ 7 :> 2)}

\* The target sees satellite 1 only; the satellites lose each other for a while, and the station's delays cross.
MCSky ==
  [t \in Ticks |->
     [delay |-> 0 :> 7 - t @@ 1 :> t + 1,
      target |-> 0 :> [rate |-> -1, delay |-> -1] @@ 1 :> [rate |-> 2, delay |-> 1],
      isl |-> IF t \in 2..3 THEN <<>> ELSE {0, 1} :> IF t < 2 THEN 1 ELSE 0]]
=============================================================================
