------------------------------- MODULE Events -------------------------------
(***************************************************************************)
(* The passes of one station and satellite over a window: the time grid    *)
(* (engine/timegrid.py) and the search on it (engine/events.py) for        *)
(* extrema, breakpoints and the roots that are a pass's start and end.     *)
(*                                                                         *)
(* Time is in ticks: one is the microsecond of the grid and the tolerance  *)
(* of the roots.  Elevations are whole steps above the mask, which is 0.   *)
(* A trial point of the root finder is any tick strictly inside its        *)
(* bracket, and a golden-section search ends at the best tick of its own.  *)
(***************************************************************************)
EXTENDS Integers, FiniteSets, FiniteSetsExt

CONSTANTS Window,     \* the window's length
          Setups,     \* [step, factor (of the refinement), events (on or off)]
          Worlds,     \* elevations over the window
          MaxLevels   \* MAX_BISECTION_LEVELS

Ticks == 0..Window

ASSUME EventsAssumption ==
  /\ Window \in Nat \ {0} /\ MaxLevels \in Nat
  /\ Setups \subseteq [step : 1..Window, factor : Nat \ {0}, events : BOOLEAN]
  /\ \A world \in Worlds : world \in [Ticks -> Int]

VARIABLES setup,
          world,      \* the elevation at every tick
          phase,      \* what the search does next
          grid,       \* the ticks sampled
          times,      \* the breakpoints
          pieces,     \* <<start, end>> intervals to bisect
          level,      \* how often they have been bisected
          brackets,   \* per crossing <<before, after>>: what the root finder knows
          passes

eventsVars == <<setup, world, phase, grid, times, pieces, level, brackets, passes>>

----------------------------------------------------------------------------
(* The grid.                                                               *)

\* The window's end is a sample, on the step or not.
BuildGrid(step) == {t \in Ticks : t % step = 0} \union {Window}

After(set, t) == Min({u \in set : u > t})
Before(set, t) == Max({u \in set : u < t})
Intervals(set) == {<<t, After(set, t)>> : t \in set \ {Max(set)}}

\* Fault: the inserted points alone, the last interval's end left to the parts.
RefineParts(coarse, factor) ==
  {i[1] + (2 * (i[2] - i[1]) * part + factor) \div (2 * factor) : i \in Intervals(coarse), part \in 0..(factor - 1)}

\* Equal parts, each point at its nearest microsecond, halves up; points that meet are one.
Refine(coarse, factor) ==
  {Window} \union
  {i[1] + (2 * (i[2] - i[1]) * part + factor) \div (2 * factor) : i \in Intervals(coarse), part \in 0..(factor - 1)}

----------------------------------------------------------------------------
(* Breakpoints.                                                            *)

Visible(t) == world[t] >= 0

\* The samples before and after, or the sample itself at the window's ends.
Around(t) == {t} \union {u \in grid : u > t /\ ~\E v \in grid : t < v /\ v < u}
                 \union {u \in grid : u < t /\ ~\E v \in grid : u < v /\ v < t}

\* The first sample of a plateau stands for it.
IsExtremum(sense, t) ==
  \A u \in Around(t) \ {t} : IF u < t THEN sense * world[u] < sense * world[t]
                                      ELSE sense * world[u] <= sense * world[t]

Refinement(sense, t) ==
  LET inside == Min(Around(t))..Max(Around(t))
  IN {CHOOSE best \in inside : \A u \in inside : sense * world[u] <= sense * world[best]}

\* Fault: the maxima only.
Maxima ==
  {e \in UNION {Refinement(1, t) : t \in {u \in grid : IsExtremum(1, u)}} : e \notin grid}

\* A refinement counts where it beats its sample.
Extrema ==
  UNION {{e \in UNION {Refinement(sense, t) : t \in {u \in grid : IsExtremum(sense, u)}} : e \notin grid} :
           sense \in {-1, 1}}

Sample ==
  /\ phase = "sample" /\ setup.events
  /\ times' = grid \union Extrema
  /\ pieces' = Intervals(times')
  /\ phase' = "bisect"
  /\ UNCHANGED <<setup, world, grid, level, brackets, passes>>

Middle(piece) == (piece[1] + piece[2]) \div 2

\* The middle leaves the range of the ends towards the mask.
IsBad(piece) ==
  LET values == {world[piece[1]], world[piece[2]]}
  IN \/ world[Middle(piece)] < Min(values) /\ Max(values) >= 0
     \/ world[Middle(piece)] > Max(values) /\ Min(values) < 0

\* One level of _monotone_breakpoints: every middle tried becomes a breakpoint.
Bisect ==
  /\ phase = "bisect"
  /\ LET bad == {piece \in pieces : IsBad(piece)}
     IN /\ times' = times \union {Middle(piece) : piece \in pieces}
        /\ phase' = IF bad = {} THEN "bracket" ELSE IF level = MaxLevels THEN "failed" ELSE "bisect"
        /\ pieces' = UNION {{<<p[1], Middle(p)>>, <<Middle(p), p[2]>>} : p \in bad}
        /\ level' = level + 1
  /\ UNCHANGED <<setup, world, grid, brackets, passes>>

----------------------------------------------------------------------------
(* Roots.                                                                  *)

Crossings == {i \in Intervals(times) : Visible(i[1]) # Visible(i[2])}

\* A zero at an end is the root.
Bracket ==
  /\ phase = "bracket"
  /\ brackets' = [c \in Crossings |->
       [lo |-> c[1], hi |-> c[2],
        root |-> IF world[c[1]] = 0 THEN c[1] ELSE c[2],
        active |-> world[c[1]] # 0 /\ world[c[2]] # 0 /\ c[2] - c[1] > 1]]
  /\ phase' = "solve"
  /\ UNCHANGED <<setup, world, grid, times, pieces, level, passes>>

\* A trial replaces the end whose sign it has; the root is the end after the crossing.
Narrowed(bracket, trial) ==
  LET lower == IF (world[trial] > 0) = (world[bracket.hi] > 0) THEN bracket.lo ELSE trial
      upper == IF (world[trial] > 0) = (world[bracket.hi] > 0) THEN trial ELSE bracket.hi
  IN IF world[trial] = 0 THEN [bracket EXCEPT !.root = trial, !.active = FALSE]
     ELSE [lo |-> lower, hi |-> upper, root |-> upper, active |-> upper - lower > 1]

Active == {c \in DOMAIN brackets : brackets[c].active}

\* One iteration over every unfinished bracket.
Solve ==
  /\ phase = "solve" /\ Active # {}
  /\ \E trial \in [Active -> Ticks] :
       /\ \A c \in Active : brackets[c].lo < trial[c] /\ trial[c] < brackets[c].hi
       /\ brackets' = [c \in DOMAIN brackets |->
            IF c \in Active THEN Narrowed(brackets[c], trial[c]) ELSE brackets[c]]
  /\ UNCHANGED <<setup, world, phase, grid, times, pieces, level, passes>>

----------------------------------------------------------------------------
(* Passes.                                                                 *)

\* The maximal runs of visible ticks in a set, as <<first, last>>.
Runs(set) ==
  {run \in set \X set :
     /\ run[1] <= run[2] /\ \A t \in set : run[1] <= t /\ t <= run[2] => Visible(t)
     /\ run[1] = Min(set) \/ ~Visible(Before(set, run[1]))
     /\ run[2] = Max(set) \/ ~Visible(After(set, run[2]))}

Pass(set, run, start, end) ==
  LET seen == {t \in set : run[1] <= t /\ t <= run[2]}
      top == Max({world[t] : t \in seen})
  IN [start |-> start, end |-> end, culmination |-> Min({t \in seen : world[t] = top}), max_elevation |-> top,
      truncated_start |-> run[1] = Min(set), truncated_end |-> run[2] = Max(set)]

RootAt(before, after) == brackets[<<before, after>>].root

\* find_passes: roots bound a pass, or the window does.
Collect ==
  /\ phase = "solve" /\ Active = {}
  /\ passes' = {Pass(times, run,
                     IF run[1] = 0 THEN 0 ELSE RootAt(Before(times, run[1]), run[1]),
                     IF run[2] = Window THEN Window ELSE RootAt(run[2], After(times, run[2]))) :
                  run \in Runs(times)}
  /\ phase' = "found"
  /\ UNCHANGED <<setup, world, grid, times, pieces, level, brackets>>

\* passes_on_grid: a visible sample holds until the next sample.
Hold ==
  /\ phase = "sample" /\ ~setup.events
  /\ passes' = {Pass(grid, run, run[1], IF run[2] = Window THEN Window ELSE After(grid, run[2])) :
                  run \in Runs(grid)}
  /\ phase' = "found"
  /\ UNCHANGED <<setup, world, grid, times, pieces, level, brackets>>

EventsInit ==
  /\ setup \in Setups /\ world \in Worlds
  /\ phase = "sample"
  /\ grid = Refine(BuildGrid(setup.step), setup.factor)
  /\ times = {} /\ pieces = {} /\ level = 0 /\ brackets = <<>> /\ passes = {}

EventsNext == Sample \/ Bisect \/ Bracket \/ Solve \/ Collect \/ Hold

----------------------------------------------------------------------------
(* Properties.                                                             *)

\* refine keeps every primary point and the window's end, and no part of an interval is longer than
\* the interval over the factor, rounded to whole ticks, whatever the step, the short last one included.
GridKept ==
  LET coarse == BuildGrid(setup.step)
  IN /\ coarse \subseteq grid /\ grid \subseteq Ticks
     /\ \A i \in Intervals(coarse) : \A part \in Intervals(grid) :
          i[1] <= part[1] /\ part[2] <= i[2] => (part[2] - part[1] - 1) * setup.factor < i[2] - i[1]

\* One extremum at most between three consecutive samples, as on a step of an eighth of the period, and
\* no two ticks alike: where an elevation stays at the mask, visible time has no root for its end.
IsFine ==
  /\ \A u \in 1..Window : world[u] # world[u - 1]
  /\ \A t \in grid :
       LET inner == (Min(Around(t)) + 1)..(Max(Around(t)) - 1)
       IN Cardinality({u \in inner : (world[u] > world[u - 1]) # (world[u + 1] > world[u])}) <= 1

\* On a fine grid find_passes finds what an observer of every tick sees: no pass or gap between samples
\* is missed, a pass starts on the visible side of its crossing and ends on the other, unless the
\* elevation is the mask itself there or the window ends.
PassesExact ==
  phase = "found" /\ setup.events /\ IsFine =>
    \A t \in Ticks :
      Visible(t) <=> \/ \E p \in passes : p.start <= t /\ t < p.end
                     \/ \E p \in passes : t = p.end /\ (world[t] = 0 \/ p.truncated_end)
=============================================================================
