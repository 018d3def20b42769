-------------------------------- MODULE Acm --------------------------------
(***************************************************************************)
(* Adaptive coding and modulation over one pass (engine/acm.py and the     *)
(* selection rule it calls, physics/adaptation.py): as the available Es/N0 *)
(* crosses levels, or at each grid sample, the rule decides a MODCOD; a    *)
(* decision takes effect a feedback delay later; and the whole history is  *)
(* cut, once the pass has ended, into segments of constant rate.           *)
(*                                                                         *)
(* Time is in ticks from the pass start, Es/N0 in steps.  MODCODs are      *)
(* numbered in the order of their required Es/N0, and 0 is no lock.  A     *)
(* value of Es/N0 is known by its count: how many levels it is at or above *)
(* (_Rule.count).  What happens in one tick happens at one instant: the    *)
(* code's crossings can coincide too, as roots are made nondecreasing.     *)
(***************************************************************************)
EXTENDS Integers, Sequences, FiniteSets

CONSTANTS Required,   \* Required[m]: the Es/N0 that MODCOD m needs, increasing
          Setups,     \* [hysteresis, delay, end (of the pass), grid (events off)]
          MaxChanges  \* bound: how often the count changes after the pass start

ASSUME AcmAssumption ==
  /\ Required \in Seq(Int) /\ Required # <<>>
  /\ \A m \in 1..(Len(Required) - 1) : Required[m] < Required[m + 1]
  /\ Setups \subseteq [hysteresis : Nat, delay : Nat, end : Nat, grid : BOOLEAN]
  /\ MaxChanges \in Nat

VARIABLES setup,      \* the scenario's adaptation, and the pass
          now,        \* the tick the walk has reached
          mode,       \* the decided MODCOD: select's previous
          reached,    \* levels_reached: from each time on, a count
          decisions,  \* every answer of the rule, at its time, from the mode before
          segments,   \* the rate segments, once the pass has ended
          events,     \* the MODCOD events, once the pass has ended
          ended,      \* the pass is over and scheduled
          heard       \* history: the MODCOD decided and the count as each tick ends

vars == <<setup, now, mode, reached, decisions, segments, events, ended, heard>>

NoLock == 0
Modcods == 1..Len(Required)

Greatest(S) == CHOOSE x \in S : \A y \in S : y <= x
Least(S) == CHOOSE x \in S : \A y \in S : x <= y

\* How many elements of S are at or below x, and which has n of them.
Rank(S, x) == Cardinality({y \in S : y <= x})
Nth(S, n) == CHOOSE x \in S : Rank(S, x) = n

----------------------------------------------------------------------------
(* The rule.                                                               *)

\* select_modcod: a lock that holds makes an upgrade wait for the hysteresis.
SelectModcod(available, previous) ==
  LET retained == previous # NoLock /\ available >= Required[previous]
      extra(m) == IF retained /\ m > previous THEN setup.hysteresis ELSE 0
  IN Greatest({m \in Modcods : available >= Required[m] + extra(m)} \union {NoLock})

Levels == {Required[m] : m \in Modcods} \union {Required[m] + setup.hysteresis : m \in Modcods}
Counts == 0..Cardinality(Levels)
Count(available) == Rank(Levels, available)

\* Any value with this count stands for all of them.
Representative(count) == IF count = 0 THEN Least(Levels) - 1 ELSE Nth(Levels, count)

\* Fault: a level met exactly is not reached.
SelectBelow(count, previous) == SelectModcod(Representative(count) - 1, previous)

Select(count, previous) == SelectModcod(Representative(count), previous)

Meets(m, count) == count > 0 /\ Representative(count) >= Required[m]

----------------------------------------------------------------------------
(* The schedule of a pass.                                                 *)

\* Fault: the answers of one instant are decisions of their own.
Unmerged(all) == {all[i] : i \in {k \in DOMAIN all : all[k].from # all[k].to}}

\* Changes of mode only, those at one instant made one.
Merged(all) ==
  LET instants == {all[i].at : i \in DOMAIN all}
      during(t) == {i \in DOMAIN all : all[i].at = t}
      net(t) == [at |-> t, from |-> all[Least(during(t))].from, to |-> all[Greatest(during(t))].to]
  IN {d \in {net(t) : t \in instants} : d.from # d.to}

Effective(decision) == decision.at + setup.delay
Until(time) == IF time < setup.end THEN time ELSE setup.end

EventsOf(changes) ==
  LET times == {d.at : d \in changes}
      nth(i) == CHOOSE d \in changes : d.at = Nth(times, i)
  IN [i \in 1..Cardinality(times) |->
        [decision |-> nth(i).at, effective |-> Until(Effective(nth(i))), from |-> nth(i).from, to |-> nth(i).to]]

Switches(changes) == {d \in changes : Effective(d) < setup.end}

\* After a downgrade or a loss the mode in effect may be beyond the link until the news arrives.
Blackouts(changes) ==
  {[from |-> d.at, until |-> Until(Effective(d))] :
     d \in {c \in changes : setup.delay > 0 /\ c.to < c.from}}

Cuts(changes) ==
  {0, setup.end}
    \union {Effective(d) : d \in Switches(changes)}
    \union (UNION {{b.from, b.until} : b \in Blackouts(changes)})
    \union {t \in {reached[i].at : i \in DOMAIN reached} :
              \E b \in Blackouts(changes) : b.from < t /\ t < b.until}

Latest(made) == (CHOOSE d \in made : \A other \in made : other.at <= d.at).to

\* Fault: the mode decided rules, not the one in effect.
DecidedAt(changes, t) ==
  LET made == {d \in changes : d.at <= t}
  IN IF made = {} THEN NoLock ELSE Latest(made)

InEffect(changes, t) ==
  LET past == {d \in Switches(changes) : Effective(d) <= t}
  IN IF past = {} THEN NoLock ELSE Latest(past)

CountAt(t) == reached[Greatest({i \in DOMAIN reached : reached[i].at <= t})].count

\* What is carried from cut t on: nothing while the mode in effect is below its requirement.
Carried(changes, t) ==
  LET m == InEffect(changes, t)
      blackout == \E b \in Blackouts(changes) : b.from <= t /\ t < b.until
  IN IF m # NoLock /\ blackout /\ ~Meets(m, CountAt(t)) THEN NoLock ELSE m

SegmentsFrom(changes, starts) ==
  [n \in 1..Cardinality(starts) |->
     [start |-> Nth(starts, n),
      end |-> IF n = Cardinality(starts) THEN setup.end ELSE Nth(starts, n + 1),
      mode |-> Carried(changes, Nth(starts, n))]]

\* Fault: equal neighbours stay apart.
SegmentsAtCuts(changes) == SegmentsFrom(changes, Cuts(changes) \ {setup.end})

\* A segment starts at a cut at which what is carried changes.
Starts(changes) ==
  LET cuts == Cuts(changes)
      before(t) == Greatest({c \in cuts : c < t})
  IN {t \in cuts \ {setup.end} : t = 0 \/ Carried(changes, t) # Carried(changes, before(t))}

SegmentsOf(changes) == SegmentsFrom(changes, Starts(changes))

LastCount == IF reached = <<>> THEN 0 ELSE reached[Len(reached)].count

\* _state_at_pass_end: what a sample at the end carries, which no segment holds, from the events.
StateAtPassEnd(count) ==
  LET applied == {i \in DOMAIN events : events[i].decision + setup.delay < setup.end}
      m == IF applied = {} THEN NoLock ELSE events[Greatest(applied)].to
  IN IF m # NoLock /\ Representative(count) < Required[m] THEN NoLock ELSE m

\* _sample_columns: what a sample at a time of the pass carries.
SampleMode(t) ==
  LET holding == {i \in DOMAIN segments : segments[i].start <= t /\ t < segments[i].end}
  IN IF t = setup.end THEN StateAtPassEnd(LastCount)
     ELSE IF holding = {} THEN NoLock ELSE segments[Greatest(holding)].mode

----------------------------------------------------------------------------
Init ==
  /\ setup \in Setups
  /\ now = 0
  /\ mode = NoLock
  /\ reached = <<>>
  /\ decisions = <<>>
  /\ segments = <<>>
  /\ events = <<>>
  /\ ended = FALSE
  /\ heard = <<>>

\* The rule is asked at the current tick about a value with this count.
Decide(count) ==
  /\ ~ended
  /\ Len(reached) <= MaxChanges
  /\ mode' = Select(count, mode)
  /\ reached' = Append(reached, [at |-> now, count |-> count])
  /\ decisions' = Append(decisions, [at |-> now, from |-> mode, to |-> mode'])
  /\ UNCHANGED <<setup, now, segments, events, ended, heard>>

\* The value at the pass start: its first sample, when events are off.
Acquire(count) == reached = <<>> /\ Decide(count)

\* acm_segments: a crossing of the next level, up or down.
Cross(count) ==
  /\ ~setup.grid /\ reached # <<>> /\ setup.end > 0
  /\ count \in {LastCount - 1, LastCount + 1}
  /\ Decide(count)

\* acm_on_grid: a later sample, of any value.
Sample(count) == setup.grid /\ reached # <<>> /\ reached[Len(reached)].at < now /\ Decide(count)

Tick ==
  /\ ~ended /\ reached # <<>>
  /\ now < setup.end
  /\ now' = now + 1
  /\ heard' = Append(heard, [mode |-> mode, count |-> LastCount])
  /\ UNCHANGED <<setup, mode, reached, decisions, segments, events, ended>>

\* _schedule.
Schedule ==
  /\ ~ended /\ reached # <<>>
  /\ now = setup.end
  /\ segments' = SegmentsOf(Merged(decisions))
  /\ events' = EventsOf(Merged(decisions))
  /\ ended' = TRUE
  /\ UNCHANGED <<setup, now, mode, reached, decisions, heard>>

Next ==
  \/ \E count \in Counts : Acquire(count) \/ Cross(count) \/ Sample(count)
  \/ Tick
  \/ Schedule

Spec == Init /\ [][Next]_vars

----------------------------------------------------------------------------
(* Properties.                                                             *)

\* The rule has had its last word: for no value between the levels last reached
\* would it answer otherwise, so nothing happens between two crossings.
RuleSettled ==
  reached # <<>> =>
    \A available \in (Least(Levels) - 1)..(Greatest(Levels) + 1) :
      Count(available) = LastCount => SelectModcod(available, mode) = mode

\* A transmitter that applies every decision a delay after it is made, and whose
\* frames are lost while the link is below the mode it uses, as it goes.
Applied(t) == IF 0 <= t - setup.delay THEN heard[t - setup.delay + 1].mode ELSE NoLock
Received(m, count) == IF m # NoLock /\ Required[m] > Representative(count) THEN NoLock ELSE m

\* What the schedule made after the pass gives a sample at every time of it is what that transmitter
\* did then; a sample at the end has the mode applied until then, received as the link is at the end.
ScheduleIsOnline ==
  ended =>
    /\ \A t \in 0..(setup.end - 1) : SampleMode(t) = Received(Applied(t), heard[t + 1].count)
    /\ SampleMode(setup.end) = Received(Applied(setup.end - 1), LastCount)

\* The segments tile the pass, and neighbours differ; a pass of no duration has none.
SegmentsTile ==
  ended =>
    /\ segments = <<>> <=> setup.end = 0
    /\ segments # <<>> => segments[1].start = 0 /\ segments[Len(segments)].end = setup.end
    /\ \A i \in DOMAIN segments : segments[i].start < segments[i].end
    /\ \A i \in 1..(Len(segments) - 1) :
         segments[i].end = segments[i + 1].start /\ segments[i].mode # segments[i + 1].mode

\* The events are one account of the mode: each starts from where the one before
\* ended, at a later time, and the last is where the walk is.
EventsChain ==
  ended =>
    /\ \A i \in DOMAIN events :
         /\ events[i].from = IF i = 1 THEN NoLock ELSE events[i - 1].to
         /\ events[i].from # events[i].to
         /\ i > 1 => events[i - 1].decision < events[i].decision
    /\ mode = IF events = <<>> THEN NoLock ELSE events[Len(events)].to
=============================================================================
