--------------------------- MODULE TimelineProofs ---------------------------
(***************************************************************************)
(* The refined time grid, and the passes and rate segments found on it,    *)
(* for any window, any step, any factor and any elevations.                *)
(*                                                                         *)
(* A part's point is the nearest tick, so the parts differ by what is      *)
(* rounded away at each of their ends.  PointNext finds, for any tick u    *)
(* inside an interval, the first part whose point is past u, by a          *)
(* division, and bounds how far past it is: the sample after u is no       *)
(* farther.                                                                *)
(*                                                                         *)
(* Between two runs of visible breakpoints lie two crossings, the first    *)
(* of which ends no later than the second begins.  A root stays in its     *)
(* crossing, and past its start if that is out of sight (Bracketed): so a  *)
(* pass ends before the next one starts, even where the elevation is the   *)
(* mask itself.  What Statistics sorts and checks is then apart, and in a  *)
(* set of intervals apart the number of those that start before one is its *)
(* place in the sorted sequence (StartedIs, SortedIs).                     *)
(*                                                                         *)
(* On a fine grid every turn of the elevation is a breakpoint (TurnFound), *)
(* so the elevation rises or falls all the way between two breakpoints, a  *)
(* crossing has one change of sign, and the root is at it (RootParts).     *)
(***************************************************************************)
EXTENDS Timeline, FiniteSetTheorems, WellFoundedInduction, TLAPS

----------------------------------------------------------------------------
(* The least and the greatest of a set of ticks.                           *)

\* A set of naturals has a least element: the library's well-founded induction, without a predicate as a parameter.
LEMMA LeastNatural ==
  ASSUME NEW T, \A n \in T : n \in Nat, T # {}
  PROVE  \E n \in T : \A m \in T : n <= m
  <1>1. IsWellFoundedOn(OpToRel(<, Nat), Nat) /\ T \subseteq Nat /\ T # {}
    BY NatLessThanWellFounded
  <1>2. \E n \in T : \A m \in T : ~(<<m, n>> \in OpToRel(<, Nat))
    BY <1>1, WFMin
  <1>3. \E n \in T : \A m \in T : ~(m < n)
    BY <1>2 DEF OpToRel
  <1> QED
    BY <1>3

\* The least of some ticks is one of them.
LEMMA MinIs ==
  ASSUME NEW S \in SUBSET Ticks, S # {}
  PROVE  Min(S) \in S /\ \A t \in S : Min(S) <= t
  <1>1. \A t \in S : t \in Nat
    BY EventsAssumption DEF Ticks
  <1>2. \E t \in S : \A u \in S : t <= u
    BY <1>1, LeastNatural
  <1> QED
    BY <1>2 DEF Min

\* So is the greatest: it is the least from the window's end.
LEMMA MaxIs ==
  ASSUME NEW S \in SUBSET Ticks, S # {}
  PROVE  Max(S) \in S /\ \A t \in S : t <= Max(S)
  <1> DEFINE T == {Window - t : t \in S}
  <1>1. \A n \in T : n \in Nat
    BY EventsAssumption DEF Ticks
  <1>2. T # {}
    OBVIOUS
  <1>3. \E n \in T : \A m \in T : n <= m
    <2> HIDE DEF T
    <2> QED
      BY <1>1, <1>2, LeastNatural
  <1>4. PICK t \in S : \A m \in T : Window - t <= m
    BY <1>3
  <1>5. \A u \in S : Window - t <= Window - u
    BY <1>4
  <1>6. \A u \in S : u <= t
    BY <1>5, EventsAssumption DEF Ticks
  <1> QED
    BY <1>6 DEF Max

\* An interval of a grid runs from one sample to the next, with none between them.
LEMMA IntervalIs ==
  ASSUME NEW set \in SUBSET Ticks, NEW i \in Intervals(set)
  PROVE  /\ i = <<i[1], i[2]>> /\ i[1] \in set /\ i[2] \in set /\ i[1] < i[2]
         /\ \A t \in set : i[1] < t => i[2] <= t
  <1>1. PICK t \in set \ {Max(set)} : i = <<t, After(set, t)>>
    BY DEF Intervals
  <1>2. Max(set) \in set /\ t <= Max(set)
    BY MaxIs
  <1>3. t < Max(set)
    <2>1. \A u \in set : u \in Int
      BY EventsAssumption DEF Ticks
    <2>2. t # Max(set) /\ t \in set
      OBVIOUS
    <2> QED
      BY <1>2, <2>1, <2>2
  <1> DEFINE later == {u \in set : u > t}
  <1>4. later \in SUBSET Ticks /\ later # {}
    BY <1>2, <1>3
  <1>5. Min(later) \in later /\ \A u \in later : Min(later) <= u
    BY <1>4, MinIs
  <1>6. i[1] = t /\ i[2] = Min(later) /\ i = <<i[1], i[2]>>
    BY <1>1 DEF After
  <1> HIDE DEF later
  <1>7. Min(later) \in set /\ t < Min(later) /\ \A u \in set : t < u => Min(later) <= u
    BY <1>5 DEF later
  <1> QED
    BY <1>1, <1>6, <1>7

\* Every sample but the last starts an interval.
LEMMA IntervalFrom ==
  ASSUME NEW set \in SUBSET Ticks, Window \in set, NEW t \in set, t # Window
  PROVE  <<t, After(set, t)>> \in Intervals(set)
  <1>1. Max(set) \in Ticks /\ Window <= Max(set)
    BY MaxIs
  <1>2. Max(set) = Window
    BY <1>1, EventsAssumption DEF Ticks
  <1> QED
    BY <1>2 DEF Intervals

----------------------------------------------------------------------------
(* Rounding.                                                               *)

\* A quotient is the whole number of divisors that fit.
LEMMA Division ==
  ASSUME NEW x \in Int, NEW n \in Nat \ {0}
  PROVE  /\ x \div n \in Int /\ n * (x \div n) <= x /\ x < n * (x \div n) + n
  OBVIOUS

\* How many ticks after an interval's start one of its parts begins.
Offset(length, factor, part) == (2 * length * part + factor) \div (2 * factor)

\* The offset is within half a tick of the part's share of the length.
LEMMA OffsetIs ==
  ASSUME NEW length \in Nat, NEW factor \in Nat \ {0}, NEW part \in Nat
  PROVE  /\ Offset(length, factor, part) \in Int
         /\ 2 * factor * Offset(length, factor, part) <= 2 * length * part + factor
         /\ 2 * length * part + factor < 2 * factor * Offset(length, factor, part) + 2 * factor
  <1>1. 2 * length * part + factor \in Int /\ 2 * factor \in Nat \ {0}
    OBVIOUS
  <1> QED
    BY <1>1, Division DEF Offset

\* The order of two multiples is the order of what is multiplied.
LEMMA Cancels ==
  ASSUME NEW n \in Nat \ {0}, NEW x \in Int, NEW y \in Int, n * x < n * y
  PROVE  x < y
  OBVIOUS

\* The first part starts where the interval does, and no part starts outside it.
LEMMA OffsetInside ==
  ASSUME NEW length \in Nat, NEW factor \in Nat \ {0}, NEW part \in 0..(factor - 1)
  PROVE  /\ Offset(length, factor, part) \in 0..length
         /\ part = 0 => Offset(length, factor, part) = 0
  <1> DEFINE q == Offset(length, factor, part)
  <1>1. /\ q \in Int /\ 2 * factor * q <= 2 * length * part + factor
        /\ 2 * length * part + factor < 2 * factor * q + 2 * factor
    BY OffsetIs
  <1>2. length * part \in Nat /\ length * part <= length * factor
    OBVIOUS
  <1> HIDE DEF q
  <1>3. factor * (-1) < factor * q
    BY <1>1, <1>2
  <1>4. factor * q < factor * (length + 1)
    BY <1>1, <1>2
  <1>5. q \in 0..length
    BY <1>1, <1>3, <1>4, Cancels
  <1>6. part = 0 => factor * q < factor * 1
    BY <1>1
  <1> QED
    BY <1>1, <1>5, <1>6, Cancels DEF q

\* From any tick of an interval the next part's start, or the interval's end, is no farther than the
\* interval's length over the factor, and a tick.
LEMMA PointNext ==
  ASSUME NEW length \in Nat \ {0}, NEW factor \in Nat \ {0}, NEW u \in 0..(length - 1)
  PROVE  \/ factor * (length - u - 1) < length
         \/ \E part \in 0..(factor - 1) :
              /\ u < Offset(length, factor, part)
              /\ factor * (Offset(length, factor, part) - u - 1) < length
  <1> DEFINE m == 2 * (factor * u) + factor
             k == (m + 2 * length - 1) \div (2 * length)
  <1>1. factor * u \in Nat
    OBVIOUS
  <1>2. m + 2 * length - 1 \in Int /\ 2 * length \in Nat \ {0} /\ m \in Nat \ {0}
    BY <1>1
  <1>3. /\ k \in Int /\ 2 * length * k <= m + 2 * length - 1
        /\ m + 2 * length - 1 < 2 * length * k + 2 * length
    BY <1>2, Division
  <1> HIDE DEF k
  <1>4. length * k \in Int /\ m <= 2 * (length * k) /\ 2 * (length * k) <= m + 2 * length - 1
    <2>1. length * k \in Int /\ 2 * length * k = 2 * (length * k)
      BY <1>3
    <2> HIDE DEF m
    <2> QED
      BY <1>2, <1>3, <2>1
  <1>5. length * 0 < length * k
    BY <1>2, <1>4
  <1>6. k \in Nat \ {0}
    BY <1>3, <1>5, Cancels
  <1>7. CASE k < factor
    <2> DEFINE q == Offset(length, factor, k)
    <2>1. k \in 0..(factor - 1)
      BY <1>6, <1>7
    <2>2. /\ q \in Int /\ 2 * factor * q <= 2 * length * k + factor
          /\ 2 * length * k + factor < 2 * factor * q + 2 * factor
      BY <1>6, OffsetIs
    <2> HIDE DEF q
    <2>3. 2 * (factor * q) <= 2 * (length * k) + factor /\ 2 * (length * k) + factor < 2 * (factor * q) + 2 * factor
      BY <1>6, <2>2
    <2>4. factor * u < factor * q
      <3>1. factor * q \in Int
        BY <2>2
      <3> QED
        BY <1>1, <1>4, <2>3, <3>1
    <2>5. u < q
      BY <2>2, <2>4, Cancels
    <2>6. factor * (q - u - 1) = factor * q - factor * u - factor
      BY <2>2
    <2>7. factor * (q - u - 1) < length
      <3>1. factor * q \in Int
        BY <2>2
      <3> QED
        BY <1>1, <1>4, <2>3, <2>6, <3>1
    <2> QED
      BY <2>1, <2>5, <2>7 DEF q
  <1>8. CASE factor <= k
    <2>1. length * factor <= length * k
      BY <1>6, <1>8
    <2>2. factor * (length - u - 1) = length * factor - factor * u - factor
      OBVIOUS
    <2> QED
      BY <1>1, <1>4, <1>6, <2>1, <2>2
  <1> QED
    BY <1>6, <1>7, <1>8

----------------------------------------------------------------------------
(* The grid.                                                               *)

\* What refine makes of any grid of ticks that ends with the window.
LEMMA RefineKeeps ==
  ASSUME NEW coarse \in SUBSET Ticks, Window \in coarse, NEW factor \in Nat \ {0}
  PROVE  /\ coarse \subseteq Refine(coarse, factor) /\ Refine(coarse, factor) \subseteq Ticks
         /\ \A i \in Intervals(coarse) : \A part \in Intervals(Refine(coarse, factor)) :
              i[1] <= part[1] /\ part[2] <= i[2] => (part[2] - part[1] - 1) * factor < i[2] - i[1]
  <1> DEFINE fine == Refine(coarse, factor)
             Point(i, part) == i[1] + Offset(i[2] - i[1], factor, part)
  <1>1. fine = {Window} \union {Point(i, part) : i \in Intervals(coarse), part \in 0..(factor - 1)}
    BY DEF Refine, Offset
  <1>2. ASSUME NEW i \in Intervals(coarse)
        PROVE  i[1] \in Ticks /\ i[2] \in Ticks /\ i[1] \in coarse /\ i[2] - i[1] \in Nat \ {0}
    BY IntervalIs, EventsAssumption DEF Ticks
  <1>3. fine \subseteq Ticks
    <2>1. ASSUME NEW i \in Intervals(coarse), NEW part \in 0..(factor - 1)
          PROVE  Point(i, part) \in Ticks
      <3>1. Offset(i[2] - i[1], factor, part) \in 0..(i[2] - i[1])
        BY <1>2, OffsetInside
      <3> QED
        BY <1>2, <3>1, EventsAssumption DEF Ticks
    <2> HIDE DEF Point
    <2> QED
      BY <1>1, <2>1
  <1>4. coarse \subseteq fine
    <2> SUFFICES ASSUME NEW t \in coarse, t # Window PROVE t \in fine
      BY <1>1
    <2> DEFINE i == <<t, After(coarse, t)>>
    <2>1. i \in Intervals(coarse)
      BY IntervalFrom
    <2>2. 0 \in 0..(factor - 1) /\ Offset(i[2] - i[1], factor, 0) = 0
      BY <1>2, <2>1, OffsetInside
    <2>3. Point(i, 0) = t
      BY <2>2, EventsAssumption DEF Ticks
    <2> HIDE DEF Point, i, fine
    <2> QED
      BY <1>1, <2>1, <2>2, <2>3
  <1>5. ASSUME NEW i \in Intervals(coarse), NEW part \in Intervals(fine), i[1] <= part[1], part[2] <= i[2]
        PROVE  (part[2] - part[1] - 1) * factor < i[2] - i[1]
    <2> DEFINE u == part[1] - i[1]
               length == i[2] - i[1]
    <2>1. /\ part[1] \in Ticks /\ part[2] \in Ticks /\ part[1] < part[2]
          /\ \A t \in fine : part[1] < t => part[2] <= t
      BY <1>3, IntervalIs
    <2>2. length \in Nat \ {0} /\ u \in 0..(length - 1) /\ i[1] \in Int
      BY <1>2, <1>5, <2>1 DEF Ticks
    <2>3. ASSUME NEW x \in Int, part[2] <= i[1] + x, factor * (x - u - 1) < length
          PROVE  (part[2] - part[1] - 1) * factor < length
      <3>1. part[2] - part[1] - 1 \in Int /\ x - u - 1 \in Int /\ part[2] - part[1] - 1 <= x - u - 1
        BY <1>2, <2>1, <2>2, <2>3 DEF Ticks
      <3>2. (part[2] - part[1] - 1) * factor <= factor * (x - u - 1)
        BY <3>1
      <3> QED
        BY <2>2, <2>3, <3>1, <3>2
    <2>4. CASE factor * (length - u - 1) < length
      BY <1>2, <1>5, <2>2, <2>3, <2>4 DEF Ticks
    <2>5. ASSUME NEW p \in 0..(factor - 1), u < Offset(length, factor, p),
                 factor * (Offset(length, factor, p) - u - 1) < length
          PROVE  (part[2] - part[1] - 1) * factor < length
      <3>1. Offset(length, factor, p) \in Int
        BY <2>2, OffsetInside
      <3>2. Point(i, p) \in fine
        BY <1>1
      <3>3. part[2] <= i[1] + Offset(length, factor, p)
        BY <1>2, <2>1, <2>2, <2>5, <3>1, <3>2 DEF Ticks
      <3> QED
        BY <2>3, <2>5, <3>1, <3>3
    <2> QED
      BY <2>2, <2>4, <2>5, PointNext
  <1> QED
    BY <1>3, <1>4, <1>5

----------------------------------------------------------------------------
(* The behaviours.                                                         *)

\* The grid that a search works on is the one its scenario asks for, to the end.
IInv == setup \in Setups /\ grid = Refine(BuildGrid(setup.step), setup.factor)

\* build_grid and refine: whatever the window, the step and the factor, every primary sample and the
\* window's end are kept, no sample lies outside the window, and no part of an interval, the short last
\* one included, is longer than its share of it and what is rounded.  The search never loses the grid.
THEOREM GridStaysKept == Spec => []GridKept
  <1>1. Init => IInv
    BY DEF Init, EventsInit, IInv
  <1>2. IInv /\ [Next]_vars => IInv'
    BY DEF IInv, Next, Search, EventsNext, Sample, Bisect, Bracket, Solve, Collect, Hold, Tile, Report, vars, eventsVars
  <1>3. IInv => GridKept
    <2> SUFFICES ASSUME IInv PROVE GridKept
      OBVIOUS
    <2> DEFINE coarse == BuildGrid(setup.step)
    <2>1. setup.step \in 1..Window /\ setup.factor \in Nat \ {0} /\ grid = Refine(coarse, setup.factor)
      BY EventsAssumption DEF IInv
    <2>2. coarse \in SUBSET Ticks /\ Window \in coarse
      BY EventsAssumption DEF BuildGrid, Ticks
    <2> HIDE DEF coarse
    <2>3. /\ coarse \subseteq grid /\ grid \subseteq Ticks
          /\ \A i \in Intervals(coarse) : \A part \in Intervals(grid) :
               i[1] <= part[1] /\ part[2] <= i[2] => (part[2] - part[1] - 1) * setup.factor < i[2] - i[1]
      BY <2>1, <2>2, RefineKeeps
    <2> QED
      BY <2>3 DEF GridKept, coarse
  <1> QED
    BY <1>1, <1>2, <1>3, PTL DEF Spec

----------------------------------------------------------------------------
(* Intervals in the order of their starts.                                 *)

\* How many of some intervals start before a tick.
Started(S, t) == Cardinality({y \in S : y.start < t})

\* Intervals that are apart are finitely many, numbered by their starts.
LEMMA StartedIs ==
  ASSUME NEW S, Apart(S)
  PROVE  /\ Cardinality(S) \in Nat
         /\ \A x \in S : Started(S, x.start) \in 0..(Cardinality(S) - 1)
         /\ \A x, y \in S : x.start < y.start => Started(S, x.start) < Started(S, y.start)
         /\ \A n \in 1..Cardinality(S) : \E x \in S : Started(S, x.start) = n - 1
  <1> DEFINE c == Cardinality(S)
             B(t) == {y \in S : y.start < t}
             start == [x \in S |-> x.start]
  <1>0. \A x \in S : x.start \in Ticks /\ x.start \in Nat
    BY EventsAssumption DEF Apart, Ticks
  <1>1. IsFiniteSet(S)
    <2>1. start \in [S -> Ticks]
      BY <1>0
    <2>2. \A x, y \in S : start[x] = start[y] => x = y
      BY <1>0 DEF Apart
    <2>3. start \in Injection(S, Ticks)
      <3> HIDE DEF start
      <3> QED
        BY <2>1, <2>2 DEF Injection, IsInjective
    <2>4. IsFiniteSet(Ticks)
      BY EventsAssumption, FS_Interval DEF Ticks
    <2> HIDE DEF start
    <2> QED
      BY <2>3, <2>4, FS_Injection
  <1>2. c \in Nat
    BY <1>1, FS_CardinalityType
  <1>3. ASSUME NEW t PROVE IsFiniteSet(B(t)) /\ Started(S, t) = Cardinality(B(t)) /\ Started(S, t) \in Nat
    <2>1. IsFiniteSet(B(t))
      BY <1>1, FS_Subset
    <2> QED
      BY <2>1, FS_CardinalityType DEF Started
  <1>4. ASSUME NEW x \in S PROVE Started(S, x.start) \in 0..(c - 1)
    <2>1. B(x.start) \in SUBSET S /\ x \notin B(x.start)
      BY <1>0
    <2> HIDE DEF B
    <2>2. Cardinality(B(x.start)) <= c /\ Cardinality(B(x.start)) # c
      BY <1>1, <2>1, FS_Subset
    <2> QED
      BY <1>2, <1>3, <2>2
  <1>5. ASSUME NEW x \in S, NEW y \in S, x.start < y.start PROVE Started(S, x.start) < Started(S, y.start)
    <2>1. B(x.start) \in SUBSET B(y.start) /\ x \in B(y.start) /\ x \notin B(x.start)
      BY <1>0, <1>5
    <2> HIDE DEF B
    <2>2. Cardinality(B(x.start)) <= Cardinality(B(y.start)) /\ Cardinality(B(x.start)) # Cardinality(B(y.start))
      BY <1>3, <2>1, FS_Subset
    <2> QED
      BY <1>3, <2>2
  <1>6. \A n \in 1..c : \E x \in S : Started(S, x.start) = n - 1
    <2> DEFINE f == [x \in S |-> Started(S, x.start)]
    <2>1. f \in [S -> 0..(c - 1)]
      BY <1>4
    <2>2. \A x, y \in S : f[x] = f[y] => x = y
      <3> SUFFICES ASSUME NEW x \in S, NEW y \in S, f[x] = f[y], x # y PROVE FALSE
        OBVIOUS
      <3>1. x.start < y.start \/ y.start < x.start
        BY DEF Apart
      <3>2. Started(S, x.start) = Started(S, y.start) /\ Started(S, x.start) \in Nat
        BY <1>3
      <3> QED
        BY <1>5, <3>1, <3>2
    <2>3. f \in Injection(S, 0..(c - 1))
      <3> HIDE DEF f, c
      <3> QED
        BY <2>1, <2>2 DEF Injection, IsInjective
    <2>4. IsFiniteSet(0..(c - 1)) /\ Cardinality(0..(c - 1)) = c
      BY <1>2, FS_Interval
    <2>5. f \in Surjection(S, 0..(c - 1))
      <3> HIDE DEF f
      <3> QED
        BY <2>3, <2>4, FS_Injection
    <2>6. \A m \in 0..(c - 1) : \E x \in S : f[x] = m
      <3> HIDE DEF f
      <3> QED
        BY <2>5 DEF Surjection
    <2> QED
      <3> SUFFICES ASSUME NEW n \in 1..c PROVE \E x \in S : Started(S, x.start) = n - 1
        OBVIOUS
      <3>1. n - 1 \in 0..(c - 1)
        BY <1>2
      <3> QED
        BY <2>6, <3>1
  <1> QED
    BY <1>2, <1>4, <1>5, <1>6

\* Sorting intervals that are apart puts each behind those that start before it.
LEMMA SortedIs ==
  ASSUME NEW S, Apart(S)
  PROVE  /\ Cardinality(S) \in Nat
         /\ DOMAIN Stats!Sorted(S) = 1..Cardinality(S) /\ Stats!Len(Stats!Sorted(S)) = Cardinality(S)
         /\ \A n \in 1..Cardinality(S) : Stats!Sorted(S)[n] \in S
         /\ \A m, n \in 1..Cardinality(S) : m < n => Stats!Sorted(S)[m].end <= Stats!Sorted(S)[n].start
         /\ \A x \in S : \E n \in 1..Cardinality(S) : Stats!Sorted(S)[n] = x
  <1> DEFINE c == Cardinality(S)
             sorted == Stats!Sorted(S)
             Less(x) == {y \in S : y.start < x.start \/ (y.start = x.start /\ y.end < x.end)}
  <1>1. /\ c \in Nat
        /\ \A x \in S : Started(S, x.start) \in 0..(c - 1)
        /\ \A x, y \in S : x.start < y.start => Started(S, x.start) < Started(S, y.start)
        /\ \A n \in 1..c : \E x \in S : Started(S, x.start) = n - 1
    BY StartedIs
  <1>2. sorted = [n \in 1..c |-> CHOOSE x \in S : Cardinality(Less(x)) = n - 1]
    BY DEF Stats!Sorted, Stats!InOrder, Stats!Cardinality, Cardinality, Stats!IsFiniteSet, IsFiniteSet
  <1>3. \A x \in S : Cardinality(Less(x)) = Started(S, x.start)
    <2> TAKE x \in S
    <2>1. \A y \in S : y.start = x.start => y = x
      BY EventsAssumption DEF Apart, Ticks
    <2>2. \A y \in S : ~(y.end < y.end)
      BY EventsAssumption DEF Apart, Ticks
    <2>3. Less(x) = {y \in S : y.start < x.start}
      BY <2>1, <2>2
    <2> QED
      BY <2>3 DEF Started
  <1>4. \A n \in 1..c : sorted[n] \in S /\ Started(S, sorted[n].start) = n - 1
    <2> TAKE n \in 1..c
    <2>1. PICK x \in S : Started(S, x.start) = n - 1
      BY <1>1
    <2> HIDE DEF c, sorted, Less
    <2>2. Cardinality(Less(x)) = n - 1
      BY <1>3, <2>1
    <2>3. sorted[n] = CHOOSE y \in S : Cardinality(Less(y)) = n - 1
      BY <1>2
    <2>4. sorted[n] \in S /\ Cardinality(Less(sorted[n])) = n - 1
      BY <2>2, <2>3
    <2> QED
      BY <1>3, <2>4
  <1>5. DOMAIN sorted = 1..c /\ Stats!Len(sorted) = c
    <2> HIDE DEF c, sorted, Less
    <2>1. DOMAIN sorted = 1..c
      BY <1>2
    <2> QED
      BY <1>1, <2>1
  <1>6. ASSUME NEW m \in 1..c, NEW n \in 1..c, m < n PROVE sorted[m].end <= sorted[n].start
    <2> HIDE DEF c, sorted
    <2>1. /\ sorted[m] \in S /\ sorted[n] \in S
          /\ Started(S, sorted[m].start) = m - 1 /\ Started(S, sorted[n].start) = n - 1
      BY <1>4
    <2>2. sorted[m] # sorted[n]
      BY <1>6, <2>1
    <2>3. ~(sorted[n].start < sorted[m].start)
      BY <1>1, <1>6, <2>1
    <2> QED
      BY <2>1, <2>2, <2>3 DEF Apart
  <1>7. ASSUME NEW x \in S PROVE \E n \in 1..c : sorted[n] = x
    <2> HIDE DEF c, sorted
    <2> DEFINE n == Started(S, x.start) + 1
    <2>1. n \in 1..c /\ n - 1 = Started(S, x.start)
      BY <1>1
    <2>2. sorted[n] \in S /\ Started(S, sorted[n].start) = n - 1
      BY <1>4, <2>1
    <2>3. sorted[n].start \in Nat /\ x.start \in Nat /\ Started(S, x.start) \in Nat
      BY <1>1, <2>2, EventsAssumption DEF Apart, Ticks
    <2> HIDE DEF n
    <2>4. ~(sorted[n].start < x.start) /\ ~(x.start < sorted[n].start)
      BY <1>1, <2>1, <2>2, <2>3
    <2>5. sorted[n] = x
      BY <2>2, <2>4 DEF Apart
    <2> QED
      BY <2>1, <2>5
  <1> QED
    BY <1>1, <1>4, <1>5, <1>6, <1>7

----------------------------------------------------------------------------
(* The checks on a pair.                                                   *)

\* The intervals in their order pass the check of order and overlap.
LEMMA OrderAccepted ==
  ASSUME NEW S, Apart(S)
  PROVE  /\ \A i \in DOMAIN Stats!Sorted(S) : Stats!Sorted(S)[i].start <= Stats!Sorted(S)[i].end
         /\ \A i \in 1..(Stats!Len(Stats!Sorted(S)) - 1) : Stats!Sorted(S)[i].end <= Stats!Sorted(S)[i + 1].start
  <1> DEFINE c == Cardinality(S)
             sorted == Stats!Sorted(S)
  <1>1. /\ c \in Nat /\ DOMAIN sorted = 1..c /\ Stats!Len(sorted) = c
        /\ \A n \in 1..c : sorted[n] \in S
        /\ \A m, n \in 1..c : m < n => sorted[m].end <= sorted[n].start
    BY SortedIs
  <1>2. \A x \in S : x.start <= x.end
    BY DEF Apart
  <1> HIDE DEF c, sorted
  <1>3. \A i \in 1..(c - 1) : i \in 1..c /\ i + 1 \in 1..c /\ i < i + 1
    BY <1>1
  <1>4. \A i \in DOMAIN sorted : sorted[i].start <= sorted[i].end
    BY <1>1, <1>2
  <1>5. \A i \in 1..(c - 1) : sorted[i].end <= sorted[i + 1].start
    BY <1>1, <1>3
  <1> QED
    BY <1>1, <1>4, <1>5 DEF sorted

\* The pass that a segment lies in is the last that has started.
LEMMA PassFound ==
  ASSUME NEW S, Apart(S), NEW p \in S, NEW t \in Ticks, p.start <= t, t < p.end
  PROVE  LET n == Stats!LastStarted(Stats!Sorted(S), t)
         IN n \in DOMAIN Stats!Sorted(S) /\ Stats!Sorted(S)[n] = p
  <1> DEFINE c == Cardinality(S)
             sorted == Stats!Sorted(S)
             started == {Stats!None} \union {i \in DOMAIN sorted : sorted[i].start <= t}
  <1>1. /\ c \in Nat /\ DOMAIN sorted = 1..c
        /\ \A n \in 1..c : sorted[n] \in S
        /\ \A m, n \in 1..c : m < n => sorted[m].end <= sorted[n].start
        /\ \E n \in 1..c : sorted[n] = p
    BY SortedIs
  <1>2. PICK k \in 1..c : sorted[k] = p
    BY <1>1
  <1>3. \A x \in S : x.start \in Nat /\ x.end \in Nat
    BY EventsAssumption DEF Apart, Ticks
  <1>4. t \in Nat
    BY EventsAssumption DEF Ticks
  <1> HIDE DEF c, sorted
  <1>5. k \in started
    BY <1>1, <1>2
  <1>6. ASSUME NEW m \in started PROVE m <= k /\ m \in Int
    <2>1. CASE m = Stats!None
      BY <1>1, <2>1 DEF Stats!None
    <2>2. CASE m \in 1..c /\ sorted[m].start <= t
      <3>1. ASSUME k < m PROVE FALSE
        <4>1. p.end <= sorted[m].start
          BY <1>1, <1>2, <2>2, <3>1
        <4>2. p.end \in Nat /\ sorted[m].start \in Nat
          BY <1>1, <1>3, <2>2
        <4> QED
          BY <1>4, <2>2, <4>1, <4>2
      <3> QED
        BY <1>1, <2>2, <3>1
    <2> QED
      BY <1>1, <1>6, <2>1, <2>2
  <1> HIDE DEF started
  <1>7. \A m \in started : (\A n \in started : n <= m) => m = k
    BY <1>5, <1>6
  <1>8. Stats!Best(started) = k
    <2>1. Stats!Best(started) = CHOOSE m \in started : \A n \in started : n <= m
      BY DEF Stats!Best
    <2>2. \E m \in started : \A n \in started : n <= m
      BY <1>5, <1>6
    <2> QED
      BY <1>7, <2>1, <2>2
  <1>9. Stats!LastStarted(sorted, t) = Stats!Best(started)
    BY DEF Stats!LastStarted, started
  <1> QED
    BY <1>1, <1>2, <1>8, <1>9 DEF sorted

\* _pair_intervals accepts a pair.
LEMMA PairIsAccepted ==
  ASSUME NEW pair, IsPair(pair)
  PROVE  Stats!IsAccepted(pair)
  <1> DEFINE spans == Stats!Sorted(pair.passes)
             tiles == Stats!Sorted(pair.segments)
             index(s) == Stats!LastStarted(spans, s.start)
  <1>1. Apart(pair.passes) /\ Apart(pair.segments)
    BY DEF IsPair
  <1>2. /\ \A i \in DOMAIN spans : spans[i].start <= spans[i].end
        /\ \A i \in 1..(Stats!Len(spans) - 1) : spans[i].end <= spans[i + 1].start
    BY <1>1, OrderAccepted
  <1>3. /\ \A i \in DOMAIN tiles : tiles[i].start <= tiles[i].end
        /\ \A i \in 1..(Stats!Len(tiles) - 1) : tiles[i].end <= tiles[i + 1].start
    BY <1>1, OrderAccepted
  <1>4. ASSUME NEW s \in pair.segments PROVE index(s) # Stats!None /\ s.end <= spans[index(s)].end
    <2>1. PICK p \in pair.passes : p.start <= s.start /\ s.end <= p.end /\ s.start < s.end
      BY DEF IsPair
    <2>2. s.start \in Ticks /\ s.start < p.end
      BY <1>1, <2>1, EventsAssumption DEF Apart, Ticks
    <2>3. index(s) \in DOMAIN spans /\ spans[index(s)] = p
      BY <1>1, <2>1, <2>2, PassFound
    <2>4. DOMAIN spans = 1..Cardinality(pair.passes) /\ Cardinality(pair.passes) \in Nat
      BY <1>1, SortedIs
    <2> HIDE DEF spans, index
    <2> QED
      BY <2>1, <2>3, <2>4 DEF Stats!None
  <1> QED
    BY <1>2, <1>3, <1>4 DEF Stats!IsAccepted

----------------------------------------------------------------------------
(* Segments.                                                               *)

LEMMA SegmentIs ==
  ASSUME NEW p, p.start \in Ticks, p.end \in Ticks, NEW rate, NEW s \in Segments(p, rate)
  PROVE  /\ s = [start |-> s.start, end |-> s.end, rate |-> rate[s.start]] /\ s.rate = rate[s.start]
         /\ s.start \in p.start..(p.end - 1) /\ s.end \in (p.start + 1)..p.end /\ s.start < s.end
         /\ \A t \in s.start..(s.end - 1) : rate[t] = s.rate
         /\ s.start = p.start \/ rate[s.start - 1] # s.rate
         /\ s.end = p.end \/ rate[s.end] # s.rate
  <1>1. PICK a \in p.start..(p.end - 1), b \in (p.start + 1)..p.end : s = [start |-> a, end |-> b, rate |-> rate[a]]
    BY DEF Segments
  <1>2. s.start = a /\ s.end = b /\ s.rate = rate[a]
    BY <1>1
  <1> QED
    BY <1>1, <1>2 DEF Segments

\* No segment starts inside another of its pass, and two that start at once are one.
LEMMA SegmentsApart ==
  ASSUME NEW p, p.start \in Ticks, p.end \in Ticks, NEW rate, NEW x \in Segments(p, rate), NEW y \in Segments(p, rate),
         x.start <= y.start
  PROVE  x = y \/ (x.start < y.start /\ x.end <= y.start)
  <1>1. /\ x = [start |-> x.start, end |-> x.end, rate |-> rate[x.start]] /\ x.rate = rate[x.start]
        /\ x.start \in p.start..(p.end - 1) /\ x.end \in (p.start + 1)..p.end /\ x.start < x.end
        /\ \A t \in x.start..(x.end - 1) : rate[t] = x.rate
        /\ x.end = p.end \/ rate[x.end] # x.rate
    BY SegmentIs
  <1>2. /\ y = [start |-> y.start, end |-> y.end, rate |-> rate[y.start]] /\ y.rate = rate[y.start]
        /\ y.start \in p.start..(p.end - 1) /\ y.end \in (p.start + 1)..p.end /\ y.start < y.end
        /\ \A t \in y.start..(y.end - 1) : rate[t] = y.rate
        /\ y.start = p.start \/ rate[y.start - 1] # y.rate
        /\ y.end = p.end \/ rate[y.end] # y.rate
    BY SegmentIs
  <1>3. /\ p.start \in Int /\ p.end \in Int /\ x.start \in Int /\ x.end \in Int /\ y.start \in Int /\ y.end \in Int
        /\ p.start <= x.start /\ x.end <= p.end /\ p.start <= y.start /\ y.end <= p.end
        /\ x.start < x.end /\ y.start < y.end
    BY <1>1, <1>2, EventsAssumption DEF Ticks
  <1>4. ASSUME x.start < y.start, y.start < x.end PROVE FALSE
    <2>1. y.start - 1 \in x.start..(x.end - 1) /\ y.start \in x.start..(x.end - 1) /\ y.start # p.start
      BY <1>3, <1>4
    <2>2. rate[y.start - 1] = x.rate /\ rate[y.start] = x.rate
      BY <1>1, <2>1
    <2> QED
      BY <1>2, <2>1, <2>2
  <1>5. ASSUME x.start = y.start PROVE x = y
    <2>1. x.rate = y.rate
      BY <1>1, <1>2, <1>5
    <2>2. ASSUME x.end < y.end PROVE FALSE
      <3>1. x.end \in y.start..(y.end - 1) /\ x.end # p.end
        BY <1>3, <1>5, <2>2
      <3> QED
        BY <1>1, <1>2, <2>1, <3>1
    <2>3. ASSUME y.end < x.end PROVE FALSE
      <3>1. y.end \in x.start..(x.end - 1) /\ y.end # p.end
        BY <1>3, <1>5, <2>3
      <3> QED
        BY <1>1, <1>2, <2>1, <3>1
    <2>4. x.end = y.end
      BY <1>3, <2>2, <2>3
    <2> QED
      BY <1>1, <1>2, <1>5, <2>4
  <1> QED
    BY <1>3, <1>4, <1>5

\* Passes that are apart and tiled by rate are a pair, whatever the rate.
LEMMA TiledIsPair ==
  ASSUME NEW S, Apart(S), NEW rate
  PROVE  IsPair([passes |-> S, segments |-> UNION {Segments(p, rate) : p \in S}])
  <1> DEFINE G == UNION {Segments(p, rate) : p \in S}
  <1>1. \A p \in S : p.start \in Ticks /\ p.end \in Ticks /\ p.start <= p.end /\ p.start \in Nat /\ p.end \in Nat
    BY EventsAssumption DEF Apart, Ticks
  <1>2. ASSUME NEW g \in G
        PROVE  \E p \in S : /\ g \in Segments(p, rate) /\ g.start \in Nat /\ g.end \in Nat
                            /\ p.start <= g.start /\ g.end <= p.end /\ g.start < g.end
    <2>1. PICK p \in S : g \in Segments(p, rate)
      OBVIOUS
    <2>2. g.start \in p.start..(p.end - 1) /\ g.end \in (p.start + 1)..p.end /\ g.start < g.end
      BY <1>1, <2>1, SegmentIs
    <2> QED
      BY <1>1, <2>1, <2>2
  <1> HIDE DEF G
  <1>3. ASSUME NEW g \in G PROVE g.start \in Ticks /\ g.end \in Ticks /\ g.start <= g.end
    <2>1. PICK p \in S : g.start \in Nat /\ g.end \in Nat /\ p.start <= g.start /\ g.end <= p.end /\ g.start < g.end
      BY <1>2, <1>3
    <2> QED
      BY <1>1, <2>1, EventsAssumption DEF Ticks
  <1>4. ASSUME NEW x \in G, NEW y \in G, x # y
        PROVE  (x.start < y.start /\ x.end <= y.start) \/ (y.start < x.start /\ y.end <= x.start)
    <2>1. PICK p \in S : /\ x \in Segments(p, rate) /\ x.start \in Nat /\ x.end \in Nat
                         /\ p.start <= x.start /\ x.end <= p.end /\ x.start < x.end
      BY <1>2, <1>4
    <2>2. PICK q \in S : /\ y \in Segments(q, rate) /\ y.start \in Nat /\ y.end \in Nat
                         /\ q.start <= y.start /\ y.end <= q.end /\ y.start < y.end
      BY <1>2, <1>4
    <2>3. CASE p = q
      <3>1. x.start <= y.start \/ y.start <= x.start
        BY <2>1, <2>2
      <3> QED
        BY <1>1, <1>4, <2>1, <2>2, <2>3, <3>1, SegmentsApart
    <2>4. CASE p # q
      <3>1. (p.start < q.start /\ p.end <= q.start) \/ (q.start < p.start /\ q.end <= p.start)
        BY <2>4 DEF Apart
      <3> QED
        BY <1>1, <2>1, <2>2, <3>1
    <2> QED
      BY <2>3, <2>4
  <1>5. Apart(G)
    BY <1>3, <1>4 DEF Apart
  <1>6. \A g \in G : g.start < g.end /\ \E p \in S : p.start <= g.start /\ g.end <= p.end
    BY <1>2
  <1> QED
    BY <1>5, <1>6 DEF IsPair, G

----------------------------------------------------------------------------
(* Runs of visible samples.                                                *)

\* The samples next to a sample.
LEMMA NextTo ==
  ASSUME NEW set \in SUBSET Ticks, NEW t \in set
  PROVE  /\ (\E u \in set : u > t) =>
              After(set, t) \in set /\ t < After(set, t) /\ \A u \in set : t < u => After(set, t) <= u
         /\ (\E u \in set : u < t) =>
              Before(set, t) \in set /\ Before(set, t) < t /\ \A u \in set : u < t => u <= Before(set, t)
  <1> DEFINE later == {u \in set : u > t}
             earlier == {u \in set : u < t}
  <1>1. later \in SUBSET Ticks /\ earlier \in SUBSET Ticks /\ \A u \in set : u \in Nat
    <2>1. \A u \in set : u \in Nat
      BY EventsAssumption DEF Ticks
    <2>2. later \in SUBSET Ticks /\ earlier \in SUBSET Ticks
      OBVIOUS
    <2> QED
      BY <2>1, <2>2
  <1>2. ASSUME later # {} PROVE Min(later) \in later /\ \A u \in later : Min(later) <= u
    <2> HIDE DEF later
    <2> QED
      BY <1>1, <1>2, MinIs
  <1>3. ASSUME earlier # {} PROVE Max(earlier) \in earlier /\ \A u \in earlier : u <= Max(earlier)
    <2> HIDE DEF earlier
    <2> QED
      BY <1>1, <1>3, MaxIs
  <1>4. After(set, t) = Min(later) /\ Before(set, t) = Max(earlier)
    BY DEF After, Before
  <1>5. ASSUME NEW u \in set, u > t
        PROVE  After(set, t) \in set /\ t < After(set, t) /\ \A v \in set : t < v => After(set, t) <= v
    <2>1. u \in later
      BY <1>5
    <2>2. Min(later) \in later /\ \A v \in later : Min(later) <= v
      BY <1>2, <2>1
    <2>3. \A v \in set : t < v => v \in later
      BY <1>1
    <2>4. Min(later) \in set /\ t < Min(later)
      BY <1>1, <2>2
    <2> HIDE DEF later
    <2> QED
      BY <1>4, <2>2, <2>3, <2>4
  <1>6. ASSUME NEW u \in set, u < t
        PROVE  Before(set, t) \in set /\ Before(set, t) < t /\ \A v \in set : v < t => v <= Before(set, t)
    <2>1. u \in earlier
      BY <1>6
    <2>2. Max(earlier) \in earlier /\ \A v \in earlier : v <= Max(earlier)
      BY <1>3, <2>1
    <2>3. \A v \in set : v < t => v \in earlier
      BY <1>1
    <2>4. Max(earlier) \in set /\ Max(earlier) < t
      BY <2>2
    <2> HIDE DEF earlier
    <2> QED
      BY <1>4, <2>2, <2>3, <2>4
  <1> QED
    BY <1>5, <1>6

\* A grid that covers the window.
Covering(set) == set \in SUBSET Ticks /\ 0 \in set /\ Window \in set

\* A run is visible, and the samples next to it are not.
LEMMA RunIs ==
  ASSUME NEW set, Covering(set), NEW run \in Runs(set)
  PROVE  /\ run = <<run[1], run[2]>> /\ run[1] \in set /\ run[2] \in set /\ run[1] <= run[2]
         /\ \A t \in set : run[1] <= t /\ t <= run[2] => Visible(t)
         /\ run[1] # 0 =>
              /\ Before(set, run[1]) \in set /\ Before(set, run[1]) < run[1] /\ ~Visible(Before(set, run[1]))
              /\ \A u \in set : u < run[1] => u <= Before(set, run[1])
              /\ <<Before(set, run[1]), run[1]>> \in Intervals(set)
         /\ run[2] # Window =>
              /\ After(set, run[2]) \in set /\ run[2] < After(set, run[2]) /\ ~Visible(After(set, run[2]))
              /\ \A u \in set : run[2] < u => After(set, run[2]) <= u
              /\ <<run[2], After(set, run[2])>> \in Intervals(set)
  <1>1. set \in SUBSET Ticks /\ 0 \in set /\ Window \in set /\ \A t \in set : t \in Nat /\ t <= Window
    BY EventsAssumption DEF Covering, Ticks
  <1>2. /\ run = <<run[1], run[2]>> /\ run[1] \in set /\ run[2] \in set /\ run[1] <= run[2]
        /\ \A t \in set : run[1] <= t /\ t <= run[2] => Visible(t)
        /\ run[1] = Min(set) \/ ~Visible(Before(set, run[1]))
        /\ run[2] = Max(set) \/ ~Visible(After(set, run[2]))
    BY DEF Runs
  <1>3. Min(set) = 0 /\ Max(set) = Window
    <2>1. Min(set) \in set /\ Min(set) <= 0 /\ Max(set) \in set /\ Window <= Max(set)
      BY <1>1, MinIs, MaxIs
    <2>2. Min(set) \in Nat /\ Max(set) \in Nat /\ Max(set) <= Window /\ Window \in Nat
      BY <1>1, <2>1
    <2> QED
      BY <2>1, <2>2
  <1>4. ASSUME run[1] # 0
        PROVE  /\ Before(set, run[1]) \in set /\ Before(set, run[1]) < run[1] /\ ~Visible(Before(set, run[1]))
               /\ \A u \in set : u < run[1] => u <= Before(set, run[1])
               /\ <<Before(set, run[1]), run[1]>> \in Intervals(set)
    <2> DEFINE a == run[1]
               b == Before(set, a)
    <2>1. a \in set /\ a \in Nat /\ 0 < a
      BY <1>1, <1>2, <1>4
    <2>2. b \in set /\ b < a /\ \A u \in set : u < a => u <= b
      <3> HIDE DEF a
      <3> QED
        BY <1>1, <2>1, NextTo
    <2>3. ~Visible(b)
      BY <1>2, <1>3, <1>4
    <2> HIDE DEF a, b
    <2>4. After(set, b) \in set /\ b < After(set, b) /\ \A u \in set : b < u => After(set, b) <= u
      BY <1>1, <2>1, <2>2, NextTo
    <2>5. After(set, b) = a
      <3>1. After(set, b) \in Nat /\ b \in Nat
        BY <1>1, <2>2, <2>4
      <3>2. After(set, b) <= a
        BY <2>1, <2>2, <2>4
      <3>3. After(set, b) < a => After(set, b) <= b
        BY <2>2, <2>4
      <3> QED
        BY <2>1, <2>4, <3>1, <3>2, <3>3
    <2>6. b # Window
      BY <1>1, <2>1, <2>2
    <2>7. <<b, a>> \in Intervals(set)
      BY <1>1, <2>2, <2>5, <2>6, IntervalFrom
    <2> QED
      BY <2>2, <2>3, <2>7 DEF a, b
  <1>5. ASSUME run[2] # Window
        PROVE  /\ After(set, run[2]) \in set /\ run[2] < After(set, run[2]) /\ ~Visible(After(set, run[2]))
               /\ \A u \in set : run[2] < u => After(set, run[2]) <= u
               /\ <<run[2], After(set, run[2])>> \in Intervals(set)
    <2> DEFINE a == run[2]
    <2>1. a \in set /\ a \in Nat /\ a < Window
      BY <1>1, <1>2, <1>5, EventsAssumption
    <2>2. ~Visible(After(set, a))
      BY <1>2, <1>3, <1>5
    <2> HIDE DEF a
    <2>3. After(set, a) \in set /\ a < After(set, a) /\ \A u \in set : a < u => After(set, a) <= u
      BY <1>1, <2>1, NextTo, EventsAssumption
    <2>4. <<a, After(set, a)>> \in Intervals(set)
      BY <1>1, <2>1, IntervalFrom
    <2> QED
      BY <2>2, <2>3, <2>4 DEF a
  <1> QED
    BY <1>2, <1>4, <1>5

\* Of two runs one ends before the other starts, with a sample that is not visible in between.
LEMMA RunsApart ==
  ASSUME NEW set, Covering(set), NEW r \in Runs(set), NEW q \in Runs(set), r # q, r[1] <= q[1]
  PROVE  r[2] # Window /\ q[1] # 0 /\ After(set, r[2]) <= Before(set, q[1])
  <1>1. /\ \A t \in set : t \in Nat /\ t <= Window
        /\ Window \in Nat
    BY EventsAssumption DEF Covering, Ticks
  <1>2. /\ r = <<r[1], r[2]>> /\ r[1] \in set /\ r[2] \in set /\ r[1] <= r[2]
        /\ \A t \in set : r[1] <= t /\ t <= r[2] => Visible(t)
        /\ r[2] # Window =>
             /\ After(set, r[2]) \in set /\ r[2] < After(set, r[2]) /\ ~Visible(After(set, r[2]))
             /\ \A u \in set : r[2] < u => After(set, r[2]) <= u
    BY RunIs
  <1>3. /\ q = <<q[1], q[2]>> /\ q[1] \in set /\ q[2] \in set /\ q[1] <= q[2]
        /\ \A t \in set : q[1] <= t /\ t <= q[2] => Visible(t)
        /\ q[1] # 0 =>
             /\ Before(set, q[1]) \in set /\ Before(set, q[1]) < q[1] /\ ~Visible(Before(set, q[1]))
             /\ \A u \in set : u < q[1] => u <= Before(set, q[1])
        /\ q[2] # Window =>
             /\ After(set, q[2]) \in set /\ q[2] < After(set, q[2]) /\ ~Visible(After(set, q[2]))
             /\ \A u \in set : q[2] < u => After(set, q[2]) <= u
    BY RunIs
  <1>4. r[2] < q[1]
    <2> SUFFICES ASSUME q[1] <= r[2] PROVE FALSE
      BY <1>1, <1>2, <1>3
    <2>1. q[1] = r[1]
      <3> SUFFICES ASSUME r[1] < q[1] PROVE FALSE
        BY <1>1, <1>2, <1>3
      <3>1. q[1] # 0 /\ r[1] <= Before(set, q[1]) /\ Before(set, q[1]) <= r[2]
        BY <1>1, <1>2, <1>3
      <3> QED
        BY <1>2, <1>3, <3>1
    <2>2. ~(r[2] < q[2])
      <3> SUFFICES ASSUME r[2] < q[2] PROVE FALSE
        OBVIOUS
      <3>1. r[2] # Window /\ After(set, r[2]) <= q[2] /\ q[1] <= After(set, r[2])
        BY <1>1, <1>2, <1>3
      <3> QED
        BY <1>2, <1>3, <3>1
    <2>3. ~(q[2] < r[2])
      <3> SUFFICES ASSUME q[2] < r[2] PROVE FALSE
        OBVIOUS
      <3>1. q[2] # Window /\ After(set, q[2]) <= r[2] /\ r[1] <= After(set, q[2])
        BY <1>1, <1>2, <1>3, <2>1
      <3> QED
        BY <1>2, <1>3, <3>1
    <2>4. r[2] = q[2]
      BY <1>1, <1>2, <1>3, <2>2, <2>3
    <2> QED
      BY <1>2, <1>3, <2>1, <2>4
  <1>5. r[2] # Window /\ q[1] # 0 /\ After(set, r[2]) <= q[1]
    BY <1>1, <1>2, <1>3, <1>4
  <1>6. After(set, r[2]) # q[1]
    BY <1>1, <1>2, <1>3, <1>5
  <1>7. After(set, r[2]) < q[1]
    BY <1>1, <1>2, <1>3, <1>5, <1>6
  <1> QED
    BY <1>2, <1>3, <1>5, <1>7

\* Passes that reach from a run no farther than the samples next to it are apart.
LEMMA PassesApart ==
  ASSUME NEW set, Covering(set), NEW f,
         \A r \in Runs(set) :
           /\ f[r].start \in Ticks /\ f[r].end \in Ticks /\ f[r].start <= r[1] /\ r[2] <= f[r].end
           /\ r[1] # 0 => Before(set, r[1]) < f[r].start
           /\ r[2] # Window => f[r].end <= After(set, r[2])
  PROVE  Apart({f[r] : r \in Runs(set)})
  <1> DEFINE S == {f[r] : r \in Runs(set)}
  <1>1. \A t \in Ticks : t \in Nat
    BY EventsAssumption DEF Ticks
  <1>2. \A t \in set : t \in Ticks
    BY DEF Covering
  <1>3. \A r \in Runs(set) : r[1] \in Nat /\ r[2] \in Nat /\ r[1] <= r[2]
    <2> TAKE r \in Runs(set)
    <2>1. r[1] \in set /\ r[2] \in set /\ r[1] <= r[2]
      BY RunIs
    <2> QED
      BY <1>1, <1>2, <2>1
  <1>4. ASSUME NEW x \in S PROVE x.start \in Ticks /\ x.end \in Ticks /\ x.start <= x.end
    <2>1. PICK r \in Runs(set) : x = f[r]
      OBVIOUS
    <2>2. /\ x.start \in Ticks /\ x.end \in Ticks /\ x.start <= r[1] /\ r[2] <= x.end
          /\ x.start \in Nat /\ x.end \in Nat
      BY <1>1, <2>1
    <2> QED
      BY <1>3, <2>2
  <1>5. ASSUME NEW r \in Runs(set), NEW q \in Runs(set), r # q, r[1] <= q[1]
        PROVE  f[r].start < f[q].start /\ f[r].end <= f[q].start
    <2>1. r[2] # Window /\ q[1] # 0 /\ After(set, r[2]) <= Before(set, q[1])
      BY <1>5, RunsApart
    <2>2. After(set, r[2]) \in Nat /\ Before(set, q[1]) \in Nat /\ r[2] < After(set, r[2])
      <3>1. After(set, r[2]) \in set /\ r[2] < After(set, r[2])
        BY <2>1, RunIs
      <3>2. Before(set, q[1]) \in set
        BY <2>1, RunIs
      <3> QED
        BY <1>1, <1>2, <3>1, <3>2
    <2>3. /\ f[r].start \in Nat /\ f[r].end \in Nat /\ f[q].start \in Nat
          /\ f[r].start <= r[1] /\ f[r].end <= After(set, r[2]) /\ Before(set, q[1]) < f[q].start
      BY <1>1, <2>1
    <2> QED
      BY <1>3, <2>1, <2>2, <2>3
  <1>6. ASSUME NEW x \in S, NEW y \in S, x # y
        PROVE  (x.start < y.start /\ x.end <= y.start) \/ (y.start < x.start /\ y.end <= x.start)
    <2>1. PICK r \in Runs(set) : x = f[r]
      OBVIOUS
    <2>2. PICK q \in Runs(set) : y = f[q]
      OBVIOUS
    <2>3. r # q /\ (r[1] <= q[1] \/ q[1] <= r[1])
      BY <1>3, <1>6, <2>1, <2>2
    <2> HIDE DEF S
    <2> QED
      BY <1>5, <2>1, <2>2, <2>3
  <1> QED
    BY <1>4, <1>6 DEF Apart

----------------------------------------------------------------------------
(* The search.                                                             *)

\* A bracket stays inside its crossing, and the root of one that begins out of sight is past its start.
Bracketed(c, bracket) ==
  /\ bracket \in [lo : Ticks, hi : Ticks, root : Ticks, active : BOOLEAN]
  /\ c[1] <= bracket.lo /\ bracket.lo < bracket.hi /\ bracket.hi <= c[2]
  /\ c[1] <= bracket.root /\ bracket.root <= c[2]
  /\ ~Visible(c[1]) => c[1] < bracket.root

\* What the search works on lies in the window.
Searched ==
  /\ Covering(grid)
  /\ times \in SUBSET Ticks
  /\ phase \in {"bisect", "bracket", "solve"} => Covering(times)
  /\ \A piece \in pieces : piece[1] \in Ticks /\ piece[2] \in Ticks
  /\ phase = "solve" => DOMAIN brackets = Crossings /\ \A c \in Crossings : Bracketed(c, brackets[c])

\* The passes found are apart; every satellite has a pair; the report finds nothing to refuse.
Paired ==
  /\ phase \notin {"tiled", "reported"} => pairs \in Others
  /\ phase = "found" => Apart(passes)
  /\ phase = "tiled" => \A s \in Satellites : IsPair(pairs[s])
  /\ phase = "reported" => result.accepted = Satellites

SInv == world \in Worlds /\ Searched /\ Paired

\* A function of ticks has a best tick in an interval.
LEMMA BestIs ==
  ASSUME NEW a \in Nat, NEW b \in Nat, a <= b, NEW f, \A u \in a..b : f[u] \in Int
  PROVE  \E m \in a..b : \A u \in a..b : f[u] <= f[m]
  <1> DEFINE Best(n) == \E m \in a..(a + n) : \A u \in a..(a + n) : f[u] <= f[m]
             T == {n \in 0..(b - a) : ~Best(n)}
  <1>1. T = {}
    <2> SUFFICES ASSUME T # {} PROVE FALSE
      OBVIOUS
    <2>1. \A n \in T : n \in Nat
      OBVIOUS
    <2>2. PICK n \in T : \A m \in T : n <= m
      <3> HIDE DEF T
      <3> QED
        BY <2>1, LeastNatural
    <2>3. n \in 0..(b - a) /\ n \in Nat /\ ~Best(n)
      OBVIOUS
    <2>4. n # 0
      <3> SUFFICES ASSUME n = 0 PROVE FALSE
        OBVIOUS
      <3>1. a \in a..(a + n) /\ \A u \in a..(a + n) : u = a
        OBVIOUS
      <3>2. \A u \in a..(a + n) : f[u] <= f[a]
        <4>1. f[a] \in Int
          OBVIOUS
        <4> QED
          BY <3>1, <4>1
      <3> QED
        BY <2>3, <3>1, <3>2
    <2>5. Best(n - 1)
      <3>1. n - 1 \in 0..(b - a) /\ ~(n <= n - 1)
        BY <2>3, <2>4
      <3>2. n - 1 \notin T
        <4> HIDE DEF T
        <4> QED
          BY <2>2, <3>1
      <3> QED
        BY <3>1, <3>2
    <2>6. PICK m \in a..(a + (n - 1)) : \A u \in a..(a + (n - 1)) : f[u] <= f[m]
      BY <2>5
    <2> DEFINE e == a + n
    <2>7. /\ e \in a..b /\ m \in a..b /\ m \in a..e /\ e \in a..e
          /\ \A u \in a..e : u \in a..(a + (n - 1)) \/ u = e
      BY <2>3, <2>4
    <2>8. f[e] \in Int /\ f[m] \in Int
      BY <2>7
    <2>9. \A u \in a..e : u \in a..b
      BY <2>7
    <2> HIDE DEF e, T
    <2>10. CASE f[e] <= f[m]
      <3>1. \A u \in a..e : f[u] <= f[m]
        BY <2>6, <2>7, <2>10
      <3>2. Best(n)
        BY <2>7, <3>1 DEF e
      <3> QED
        BY <2>3, <3>2
    <2>11. CASE ~(f[e] <= f[m])
      <3>1. \A u \in a..e : f[u] <= f[e]
        <4> TAKE u \in a..e
        <4>1. f[u] \in Int
          BY <2>9
        <4>2. CASE u = e
          BY <2>8, <4>2
        <4>3. CASE u # e
          <5>1. f[u] <= f[m]
            BY <2>6, <2>7, <4>3
          <5> QED
            BY <2>8, <2>11, <4>1, <5>1
        <4> QED
          BY <4>2, <4>3
      <3>2. Best(n)
        BY <2>7, <3>1 DEF e
      <3> QED
        BY <2>3, <3>2
    <2> QED
      BY <2>10, <2>11
  <1>2. b - a \in 0..(b - a) /\ a + (b - a) = b
    OBVIOUS
  <1>3. Best(b - a)
    BY <1>1, <1>2
  <1> QED
    BY <1>2, <1>3

\* The ticks of refined extrema are ticks of the window.
LEMMA ExtremaInside ==
  ASSUME world \in Worlds, Covering(grid)
  PROVE  Extrema \in SUBSET Ticks
  <1> SUFFICES ASSUME NEW sense \in {-1, 1}, NEW t \in grid, NEW e \in Refinement(sense, t)
               PROVE  e \in Ticks
    BY DEF Extrema
  <1> DEFINE a == Min(Around(t))
             b == Max(Around(t))
             f == [u \in Ticks |-> sense * world[u]]
             Largest(best) == \A u \in a..b : sense * world[u] <= sense * world[best]
  <1>1. Around(t) \in SUBSET Ticks /\ t \in Around(t)
    BY DEF Around, Covering
  <1>2. a \in Ticks /\ b \in Ticks /\ a <= t /\ t <= b
    <2>1. a \in Around(t) /\ b \in Around(t) /\ a <= t /\ t <= b
      BY <1>1, MinIs, MaxIs
    <2> HIDE DEF a, b
    <2> QED
      BY <1>1, <2>1
  <1>3. e = CHOOSE best \in a..b : Largest(best)
    BY DEF Refinement
  <1> HIDE DEF a, b
  <1>4. a \in Nat /\ b \in Nat /\ a <= b /\ (a..b) \subseteq Ticks
    <2>1. t \in Ticks
      BY DEF Covering
    <2> QED
      BY <1>2, <2>1, EventsAssumption DEF Ticks
  <1>5. \A u \in Ticks : world[u] \in Int
    BY EventsAssumption
  <1>6. \A u \in a..b : f[u] = sense * world[u] /\ f[u] \in Int
    BY <1>4, <1>5
  <1>7. PICK m \in a..b : \A u \in a..b : f[u] <= f[m]
    <2> HIDE DEF f
    <2> QED
      BY <1>4, <1>6, BestIs
  <1>8. Largest(m)
    BY <1>6, <1>7
  <1>9. e \in a..b
    <2> HIDE DEF Largest
    <2> QED
      BY <1>3, <1>8
  <1> QED
    BY <1>4, <1>9

\* A trial inside a bracket leaves a bracket.
LEMMA NarrowedIs ==
  ASSUME NEW c, c[1] \in Ticks, c[2] \in Ticks, NEW bracket, Bracketed(c, bracket),
         NEW trial \in Ticks, bracket.lo < trial, trial < bracket.hi
  PROVE  Bracketed(c, Narrowed(bracket, trial))
  <1> DEFINE same == (world[trial] > 0) = (world[bracket.hi] > 0)
             lower == IF same THEN bracket.lo ELSE trial
             upper == IF same THEN trial ELSE bracket.hi
             stopped == [bracket EXCEPT !.root = trial, !.active = FALSE]
             next == [lo |-> lower, hi |-> upper, root |-> upper, active |-> upper - lower > 1]
  <1>1. /\ bracket \in [lo : Ticks, hi : Ticks, root : Ticks, active : BOOLEAN]
        /\ c[1] <= bracket.lo /\ bracket.lo < bracket.hi /\ bracket.hi <= c[2]
    BY DEF Bracketed
  <1>2. bracket.lo \in Ticks /\ bracket.hi \in Ticks
    BY <1>1
  <1>3. \A t \in Ticks : t \in Nat
    BY EventsAssumption DEF Ticks
  <1>4. /\ lower \in Ticks /\ upper \in Ticks /\ lower < upper
        /\ c[1] <= lower /\ upper <= c[2] /\ c[1] < upper
    <2> HIDE DEF same
    <2> QED
      BY <1>1, <1>2, <1>3
  <1>5. c[1] <= trial /\ trial <= c[2] /\ c[1] < trial
    BY <1>1, <1>2, <1>3
  <1>6. Bracketed(c, stopped)
    <2>1. stopped \in [lo : Ticks, hi : Ticks, root : Ticks, active : BOOLEAN]
      BY <1>1
    <2>2. stopped.lo = bracket.lo /\ stopped.hi = bracket.hi /\ stopped.root = trial
      BY <1>1
    <2> HIDE DEF stopped
    <2> QED
      BY <1>1, <1>5, <2>1, <2>2 DEF Bracketed
  <1>7. Bracketed(c, next)
    <2> HIDE DEF lower, upper
    <2>1. (upper - lower > 1) \in BOOLEAN
      BY <1>3, <1>4
    <2>2. next \in [lo : Ticks, hi : Ticks, root : Ticks, active : BOOLEAN]
      BY <1>4, <2>1
    <2>3. next.lo = lower /\ next.hi = upper /\ next.root = upper
      OBVIOUS
    <2>4. c[1] <= upper
      BY <1>3, <1>4
    <2> HIDE DEF next
    <2> QED
      BY <1>4, <2>2, <2>3, <2>4 DEF Bracketed
  <1>8. Narrowed(bracket, trial) = stopped \/ Narrowed(bracket, trial) = next
    BY DEF Narrowed
  <1> QED
    BY <1>6, <1>7, <1>8

----------------------------------------------------------------------------
(* The steps.                                                              *)

\* The grid covers the window.
LEMMA GridCovers ==
  ASSUME IInv
  PROVE  Covering(grid)
  <1> DEFINE coarse == BuildGrid(setup.step)
  <1>1. setup.step \in 1..Window /\ setup.factor \in Nat \ {0} /\ grid = Refine(coarse, setup.factor)
    BY EventsAssumption DEF IInv
  <1>2. 0 % setup.step = 0
    BY <1>1, EventsAssumption
  <1>3. coarse \in SUBSET Ticks /\ Window \in coarse /\ 0 \in coarse
    BY <1>2, EventsAssumption DEF BuildGrid, Ticks
  <1> HIDE DEF coarse
  <1>4. coarse \subseteq grid /\ grid \subseteq Ticks
    BY <1>1, <1>3, RefineKeeps
  <1> QED
    BY <1>3, <1>4 DEF Covering

\* The search starts with a grid and nothing else.
LEMMA InitSearched ==
  ASSUME Init
  PROVE  SInv
  <1>1. IInv
    BY DEF Init, EventsInit, IInv
  <1>2. Covering(grid)
    BY <1>1, GridCovers
  <1> QED
    BY <1>2 DEF Init, EventsInit, SInv, Searched, Paired

\* Sampling makes breakpoints of the window and intervals between them.
LEMMA SampleSearched ==
  ASSUME SInv, Sample, UNCHANGED <<pairs, result, links>>
  PROVE  SInv'
  <1>1. Covering(grid) /\ world \in Worlds
    BY DEF SInv, Searched
  <1>2. Extrema \in SUBSET Ticks
    BY <1>1, ExtremaInside
  <1>3. times' = grid \union Extrema /\ pieces' = Intervals(times')
    BY DEF Sample
  <1>4. Covering(times')
    BY <1>1, <1>2, <1>3 DEF Covering
  <1>5. \A piece \in pieces' : piece[1] \in Ticks /\ piece[2] \in Ticks
    <2>1. times' \in SUBSET Ticks
      BY <1>4 DEF Covering
    <2> QED
      BY <1>3, <2>1, IntervalIs
  <1>6. phase = "sample" /\ phase' = "bisect" /\ grid' = grid /\ world' = world /\ pairs' = pairs
    BY DEF Sample
  <1>7. Searched'
    BY <1>1, <1>4, <1>5, <1>6 DEF Searched, Covering
  <1>8. Paired'
    BY <1>6 DEF SInv, Paired
  <1> QED
    BY <1>1, <1>6, <1>7, <1>8 DEF SInv

\* The middle of two ticks is a tick.
LEMMA MiddleIs ==
  ASSUME NEW piece, piece[1] \in Ticks, piece[2] \in Ticks
  PROVE  Middle(piece) \in Ticks
  <1>1. piece[1] \in Nat /\ piece[2] \in Nat /\ piece[1] <= Window /\ piece[2] <= Window /\ Window \in Nat
    BY EventsAssumption DEF Ticks
  <1> DEFINE x == piece[1] + piece[2]
             q == x \div 2
  <1>2. x \in Int /\ 0 <= x /\ x <= 2 * Window
    BY <1>1
  <1>3. q \in Int /\ 2 * q <= x /\ x < 2 * q + 2
    <2> HIDE DEF x
    <2> QED
      BY <1>2, Division
  <1>4. q \in 0..Window
    <2> HIDE DEF x, q
    <2> QED
      BY <1>1, <1>2, <1>3
  <1> QED
    BY <1>4 DEF Middle, Ticks

\* Bisecting adds the middles.
LEMMA BisectSearched ==
  ASSUME SInv, Bisect, UNCHANGED <<pairs, result, links>>
  PROVE  SInv'
  <1>1. /\ phase = "bisect" /\ Covering(grid) /\ Covering(times)
        /\ \A piece \in pieces : piece[1] \in Ticks /\ piece[2] \in Ticks
    BY DEF SInv, Searched, Bisect
  <1>2. \A piece \in pieces : Middle(piece) \in Ticks
    BY <1>1, MiddleIs
  <1>3. times' = times \union {Middle(piece) : piece \in pieces}
    BY DEF Bisect
  <1>4. Covering(times')
    BY <1>1, <1>2, <1>3 DEF Covering
  <1>5. \A piece \in pieces' : piece[1] \in Ticks /\ piece[2] \in Ticks
    <2> SUFFICES ASSUME NEW piece \in pieces' PROVE piece[1] \in Ticks /\ piece[2] \in Ticks
      OBVIOUS
    <2>1. PICK p \in pieces : piece = <<p[1], Middle(p)>> \/ piece = <<Middle(p), p[2]>>
      BY DEF Bisect
    <2> QED
      BY <1>1, <1>2, <2>1
  <1>6. phase' \in {"bracket", "failed", "bisect"} /\ grid' = grid /\ world' = world /\ pairs' = pairs
    BY DEF Bisect
  <1>7. Searched'
    BY <1>1, <1>4, <1>5, <1>6 DEF Searched, Covering
  <1>8. Paired'
    BY <1>1, <1>6 DEF SInv, Paired
  <1> QED
    BY <1>6, <1>7, <1>8 DEF SInv

\* A crossing lies between two breakpoints, in sight at one of them only.
LEMMA CrossingIs ==
  ASSUME Covering(times), NEW c \in Crossings
  PROVE  c[1] \in Ticks /\ c[2] \in Ticks /\ c[1] < c[2]
  <1>1. times \in SUBSET Ticks /\ c \in Intervals(times)
    BY DEF Covering, Crossings
  <1> QED
    BY <1>1, IntervalIs

\* The first brackets are the crossings.
LEMMA BracketSearched ==
  ASSUME SInv, Bracket, UNCHANGED <<pairs, result, links>>
  PROVE  SInv'
  <1>1. /\ phase = "bracket" /\ Covering(grid) /\ Covering(times)
        /\ \A piece \in pieces : piece[1] \in Ticks /\ piece[2] \in Ticks
    BY DEF SInv, Searched, Bracket
  <1>2. /\ phase' = "solve" /\ times' = times /\ pieces' = pieces
        /\ grid' = grid /\ world' = world /\ pairs' = pairs
    BY DEF Bracket
  <1>3. Crossings' = Crossings
    BY <1>2 DEF Crossings, Intervals, After, Visible
  <1>4. DOMAIN brackets' = Crossings
    BY DEF Bracket
  <1>5. ASSUME NEW c \in Crossings PROVE Bracketed(c, brackets'[c])
    <2> DEFINE root == IF world[c[1]] = 0 THEN c[1] ELSE c[2]
               active == world[c[1]] # 0 /\ world[c[2]] # 0 /\ c[2] - c[1] > 1
               bracket == [lo |-> c[1], hi |-> c[2], root |-> root, active |-> active]
    <2>1. c[1] \in Ticks /\ c[2] \in Ticks /\ c[1] < c[2]
      BY <1>1, CrossingIs
    <2>2. brackets'[c] = bracket
      BY DEF Bracket
    <2>3. root \in Ticks /\ c[1] <= root /\ root <= c[2]
      BY <2>1, EventsAssumption DEF Ticks
    <2>4. ~Visible(c[1]) => c[1] < root
      BY <2>1 DEF Visible
    <2>5. active \in BOOLEAN
      OBVIOUS
    <2>6. c[1] <= c[1] /\ c[2] <= c[2]
      BY <2>1, EventsAssumption DEF Ticks
    <2> HIDE DEF root, active
    <2>7. bracket \in [lo : Ticks, hi : Ticks, root : Ticks, active : BOOLEAN]
      BY <2>1, <2>3, <2>5
    <2>8. bracket.lo = c[1] /\ bracket.hi = c[2] /\ bracket.root = root
      OBVIOUS
    <2> HIDE DEF bracket
    <2> QED
      BY <2>1, <2>2, <2>3, <2>4, <2>6, <2>7, <2>8 DEF Bracketed
  <1>6. Searched'
    BY <1>1, <1>2, <1>3, <1>4, <1>5 DEF Searched, Covering, Bracketed, Visible
  <1>7. Paired'
    BY <1>1, <1>2 DEF SInv, Paired
  <1> QED
    BY <1>2, <1>6, <1>7 DEF SInv

\* A trial keeps every bracket a bracket of its crossing.
LEMMA SolveSearched ==
  ASSUME SInv, Solve, UNCHANGED <<pairs, result, links>>
  PROVE  SInv'
  <1>1. /\ phase = "solve" /\ Covering(grid) /\ Covering(times)
        /\ \A piece \in pieces : piece[1] \in Ticks /\ piece[2] \in Ticks
        /\ DOMAIN brackets = Crossings /\ \A c \in Crossings : Bracketed(c, brackets[c])
    BY DEF SInv, Searched, Solve
  <1>2. /\ phase' = phase /\ times' = times /\ pieces' = pieces
        /\ grid' = grid /\ world' = world /\ pairs' = pairs
    BY DEF Solve
  <1>3. Crossings' = Crossings
    BY <1>2 DEF Crossings, Intervals, After, Visible
  <1>4. PICK trial \in [Active -> Ticks] :
          /\ \A c \in Active : brackets[c].lo < trial[c] /\ trial[c] < brackets[c].hi
          /\ brackets' = [c \in DOMAIN brackets |->
               IF c \in Active THEN Narrowed(brackets[c], trial[c]) ELSE brackets[c]]
    BY DEF Solve
  <1>5. DOMAIN brackets' = Crossings
    BY <1>1, <1>4
  <1>6. ASSUME NEW c \in Crossings PROVE Bracketed(c, brackets'[c])
    <2>1. c[1] \in Ticks /\ c[2] \in Ticks
      BY <1>1, CrossingIs
    <2>2. Bracketed(c, brackets[c])
      BY <1>1
    <2>3. CASE c \in Active
      <3>1. trial[c] \in Ticks /\ brackets[c].lo < trial[c] /\ trial[c] < brackets[c].hi
        BY <1>4, <2>3
      <3>2. brackets'[c] = Narrowed(brackets[c], trial[c])
        BY <1>1, <1>4, <2>3
      <3> QED
        BY <2>1, <2>2, <3>1, <3>2, NarrowedIs
    <2>4. CASE c \notin Active
      BY <1>1, <1>4, <2>2, <2>4
    <2> QED
      BY <2>3, <2>4
  <1>7. Searched'
    BY <1>1, <1>2, <1>3, <1>5, <1>6 DEF Searched, Covering, Bracketed, Visible
  <1>8. Paired'
    BY <1>1, <1>2 DEF SInv, Paired
  <1> QED
    BY <1>2, <1>7, <1>8 DEF SInv

\* Roots end a pass before the next one starts.
LEMMA CollectSearched ==
  ASSUME SInv, Collect, UNCHANGED <<pairs, result, links>>
  PROVE  SInv'
  <1>1. /\ phase = "solve" /\ Covering(grid) /\ Covering(times)
        /\ \A piece \in pieces : piece[1] \in Ticks /\ piece[2] \in Ticks
        /\ \A c \in Crossings : Bracketed(c, brackets[c])
    BY DEF SInv, Searched, Collect
  <1>2. /\ phase' = "found" /\ times' = times /\ pieces' = pieces
        /\ grid' = grid /\ world' = world /\ pairs' = pairs
    BY DEF Collect
  <1> DEFINE first(r) == IF r[1] = 0 THEN 0 ELSE RootAt(Before(times, r[1]), r[1])
             last(r) == IF r[2] = Window THEN Window ELSE RootAt(r[2], After(times, r[2]))
             f == [r \in Runs(times) |-> Pass(times, r, first(r), last(r))]
  <1>3. passes' = {f[r] : r \in Runs(times)}
    BY DEF Collect
  <1>4. ASSUME NEW r \in Runs(times)
        PROVE  /\ f[r].start \in Ticks /\ f[r].end \in Ticks /\ f[r].start <= r[1] /\ r[2] <= f[r].end
               /\ r[1] # 0 => Before(times, r[1]) < f[r].start
               /\ r[2] # Window => f[r].end <= After(times, r[2])
    <2>1. f[r].start = first(r) /\ f[r].end = last(r)
      BY DEF Pass
    <2>2. /\ r[1] \in Ticks /\ r[2] \in Ticks /\ Visible(r[1]) /\ Visible(r[2])
      <3>1. /\ r[1] \in times /\ r[2] \in times /\ r[1] <= r[2] /\ times \in SUBSET Ticks
            /\ \A t \in times : r[1] <= t /\ t <= r[2] => Visible(t)
        BY <1>1, RunIs DEF Covering
      <3>2. \A t \in Ticks : t \in Nat
        BY EventsAssumption DEF Ticks
      <3>3. r[1] \in Nat /\ r[2] \in Nat
        BY <3>1, <3>2
      <3> QED
        BY <3>1, <3>3
    <2>3. ASSUME r[1] # 0
          PROVE  first(r) \in Ticks /\ first(r) <= r[1] /\ Before(times, r[1]) < first(r)
      <3> DEFINE c == <<Before(times, r[1]), r[1]>>
      <3>1. c \in Intervals(times) /\ ~Visible(Before(times, r[1]))
        BY <1>1, <2>3, RunIs
      <3>2. c \in Crossings
        BY <2>2, <3>1 DEF Crossings
      <3>3. Bracketed(c, brackets[c])
        BY <1>1, <3>2
      <3>4. c[1] = Before(times, r[1]) /\ c[2] = r[1]
        OBVIOUS
      <3>5. first(r) = brackets[c].root
        BY <2>3 DEF RootAt
      <3> HIDE DEF c
      <3>6. first(r) \in Ticks /\ first(r) <= c[2] /\ c[1] < first(r)
        <4> HIDE DEF first
        <4> QED
          BY <3>1, <3>3, <3>4, <3>5 DEF Bracketed
      <3> QED
        BY <3>4, <3>6
    <2>4. ASSUME r[2] # Window
          PROVE  last(r) \in Ticks /\ r[2] <= last(r) /\ last(r) <= After(times, r[2])
      <3> DEFINE c == <<r[2], After(times, r[2])>>
      <3>1. c \in Intervals(times) /\ ~Visible(After(times, r[2]))
        BY <1>1, <2>4, RunIs
      <3>2. c \in Crossings
        BY <2>2, <3>1 DEF Crossings
      <3>3. Bracketed(c, brackets[c])
        BY <1>1, <3>2
      <3>4. c[1] = r[2] /\ c[2] = After(times, r[2])
        OBVIOUS
      <3>5. last(r) = brackets[c].root
        BY <2>4 DEF RootAt
      <3> HIDE DEF c
      <3>6. last(r) \in Ticks /\ c[1] <= last(r) /\ last(r) <= c[2]
        <4> HIDE DEF last
        <4> QED
          BY <3>3, <3>5 DEF Bracketed
      <3> QED
        BY <3>4, <3>6
    <2>5. first(r) \in Ticks /\ first(r) <= r[1]
      <3>1. r[1] = 0 => first(r) = 0 /\ 0 \in Ticks /\ 0 <= r[1]
        BY EventsAssumption DEF Ticks
      <3> HIDE DEF first
      <3> QED
        BY <2>3, <3>1
    <2>6. last(r) \in Ticks /\ r[2] <= last(r)
      <3>1. r[2] = Window => last(r) = Window /\ Window \in Ticks /\ r[2] <= Window
        BY EventsAssumption DEF Ticks
      <3> HIDE DEF last
      <3> QED
        BY <2>4, <3>1
    <2> HIDE DEF f, first, last
    <2> QED
      BY <2>1, <2>3, <2>4, <2>5, <2>6
  <1>5. Apart({f[r] : r \in Runs(times)})
    <2> HIDE DEF f
    <2> QED
      BY <1>1, <1>4, PassesApart
  <1>6. Apart(passes')
    <2> HIDE DEF f
    <2> QED
      BY <1>3, <1>5
  <1>7. Searched'
    BY <1>1, <1>2 DEF Searched, Covering
  <1>8. Paired'
    BY <1>1, <1>2, <1>6 DEF SInv, Paired, Apart
  <1> QED
    BY <1>2, <1>7, <1>8 DEF SInv

\* Without a search a pass ends at the sample after its last.
LEMMA HoldSearched ==
  ASSUME SInv, Hold, UNCHANGED <<pairs, result, links>>
  PROVE  SInv'
  <1>1. /\ phase = "sample" /\ Covering(grid) /\ times \in SUBSET Ticks
        /\ \A piece \in pieces : piece[1] \in Ticks /\ piece[2] \in Ticks
    BY DEF SInv, Searched, Hold
  <1>2. /\ phase' = "found" /\ times' = times /\ pieces' = pieces
        /\ grid' = grid /\ world' = world /\ pairs' = pairs
    BY DEF Hold
  <1> DEFINE last(r) == IF r[2] = Window THEN Window ELSE After(grid, r[2])
             f == [r \in Runs(grid) |-> Pass(grid, r, r[1], last(r))]
  <1>3. passes' = {f[r] : r \in Runs(grid)}
    BY DEF Hold
  <1>4. ASSUME NEW r \in Runs(grid)
        PROVE  /\ f[r].start \in Ticks /\ f[r].end \in Ticks /\ f[r].start <= r[1] /\ r[2] <= f[r].end
               /\ r[1] # 0 => Before(grid, r[1]) < f[r].start
               /\ r[2] # Window => f[r].end <= After(grid, r[2])
    <2>1. f[r].start = r[1] /\ f[r].end = last(r)
      BY DEF Pass
    <2>2. /\ r[1] \in Ticks /\ r[2] \in Ticks /\ r[1] <= r[1] /\ r[2] <= Window
      <3>1. r[1] \in grid /\ r[2] \in grid /\ grid \in SUBSET Ticks
        BY <1>1, RunIs DEF Covering
      <3>2. \A t \in Ticks : t \in Nat /\ t <= Window
        BY EventsAssumption DEF Ticks
      <3>3. r[1] \in Nat /\ r[2] \in Nat
        BY <3>1, <3>2
      <3> QED
        BY <3>1, <3>2, <3>3
    <2>3. r[1] # 0 => Before(grid, r[1]) < r[1]
      BY <1>1, RunIs
    <2>4. r[2] # Window => After(grid, r[2]) \in grid /\ r[2] < After(grid, r[2])
      BY <1>1, RunIs
    <2>5. r[2] # Window => last(r) \in Ticks /\ r[2] <= last(r) /\ last(r) <= After(grid, r[2])
      <3>1. r[2] # Window => last(r) = After(grid, r[2]) /\ After(grid, r[2]) \in Ticks
        BY <1>1, <2>4 DEF Covering
      <3> HIDE DEF last
      <3> QED
        BY <2>2, <2>4, <3>1, EventsAssumption DEF Ticks
    <2>6. last(r) \in Ticks /\ r[2] <= last(r)
      <3>1. r[2] = Window => last(r) = Window /\ Window \in Ticks
        BY EventsAssumption DEF Ticks
      <3> HIDE DEF last
      <3> QED
        BY <2>2, <2>5, <3>1
    <2> HIDE DEF f, last
    <2> QED
      BY <2>1, <2>2, <2>3, <2>5, <2>6
  <1>5. Apart({f[r] : r \in Runs(grid)})
    <2> HIDE DEF f
    <2> QED
      BY <1>1, <1>4, PassesApart
  <1>6. Apart(passes')
    <2> HIDE DEF f
    <2> QED
      BY <1>3, <1>5
  <1>7. Searched'
    BY <1>1, <1>2 DEF Searched, Covering
  <1>8. Paired'
    BY <1>1, <1>2, <1>6 DEF SInv, Paired, Apart
  <1> QED
    BY <1>2, <1>7, <1>8 DEF SInv

\* Tiling the passes found makes a pair of satellite 0.
LEMMA TileSearched ==
  ASSUME SInv, Tile
  PROVE  SInv'
  <1>1. /\ phase = "found" /\ Covering(grid) /\ times \in SUBSET Ticks /\ Apart(passes) /\ pairs \in Others
        /\ \A piece \in pieces : piece[1] \in Ticks /\ piece[2] \in Ticks
    BY DEF SInv, Searched, Paired, Tile
  <1>2. /\ phase' = "tiled" /\ times' = times /\ pieces' = pieces /\ grid' = grid /\ world' = world
    BY DEF Tile
  <1> DEFINE rate == [t \in Instants |-> RateOf(t)]
             pair == [passes |-> passes, segments |-> UNION {Segments(p, rate) : p \in passes}]
  <1>3. IsPair(pair)
    <2> HIDE DEF rate
    <2> QED
      BY <1>1, TiledIsPair
  <1>4. pairs' = [s \in Satellites |-> IF s = 0 THEN pair ELSE pairs[s]]
    BY DEF Tile
  <1>5. /\ Satellites = {0} \union DOMAIN pairs /\ 0 \notin DOMAIN pairs
        /\ \A s \in DOMAIN pairs : IsPair(pairs[s])
    BY <1>1, TimelineAssumption
  <1>6. \A s \in Satellites : IsPair(pairs'[s])
    <2> HIDE DEF pair
    <2> QED
      BY <1>3, <1>4, <1>5
  <1>7. Searched'
    BY <1>1, <1>2 DEF Searched, Covering
  <1>8. Paired'
    BY <1>1, <1>2, <1>6 DEF Paired, IsPair, Apart
  <1> QED
    BY <1>2, <1>7, <1>8 DEF SInv

\* The report refuses no pair.
LEMMA ReportSearched ==
  ASSUME SInv, Report
  PROVE  SInv'
  <1>1. /\ phase = "tiled" /\ Covering(grid) /\ times \in SUBSET Ticks
        /\ \A s \in Satellites : IsPair(pairs[s])
        /\ \A piece \in pieces : piece[1] \in Ticks /\ piece[2] \in Ticks
    BY DEF SInv, Searched, Paired, Report
  <1>2. /\ phase' = "reported" /\ times' = times /\ pieces' = pieces /\ grid' = grid /\ world' = world
    BY DEF Report
  <1>3. {s \in Satellites : Stats!IsAccepted(pairs[s])} = Satellites
    BY <1>1, PairIsAccepted
  <1>4. result'.accepted = Satellites
    BY <1>3 DEF Report
  <1>5. Searched'
    BY <1>1, <1>2 DEF Searched, Covering
  <1>6. Paired'
    BY <1>2, <1>4 DEF Paired
  <1> QED
    BY <1>2, <1>5, <1>6 DEF SInv

\* A step that changes nothing keeps it.
LEMMA StutterSearched ==
  ASSUME SInv, UNCHANGED vars
  PROVE  SInv'
  <1>1. /\ phase' = phase /\ times' = times /\ pieces' = pieces /\ brackets' = brackets
        /\ grid' = grid /\ world' = world
    BY DEF vars, eventsVars
  <1>2. Crossings' = Crossings
    BY <1>1 DEF Crossings, Intervals, After, Visible
  <1>3. Searched'
    BY <1>1, <1>2 DEF SInv, Searched, Covering, Bracketed, Visible
  <1>4. Paired'
    BY DEF SInv, Paired, IsPair, Apart, vars, eventsVars
  <1> QED
    BY <1>1, <1>3, <1>4 DEF SInv

\* No step loses it.
LEMMA SearchedKept ==
  ASSUME SInv, [Next]_vars
  PROVE  SInv'
  <1>1. ASSUME Search PROVE SInv'
    BY <1>1, SampleSearched, BisectSearched, BracketSearched, SolveSearched, CollectSearched, HoldSearched
    DEF Search, EventsNext
  <1> QED
    BY <1>1, TileSearched, ReportSearched, StutterSearched DEF Next

\* The checks of statistics.py never refuse what the search found: whatever the window, the grid, the
\* elevations and the trial points of the root finder, the passes of find_passes and passes_on_grid are
\* ordered and disjoint, their rate segments tile them, and every one of both is accepted.
THEOREM PairsStand == Spec => []PairsAccepted
  <1>1. Init => SInv
    BY InitSearched
  <1>2. SInv /\ [Next]_vars => SInv'
    BY SearchedKept
  <1>3. SInv => PairsAccepted
    BY DEF SInv, Paired, PairsAccepted
  <1> QED
    BY <1>1, <1>2, <1>3, PTL DEF Spec

----------------------------------------------------------------------------
(* Elevations between their turns.                                         *)

\* The elevation rises to a tick; it turns at one.
Rise(u) == world[u] > world[u - 1]
Turn(u) == (world[u] > world[u - 1]) # (world[u + 1] > world[u])

\* No two ticks in succession are alike.
Moving == \A u \in 1..Window : world[u] # world[u - 1]

\* What rises from each tick to the next rises from every tick to every later one.
LEMMA Climbs ==
  ASSUME NEW a \in Nat, NEW b \in Nat, NEW f, \A t \in a..b : f[t] \in Int,
         \A t \in (a + 1)..b : f[t - 1] < f[t]
  PROVE  \A s, t \in a..b : s < t => f[s] < f[t]
  <1> SUFFICES ASSUME NEW s \in a..b PROVE \A t \in a..b : s < t => f[s] < f[t]
    OBVIOUS
  <1> DEFINE T == {t \in a..b : s < t /\ ~(f[s] < f[t])}
  <1>1. ASSUME T # {} PROVE FALSE
    <2>1. \A n \in T : n \in Nat
      OBVIOUS
    <2>2. PICK n \in T : \A m \in T : n <= m
      <3> HIDE DEF T
      <3> QED
        BY <1>1, <2>1, LeastNatural
    <2>3. n \in a..b /\ s < n /\ ~(f[s] < f[n])
      OBVIOUS
    <2> DEFINE m == n - 1
    <2>4. m \in a..b /\ ~(n <= m) /\ s <= m /\ n \in (a + 1)..b
      BY <2>3
    <2>5. m \notin T
      <3> HIDE DEF T, m
      <3> QED
        BY <2>2, <2>4
    <2>6. s < m => f[s] < f[m]
      <3> HIDE DEF m
      <3> QED
        BY <2>4, <2>5
    <2>7. f[m] < f[n]
      BY <2>4
    <2>8. f[m] \in Int /\ f[n] \in Int /\ f[s] \in Int
      <3> HIDE DEF m
      <3> QED
        BY <2>3, <2>4
    <2>9. s = m \/ s < m
      <3> HIDE DEF T
      <3> QED
        BY <2>4
    <2> HIDE DEF m, T
    <2> QED
      BY <2>3, <2>6, <2>7, <2>8, <2>9
  <1> QED
    BY <1>1

\* Between two ticks without a turn the elevation rises, or it falls, all the way.
LEMMA SteadyIs ==
  ASSUME world \in Worlds, Moving, NEW a \in Ticks, NEW b \in Ticks, a < b,
         \A u \in (a + 1)..(b - 1) : ~Turn(u)
  PROVE  /\ Rise(a + 1) <=> Rise(b)
         /\ Rise(b) => \A s, t \in a..b : s < t => world[s] < world[t]
         /\ ~Rise(b) => \A s, t \in a..b : s < t => world[t] < world[s]
  <1>1. \A t \in Ticks : world[t] \in Int
    BY EventsAssumption
  <1>2. a \in Nat /\ b \in Nat /\ b <= Window /\ Window \in Nat /\ (a..b) \subseteq Ticks
    BY EventsAssumption DEF Ticks
  <1>3. \A t \in a..b : world[t] \in Int
    BY <1>1, <1>2
  <1> DEFINE T == {t \in (a + 1)..b : ~(Rise(t) <=> Rise(b))}
             U == {b - t : t \in T}
  <1>4. ASSUME T # {} PROVE FALSE
    <2>1. \A n \in U : n \in Nat
      BY <1>2
    <2>2. U # {}
      BY <1>4
    <2>3. PICK n \in U : \A m \in U : n <= m
      <3> HIDE DEF U
      <3> QED
        BY <2>1, <2>2, LeastNatural
    <2>4. PICK t \in T : n = b - t
      OBVIOUS
    <2>5. t \in (a + 1)..b /\ ~(Rise(t) <=> Rise(b))
      OBVIOUS
    <2>6. t # b
      BY <2>5
    <2>7. t \in (a + 1)..(b - 1) /\ t + 1 \in (a + 1)..b /\ (t + 1) - 1 = t
      BY <1>2, <2>5, <2>6
    <2>8. Rise(t + 1) <=> Rise(b)
      <3> SUFFICES ASSUME ~(Rise(t + 1) <=> Rise(b)) PROVE FALSE
        OBVIOUS
      <3>1. t + 1 \in T
        BY <2>7
      <3>2. b - (t + 1) \in U
        BY <3>1
      <3>3. n <= b - (t + 1)
        <4> HIDE DEF U, T
        <4> QED
          BY <2>3, <3>2
      <3> QED
        BY <1>2, <2>4, <2>5, <3>3
    <2>9. ~Turn(t)
      BY <2>7
    <2>10. Rise(t) <=> Rise(t + 1)
      BY <2>7, <2>9 DEF Rise, Turn
    <2> QED
      BY <2>5, <2>8, <2>10
  <1>5. \A t \in (a + 1)..b : Rise(t) <=> Rise(b)
    BY <1>4
  <1>6. a + 1 \in (a + 1)..b /\ \A t \in (a + 1)..b : t \in 1..Window /\ t \in a..b /\ t - 1 \in a..b
    BY <1>2
  <1>7. ASSUME Rise(b) PROVE \A s, t \in a..b : s < t => world[s] < world[t]
    <2>1. \A t \in (a + 1)..b : world[t - 1] < world[t]
      <3> TAKE t \in (a + 1)..b
      <3>1. world[t] > world[t - 1]
        BY <1>5, <1>7 DEF Rise
      <3>2. world[t] \in Int /\ world[t - 1] \in Int
        BY <1>3, <1>6
      <3> QED
        BY <3>1, <3>2
    <2> QED
      BY <1>2, <1>3, <2>1, Climbs
  <1>8. ASSUME ~Rise(b) PROVE \A s, t \in a..b : s < t => world[t] < world[s]
    <2> DEFINE f == [t \in a..b |-> -world[t]]
    <2>1. \A t \in a..b : f[t] = -world[t] /\ f[t] \in Int
      BY <1>3
    <2>2. \A t \in (a + 1)..b : f[t - 1] < f[t]
      <3> TAKE t \in (a + 1)..b
      <3>1. ~(world[t] > world[t - 1])
        BY <1>5, <1>8 DEF Rise
      <3>2. world[t] \in Int /\ world[t - 1] \in Int /\ f[t] = -world[t] /\ f[t - 1] = -world[t - 1]
        BY <1>3, <1>6, <2>1
      <3>3. world[t] # world[t - 1]
        BY <1>6 DEF Moving
      <3> HIDE DEF f
      <3> QED
        BY <3>1, <3>2, <3>3
    <2>3. \A s, t \in a..b : s < t => f[s] < f[t]
      <3> HIDE DEF f
      <3> QED
        BY <1>2, <2>1, <2>2, Climbs
    <2> TAKE s \in a..b, t \in a..b
    <2> HAVE s < t
    <2>4. f[s] < f[t] /\ f[s] = -world[s] /\ f[t] = -world[t] /\ world[s] \in Int /\ world[t] \in Int
      BY <1>3, <2>1, <2>3
    <2> HIDE DEF f
    <2> QED
      BY <2>4
  <1> QED
    BY <1>5, <1>6, <1>7, <1>8

\* A set of one element at most has no two.
LEMMA OnlyOne ==
  ASSUME NEW S, IsFiniteSet(S), Cardinality(S) <= 1, NEW x \in S, NEW y \in S
  PROVE  x = y
  <1> SUFFICES ASSUME x # y PROVE FALSE
    OBVIOUS
  <1>1. Cardinality(S) \in Nat
    BY FS_CardinalityType
  <1>2. IsFiniteSet(S \ {x}) /\ Cardinality(S \ {x}) = Cardinality(S) - 1
    BY FS_RemoveElement
  <1>3. Cardinality(S \ {x}) \in Nat
    BY <1>2, FS_CardinalityType
  <1>4. Cardinality(S \ {x}) = 0
    BY <1>1, <1>2, <1>3
  <1>5. S \ {x} = {}
    BY <1>2, <1>4, FS_EmptySet
  <1> QED
    BY <1>5

\* Seen with its sign, a turn is the one top of what lies around it up to other turns.
LEMMA TopIs ==
  ASSUME world \in Worlds, Moving, NEW a \in Ticks, NEW b \in Ticks, NEW u \in (a + 1)..(b - 1), Turn(u),
         \A v \in (a + 1)..(b - 1) : Turn(v) => v = u,
         NEW sense \in {-1, 1}, sense = 1 <=> Rise(u)
  PROVE  /\ \A s, t \in a..u : s < t => sense * world[s] < sense * world[t]
         /\ \A s, t \in u..b : s < t => sense * world[t] < sense * world[s]
         /\ \A t \in a..b : t # u => sense * world[t] < sense * world[u]
  <1>1. \A t \in Ticks : world[t] \in Int
    BY EventsAssumption
  <1>2. /\ a \in Nat /\ b \in Nat /\ u \in Nat /\ a < u /\ u < b /\ b <= Window /\ Window \in Nat
        /\ u \in Ticks /\ (a..b) \subseteq Ticks /\ \A t \in a..b : t \in a..u \/ t \in u..b
    BY EventsAssumption DEF Ticks
  <1>3. Rise(u) <=> ~Rise(u + 1)
    <2>1. (u + 1) - 1 = u
      BY <1>2
    <2> QED
      BY <2>1 DEF Turn, Rise
  <1>4. (\A v \in (a + 1)..(u - 1) : ~Turn(v)) /\ (\A v \in (u + 1)..(b - 1) : ~Turn(v))
    BY <1>2
  <1>5. /\ Rise(u) => \A s, t \in a..u : s < t => world[s] < world[t]
        /\ ~Rise(u) => \A s, t \in a..u : s < t => world[t] < world[s]
    BY <1>2, <1>4, SteadyIs
  <1>6. /\ Rise(u + 1) => \A s, t \in u..b : s < t => world[s] < world[t]
        /\ ~Rise(u + 1) => \A s, t \in u..b : s < t => world[t] < world[s]
    BY <1>2, <1>4, SteadyIs
  <1>7. \A t \in a..b : world[t] \in Int
    BY <1>1, <1>2
  <1>8. \A s, t \in a..b : /\ sense = 1 => sense * world[s] = world[s] /\ sense * world[t] = world[t]
                           /\ sense # 1 => sense * world[s] = -world[s] /\ sense * world[t] = -world[t]
    BY <1>7
  <1>9. \A s, t \in a..u : s < t => sense * world[s] < sense * world[t]
    <2> TAKE s \in a..u, t \in a..u
    <2> HAVE s < t
    <2>1. s \in a..b /\ t \in a..b
      BY <1>2
    <2>2. world[s] \in Int /\ world[t] \in Int
      BY <1>7, <2>1
    <2>3. CASE Rise(u)
      <3>1. world[s] < world[t]
        BY <1>5, <2>3
      <3> QED
        BY <1>8, <2>1, <2>3, <3>1
    <2>4. CASE ~Rise(u)
      <3>1. world[t] < world[s]
        BY <1>5, <2>4
      <3>2. -world[s] < -world[t]
        BY <2>2, <3>1
      <3> QED
        BY <1>8, <2>1, <2>4, <3>2
    <2> QED
      BY <2>3, <2>4
  <1>10. \A s, t \in u..b : s < t => sense * world[t] < sense * world[s]
    <2> TAKE s \in u..b, t \in u..b
    <2> HAVE s < t
    <2>1. s \in a..b /\ t \in a..b
      BY <1>2
    <2>2. world[s] \in Int /\ world[t] \in Int
      BY <1>7, <2>1
    <2>3. CASE Rise(u)
      <3>1. world[t] < world[s]
        BY <1>3, <1>6, <2>3
      <3> QED
        BY <1>8, <2>1, <2>3, <3>1
    <2>4. CASE ~Rise(u)
      <3>1. world[s] < world[t]
        BY <1>3, <1>6, <2>4
      <3>2. -world[t] < -world[s]
        BY <2>2, <3>1
      <3> QED
        BY <1>8, <2>1, <2>4, <3>2
    <2> QED
      BY <2>3, <2>4
  <1>11. ASSUME NEW t \in a..b, t # u PROVE sense * world[t] < sense * world[u]
    <2>1. u \in a..u /\ u \in u..b
      BY <1>2
    <2>2. (t \in a..u /\ t < u) \/ (t \in u..b /\ u < t)
      BY <1>2, <1>11
    <2> QED
      BY <1>9, <1>10, <2>1, <2>2
  <1> QED
    BY <1>9, <1>10, <1>11

\* On a fine grid a turn between two samples is the extremum one of them is refined to.
LEMMA TurnFound ==
  ASSUME world \in Worlds, Covering(grid), IsFine, NEW u \in 1..(Window - 1), Turn(u), u \notin grid
  PROVE  u \in Extrema
  <1> DEFINE before == {v \in grid : v < u}
             after == {v \in grid : u < v}
             g == Max(before)
             h == Min(after)
             sense == IF Rise(u) THEN 1 ELSE -1
  <1>1. Moving /\ \A t \in Ticks : world[t] \in Int
    BY EventsAssumption DEF IsFine, Moving
  <1>2. Window \in Nat /\ u \in Nat /\ 0 < u /\ u < Window /\ \A v \in grid : v \in Nat /\ v \in Ticks /\ v <= Window
    BY EventsAssumption DEF Covering, Ticks
  <1>3. before \in SUBSET Ticks /\ before # {} /\ after \in SUBSET Ticks /\ after # {}
    BY <1>2 DEF Covering
  <1>4. g \in before /\ h \in after /\ (\A v \in before : v <= g) /\ (\A v \in after : h <= v)
    <2> HIDE DEF before, after
    <2> QED
      BY <1>3, MaxIs, MinIs
  <1>5. /\ g \in grid /\ h \in grid /\ g < u /\ u < h
        /\ \A v \in grid : v <= g \/ h <= v
    <2> HIDE DEF g, h
    <2>1. g \in grid /\ h \in grid /\ g < u /\ u < h
      BY <1>4
    <2>2. \A v \in grid : v < u \/ u < v
      BY <1>2
    <2>3. \A v \in grid : v <= g \/ h <= v
      BY <1>4, <2>2
    <2> QED
      BY <2>1, <2>3
  <1> HIDE DEF g, h, before, after
  <1>6. sense \in {-1, 1} /\ (sense = 1 <=> Rise(u))
    OBVIOUS
  <1> HIDE DEF sense
  <1>7. ASSUME NEW s \in {g, h}
        PROVE  /\ Around(s) \in SUBSET Ticks /\ g \in Around(s) /\ h \in Around(s)
               /\ \A v \in Around(s) : v < s => \A w \in grid : w <= v \/ s <= w
               /\ \A v \in Around(s) : s < v => \A w \in grid : w <= s \/ v <= w
    <2>1. s \in grid /\ g < h
      BY <1>2, <1>5
    <2>2. ~\E v \in grid : g < v /\ v < h
      BY <1>2, <1>5
    <2>3. Around(s) \in SUBSET Ticks /\ g \in Around(s) /\ h \in Around(s)
      BY <1>2, <1>5, <2>1, <2>2 DEF Around, Covering
    <2>4. \A v \in Around(s) : v < s => \A w \in grid : w <= v \/ s <= w
      BY <1>2, <2>1 DEF Around
    <2>5. \A v \in Around(s) : s < v => \A w \in grid : w <= s \/ v <= w
      BY <1>2, <2>1 DEF Around
    <2> QED
      BY <2>3, <2>4, <2>5
  <1>8. ASSUME NEW s \in {g, h}
        PROVE  /\ Refinement(sense, s) = {u}
               /\ \A v, w \in Around(s) : v < w /\ w <= u => sense * world[v] < sense * world[w]
               /\ \A v, w \in Around(s) : u <= v /\ v < w => sense * world[w] < sense * world[v]
    <2> DEFINE a == Min(Around(s))
               b == Max(Around(s))
               inner == (a + 1)..(b - 1)
               turns == {v \in inner : (world[v] > world[v - 1]) # (world[v + 1] > world[v])}
    <2>1. a \in Around(s) /\ b \in Around(s) /\ \A v \in Around(s) : a <= v /\ v <= b
      BY <1>7, MinIs, MaxIs
    <2>2. Cardinality(turns) <= 1
      BY <1>5 DEF IsFine
    <2>3. s \in grid
      BY <1>5
    <2> HIDE DEF a, b
    <2>4. /\ a \in Ticks /\ b \in Ticks /\ a <= g /\ h <= b
      BY <1>7, <2>1
    <2>5. a \in Nat /\ b \in Nat /\ u \in inner /\ u \in a..b
      BY <1>2, <1>5, <2>4 DEF Ticks
    <2>6. IsFiniteSet(turns)
      <3>1. IsFiniteSet(inner)
        BY <2>5, FS_Interval
      <3> QED
        BY <3>1, FS_Subset
    <2>7. u \in turns
      BY <2>5 DEF Turn
    <2>8. \A v \in inner : Turn(v) => v = u
      <3> TAKE v \in inner
      <3> HAVE Turn(v)
      <3>1. v \in turns
        BY DEF Turn
      <3> HIDE DEF turns
      <3> QED
        BY <2>2, <2>6, <2>7, <3>1, OnlyOne
    <2>9. /\ \A v, w \in a..u : v < w => sense * world[v] < sense * world[w]
          /\ \A v, w \in u..b : v < w => sense * world[w] < sense * world[v]
          /\ \A t \in a..b : t # u => sense * world[t] < sense * world[u]
      BY <1>1, <1>6, <2>4, <2>5, <2>8, TopIs
    <2>10. \A v \in Around(s) : v \in Nat /\ a <= v /\ v <= b
      BY <1>7, <2>1 DEF Ticks
    <2>11. \A v, w \in Around(s) : v < w /\ w <= u => sense * world[v] < sense * world[w]
      <3> TAKE v \in Around(s), w \in Around(s)
      <3> HAVE v < w /\ w <= u
      <3>1. v \in a..u /\ w \in a..u
        BY <1>2, <2>5, <2>10
      <3> QED
        BY <2>9, <3>1
    <2>12. \A v, w \in Around(s) : u <= v /\ v < w => sense * world[w] < sense * world[v]
      <3> TAKE v \in Around(s), w \in Around(s)
      <3> HAVE u <= v /\ v < w
      <3>1. v \in u..b /\ w \in u..b
        BY <1>2, <2>5, <2>10
      <3> QED
        BY <2>9, <3>1
    <2> DEFINE Best(x) == \A v \in a..b : sense * world[v] <= sense * world[x]
    <2>13. \A v \in a..b : sense * world[v] \in Int
      <3>1. \A v \in a..b : v \in Ticks
        BY <2>4, <2>5, EventsAssumption DEF Ticks
      <3> QED
        BY <1>1, <1>6, <3>1
    <2>14. Best(u)
      <3> SUFFICES ASSUME NEW v \in a..b PROVE sense * world[v] <= sense * world[u]
        OBVIOUS
      <3>1. sense * world[v] \in Int /\ sense * world[u] \in Int
        BY <2>5, <2>13
      <3>2. v # u => sense * world[v] < sense * world[u]
        BY <2>9
      <3> QED
        BY <3>1, <3>2
    <2>15. \A x \in a..b : Best(x) => x = u
      <3> SUFFICES ASSUME NEW x \in a..b, Best(x), x # u PROVE FALSE
        OBVIOUS
      <3>1. sense * world[x] \in Int /\ sense * world[u] \in Int
        BY <2>5, <2>13
      <3>2. sense * world[x] < sense * world[u]
        BY <2>9
      <3>3. sense * world[u] <= sense * world[x]
        BY <2>5
      <3> QED
        BY <3>1, <3>2, <3>3
    <2>16. Refinement(sense, s) = {CHOOSE x \in a..b : Best(x)}
      BY DEF Refinement, a, b
    <2>17. (CHOOSE x \in a..b : Best(x)) = u
      <3> HIDE DEF Best
      <3> QED
        BY <2>5, <2>14, <2>15
    <2> HIDE DEF Best
    <2> QED
      BY <2>11, <2>12, <2>16, <2>17
  <1>9. \A t \in {g, h} : sense * world[t] \in Int
    BY <1>1, <1>2, <1>5, <1>6
  <1>10. \A s \in {g, h} : \A v \in Around(s) : v \in Nat /\ v \in Ticks /\ sense * world[v] \in Int
    BY <1>1, <1>6, <1>7, EventsAssumption DEF Ticks
  <1>11. g \in Nat /\ h \in Nat
    BY <1>2, <1>5
  <1>12. ASSUME sense * world[h] <= sense * world[g] PROVE IsExtremum(sense, g)
    <2> SUFFICES ASSUME NEW v \in Around(g) \ {g}
                 PROVE  IF v < g THEN sense * world[v] < sense * world[g] ELSE sense * world[v] <= sense * world[g]
      BY DEF IsExtremum
    <2>1. g \in {g, h} /\ v \in Nat /\ g \in Around(g)
      BY <1>7, <1>10
    <2>2. CASE v < g
      <3>1. g <= u
        BY <1>2, <1>5, <1>11
      <3>2. sense * world[v] < sense * world[g]
        BY <1>8, <2>1, <2>2, <3>1
      <3> QED
        BY <2>2, <3>2
    <2>3. CASE ~(v < g)
      <3>1. g < v
        BY <1>11, <2>1, <2>3
      <3>2. h <= g \/ v <= h
        BY <1>5, <1>7, <2>1, <3>1
      <3>3. v \in grid
        BY <1>5 DEF Around
      <3>4. v <= g \/ h <= v
        BY <1>5, <3>3
      <3>5. v = h
        BY <1>2, <1>5, <1>11, <2>1, <3>1, <3>2, <3>4
      <3> QED
        BY <1>12, <2>3, <3>5
    <2> QED
      BY <2>2, <2>3
  <1>13. ASSUME ~(sense * world[h] <= sense * world[g]) PROVE IsExtremum(sense, h)
    <2> SUFFICES ASSUME NEW v \in Around(h) \ {h}
                 PROVE  IF v < h THEN sense * world[v] < sense * world[h] ELSE sense * world[v] <= sense * world[h]
      BY DEF IsExtremum
    <2>1. h \in {g, h} /\ v \in Nat /\ h \in Around(h) /\ sense * world[v] \in Int /\ sense * world[h] \in Int
      BY <1>7, <1>10
    <2>2. CASE v < h
      <3>1. g <= v \/ h <= g
        BY <1>5, <1>7, <2>1, <2>2
      <3>2. v \in grid
        BY <1>5 DEF Around
      <3>3. v <= g \/ h <= v
        BY <1>5, <3>2
      <3>4. v = g
        BY <1>2, <1>5, <1>11, <2>1, <2>2, <3>1, <3>3
      <3>5. sense * world[g] < sense * world[h]
        BY <1>9, <1>13
      <3> QED
        BY <2>2, <3>4, <3>5
    <2>3. CASE ~(v < h)
      <3>1. h < v /\ u <= h
        BY <1>2, <1>5, <1>11, <2>1, <2>3
      <3>2. sense * world[v] < sense * world[h]
        BY <1>8, <2>1, <3>1
      <3> QED
        BY <2>1, <2>3, <3>2
    <2> QED
      BY <2>2, <2>3
  <1>14. PICK s \in {g, h} : IsExtremum(sense, s)
    BY <1>12, <1>13
  <1>15. s \in grid /\ u \in Refinement(sense, s)
    BY <1>5, <1>8
  <1> QED
    BY <1>6, <1>14, <1>15 DEF Extrema

----------------------------------------------------------------------------
(* What the search finds.                                                  *)

\* Every turn is a breakpoint.
Parted == Moving /\ \A u \in 1..(Window - 1) : Turn(u) => u \in times

\* On a fine grid, from the sampling on.
Turned == phase \in {"bisect", "bracket", "solve"} /\ IsFine => Parted

\* A root is a zero, or the later of two ticks between which the sign changes as over the crossing.
Found(c, bracket) ==
  \/ ~bracket.active /\ world[bracket.root] = 0
  \/ /\ bracket.root = bracket.hi /\ world[bracket.lo] # 0 /\ world[bracket.hi] # 0
     /\ Visible(bracket.lo) = Visible(c[1]) /\ Visible(bracket.hi) = Visible(c[2])
     /\ ~bracket.active => bracket.hi - bracket.lo <= 1

Rooted == phase = "solve" => \A c \in Crossings : Found(c, brackets[c])

PInv == SInv /\ Turned /\ Rooted /\ PassesExact

\* Sampling leaves no turn between breakpoints.
LEMMA SampleParts ==
  ASSUME SInv, Sample, IsFine
  PROVE  Parted'
  <1>1. world \in Worlds /\ Covering(grid) /\ world' = world /\ times' = grid \union Extrema
    BY DEF SInv, Searched, Sample
  <1>2. Moving
    BY DEF IsFine, Moving
  <1>3. \A u \in 1..(Window - 1) : Turn(u) => u \in grid \/ u \in Extrema
    BY <1>1, TurnFound
  <1> QED
    BY <1>1, <1>2, <1>3 DEF Parted, Moving, Turn

\* A trial finds the root, or the sign that changes.
LEMMA NarrowedFinds ==
  ASSUME world \in Worlds, NEW c, Visible(c[1]) # Visible(c[2]),
         NEW bracket, Bracketed(c, bracket), bracket.active, Found(c, bracket),
         NEW trial \in Ticks
  PROVE  Found(c, Narrowed(bracket, trial))
  <1> DEFINE same == (world[trial] > 0) = (world[bracket.hi] > 0)
             lower == IF same THEN bracket.lo ELSE trial
             upper == IF same THEN trial ELSE bracket.hi
             stopped == [bracket EXCEPT !.root = trial, !.active = FALSE]
             next == [lo |-> lower, hi |-> upper, root |-> upper, active |-> upper - lower > 1]
  <1>1. bracket \in [lo : Ticks, hi : Ticks, root : Ticks, active : BOOLEAN]
    BY DEF Bracketed
  <1>2. /\ world[bracket.lo] # 0 /\ world[bracket.hi] # 0
        /\ Visible(bracket.lo) = Visible(c[1]) /\ Visible(bracket.hi) = Visible(c[2])
    BY DEF Found
  <1>3. bracket.lo \in Ticks /\ bracket.hi \in Ticks /\ \A t \in Ticks : t \in Int /\ world[t] \in Int
    BY <1>1, EventsAssumption DEF Ticks
  <1>4. CASE world[trial] = 0
    <2>1. Narrowed(bracket, trial) = stopped
      BY <1>4 DEF Narrowed
    <2>2. stopped.root = trial /\ stopped.active = FALSE
      BY <1>1
    <2> HIDE DEF stopped
    <2> QED
      BY <1>4, <2>1, <2>2 DEF Found
  <1>5. CASE world[trial] # 0
    <2>1. Narrowed(bracket, trial) = next
      BY <1>5 DEF Narrowed
    <2>2. \A t \in Ticks : world[t] # 0 => (Visible(t) <=> world[t] > 0)
      BY <1>3 DEF Visible
    <2>3. same <=> (Visible(trial) <=> Visible(c[2]))
      BY <1>2, <1>3, <1>5, <2>2
    <2>4. Visible(trial) \in BOOLEAN /\ Visible(c[1]) \in BOOLEAN /\ Visible(c[2]) \in BOOLEAN
      BY DEF Visible
    <2> HIDE DEF same
    <2>5. /\ world[lower] # 0 /\ world[upper] # 0
          /\ Visible(lower) = Visible(c[1]) /\ Visible(upper) = Visible(c[2])
      <3>1. CASE same
        BY <1>2, <1>5, <2>3, <2>4, <3>1
      <3>2. CASE ~same
        BY <1>2, <1>5, <2>3, <2>4, <3>2
      <3> QED
        BY <3>1, <3>2
    <2>6. lower \in Ticks /\ upper \in Ticks
      BY <1>3
    <2> HIDE DEF lower, upper
    <2>7. ~next.active => upper - lower <= 1
      <3>1. next.active = (upper - lower > 1)
        BY Zenon
      <3>2. lower \in Int /\ upper \in Int
        BY <1>3, <2>6
      <3>3. ~(upper - lower > 1) => upper - lower <= 1
        BY <3>2
      <3> HIDE DEF next
      <3> QED
        BY <3>1, <3>3
    <2>8. next.lo = lower /\ next.hi = upper /\ next.root = upper
      OBVIOUS
    <2> HIDE DEF next
    <2> QED
      BY <2>1, <2>5, <2>7, <2>8 DEF Found
  <1> QED
    BY <1>4, <1>5

\* The elevation between two breakpoints, none of which is a turn.
LEMMA PieceIs ==
  ASSUME world \in Worlds, Covering(times), Parted, NEW i \in Intervals(times)
  PROVE  /\ i[1] \in times /\ i[2] \in times /\ i[1] < i[2] /\ i[1] \in Ticks /\ i[2] \in Ticks
         /\ \/ \A s, t \in i[1]..i[2] : s < t => world[s] < world[t]
            \/ \A s, t \in i[1]..i[2] : s < t => world[t] < world[s]
  <1>1. /\ i[1] \in times /\ i[2] \in times /\ i[1] < i[2] /\ i[1] \in Ticks /\ i[2] \in Ticks
        /\ \A t \in times : i[1] < t => i[2] <= t
    BY IntervalIs DEF Covering
  <1>2. i[1] \in Nat /\ i[2] \in Nat /\ i[2] <= Window /\ Window \in Nat
    BY <1>1, EventsAssumption DEF Ticks
  <1>3. \A u \in (i[1] + 1)..(i[2] - 1) : ~Turn(u)
    <2> TAKE u \in (i[1] + 1)..(i[2] - 1)
    <2>1. u \in 1..(Window - 1) /\ i[1] < u /\ ~(i[2] <= u)
      BY <1>2
    <2> QED
      BY <1>1, <2>1 DEF Parted
  <1>4. \/ \A s, t \in i[1]..i[2] : s < t => world[s] < world[t]
        \/ \A s, t \in i[1]..i[2] : s < t => world[t] < world[s]
    BY <1>1, <1>3, SteadyIs DEF Parted
  <1> QED
    BY <1>1, <1>4

\* A root parts what is visible in its crossing from what is not.
LEMMA RootParts ==
  ASSUME world \in Worlds, Covering(times), Parted, NEW c \in Crossings, NEW bracket,
         Bracketed(c, bracket), Found(c, bracket), ~bracket.active
  PROVE  /\ Visible(c[1]) => /\ \A t \in c[1]..c[2] : t < bracket.root => Visible(t)
                             /\ \A t \in c[1]..c[2] : bracket.root < t => ~Visible(t)
                             /\ Visible(bracket.root) => world[bracket.root] = 0
         /\ ~Visible(c[1]) => \A t \in c[1]..c[2] : Visible(t) <=> bracket.root <= t
  <1> DEFINE r == bracket.root
             lo == bracket.lo
             hi == bracket.hi
             piece == c[1]..c[2]
  <1>1. /\ c \in Intervals(times) /\ Visible(c[1]) # Visible(c[2])
    BY DEF Crossings
  <1>2. /\ c[1] < c[2] /\ c[1] \in Ticks /\ c[2] \in Ticks
        /\ \/ \A s, t \in piece : s < t => world[s] < world[t]
           \/ \A s, t \in piece : s < t => world[t] < world[s]
    BY <1>1, PieceIs
  <1>3. /\ r \in Ticks /\ lo \in Ticks /\ hi \in Ticks
        /\ c[1] <= lo /\ lo < hi /\ hi <= c[2] /\ c[1] <= r /\ r <= c[2]
    BY DEF Bracketed
  <1>4. \/ world[r] = 0
        \/ /\ r = hi /\ world[lo] # 0 /\ world[hi] # 0
           /\ Visible(lo) = Visible(c[1]) /\ Visible(hi) = Visible(c[2])
           /\ hi - lo <= 1
    BY DEF Found
  <1> HIDE DEF r, lo, hi
  <1>5. /\ r \in piece /\ lo \in piece /\ hi \in piece /\ c[1] \in piece /\ c[2] \in piece
        /\ \A t \in piece : t \in Ticks
    <2>1. Window \in Nat /\ \A t \in Ticks : t \in Nat /\ t <= Window
      BY EventsAssumption DEF Ticks
    <2>2. /\ r \in Nat /\ lo \in Nat /\ hi \in Nat /\ c[1] \in Nat /\ c[2] \in Nat /\ c[2] <= Window
      BY <1>2, <1>3, <2>1
    <2>3. \A t \in piece : t \in Ticks
      BY <2>1, <2>2 DEF Ticks
    <2> QED
      BY <1>2, <1>3, <2>2, <2>3
  <1>6. \A t \in piece : t \in Int /\ world[t] \in Int
    BY <1>5, EventsAssumption DEF Ticks
  <1>7. \A t \in piece : Visible(t) <=> world[t] >= 0
    BY DEF Visible
  <1> HIDE DEF piece
  <1>8. ASSUME Visible(c[1])
        PROVE  /\ \A t \in piece : t < r => Visible(t)
               /\ \A t \in piece : r < t => ~Visible(t)
               /\ Visible(r) => world[r] = 0
    <2>1. ~Visible(c[2])
      BY <1>1, <1>8
    <2>2. world[c[2]] < world[c[1]]
      BY <1>5, <1>6, <1>7, <1>8, <2>1
    <2>3. ~(world[c[1]] < world[c[2]])
      BY <1>5, <1>6, <2>2
    <2>4. \A s, t \in piece : s < t => world[t] < world[s]
      BY <1>2, <1>5, <2>3
    <2>5. CASE world[r] = 0
      BY <1>5, <1>6, <1>7, <2>4, <2>5
    <2>6. CASE world[r] # 0
      <3>1. r = hi /\ Visible(lo) /\ ~Visible(hi) /\ hi - lo <= 1
        BY <1>4, <1>8, <2>1, <2>6
      <3>2. world[lo] >= 0 /\ ~(world[hi] >= 0)
        BY <1>5, <1>7, <3>1
      <3>3. ASSUME NEW t \in piece, t < r PROVE Visible(t)
        <4>1. t \in Int /\ lo \in Int /\ hi \in Int
          BY <1>5, <1>6
        <4>2. t = lo \/ t < lo
          BY <3>1, <3>3, <4>1
        <4>3. t < lo => world[lo] < world[t]
          BY <1>5, <2>4
        <4>4. world[t] \in Int /\ world[lo] \in Int
          BY <1>5, <1>6
        <4>5. world[t] >= 0
          BY <3>2, <4>2, <4>3, <4>4
        <4> QED
          BY <1>7, <4>5
      <3>4. ASSUME NEW t \in piece, r < t PROVE ~Visible(t)
        <4>1. world[t] < world[r]
          BY <1>5, <2>4, <3>4
        <4>2. world[t] \in Int /\ world[r] \in Int /\ world[hi] = world[r]
          BY <1>5, <1>6, <3>1
        <4>3. ~(world[t] >= 0)
          BY <3>2, <4>1, <4>2
        <4> QED
          BY <1>7, <4>3
      <3> QED
        BY <3>1, <3>3, <3>4
    <2> QED
      BY <2>5, <2>6
  <1>9. ASSUME ~Visible(c[1])
        PROVE  \A t \in piece : Visible(t) <=> r <= t
    <2>1. Visible(c[2])
      BY <1>1, <1>9 DEF Visible
    <2>2. world[c[1]] < world[c[2]]
      BY <1>5, <1>6, <1>7, <1>9, <2>1
    <2>3. ~(world[c[2]] < world[c[1]])
      BY <1>5, <1>6, <2>2
    <2>4. \A s, t \in piece : s < t => world[s] < world[t]
      BY <1>2, <1>5, <2>3
    <2>5. CASE world[r] = 0
      BY <1>5, <1>6, <1>7, <2>4, <2>5
    <2>6. CASE world[r] # 0
      <3>1. r = hi /\ ~Visible(lo) /\ Visible(hi) /\ hi - lo <= 1
        BY <1>4, <1>9, <2>1, <2>6
      <3>2. ~(world[lo] >= 0) /\ world[hi] >= 0
        BY <1>5, <1>7, <3>1
      <3>3. ASSUME NEW t \in piece, t < r PROVE ~Visible(t)
        <4>1. t \in Int /\ lo \in Int /\ hi \in Int
          BY <1>5, <1>6
        <4>2. t = lo \/ t < lo
          BY <3>1, <3>3, <4>1
        <4>3. t < lo => world[t] < world[lo]
          BY <1>5, <2>4
        <4>4. world[t] \in Int /\ world[lo] \in Int
          BY <1>5, <1>6
        <4>5. ~(world[t] >= 0)
          BY <3>2, <4>2, <4>3, <4>4
        <4> QED
          BY <1>7, <4>5
      <3>4. ASSUME NEW t \in piece, r <= t PROVE Visible(t)
        <4>1. r < t => world[r] < world[t]
          BY <1>5, <2>4
        <4>2. /\ world[t] \in Int /\ world[r] \in Int /\ world[hi] = world[r]
              /\ r \in Int /\ t \in Int
          BY <1>5, <1>6, <3>1
        <4>3. world[t] >= 0
          BY <3>2, <3>4, <4>1, <4>2
        <4> QED
          BY <1>7, <4>3
      <3>5. \A t \in piece : t < r \/ r <= t
        BY <1>5, <1>6
      <3> QED
        BY <3>3, <3>4, <3>5
    <2> QED
      BY <2>5, <2>6
  <1> QED
    BY <1>8, <1>9 DEF piece, r

\* A visible tick of a set lies in one of its runs.
LEMMA RunThrough ==
  ASSUME NEW set, Covering(set), NEW t \in set, Visible(t)
  PROVE  \E run \in Runs(set) : run[1] <= t /\ t <= run[2]
  <1> DEFINE down == {u \in set : u <= t /\ \A v \in set : u <= v /\ v <= t => Visible(v)}
             up == {u \in set : t <= u /\ \A v \in set : t <= v /\ v <= u => Visible(v)}
             a == Min(down)
             b == Max(up)
  <1>1. set \in SUBSET Ticks /\ \A v \in set : v \in Nat
    BY EventsAssumption DEF Covering, Ticks
  <1>2. t \in down /\ t \in up
    <2>1. \A v \in set : (t <= v /\ v <= t) => v = t
      BY <1>1
    <2>2. t <= t
      BY <1>1
    <2> QED
      BY <2>1, <2>2
  <1>3. a \in down /\ b \in up /\ (\A u \in down : a <= u) /\ (\A u \in up : u <= b)
    <2>1. down \in SUBSET Ticks /\ up \in SUBSET Ticks /\ down # {} /\ up # {}
      BY <1>1, <1>2
    <2> HIDE DEF down, up
    <2> QED
      BY <2>1, MinIs, MaxIs
  <1> HIDE DEF a, b
  <1>4. /\ a \in set /\ a <= t /\ \A v \in set : a <= v /\ v <= t => Visible(v)
        /\ b \in set /\ t <= b /\ \A v \in set : t <= v /\ v <= b => Visible(v)
    BY <1>3
  <1>5. a <= b /\ \A v \in set : a <= v /\ v <= b => Visible(v)
    BY <1>1, <1>4
  <1>6. a = Min(set) \/ ~Visible(Before(set, a))
    <2> DEFINE w == Before(set, a)
    <2>1. SUFFICES ASSUME a # Min(set), Visible(w) PROVE FALSE
      OBVIOUS
    <2>2. Min(set) \in set /\ Min(set) <= a
      BY <1>1, <1>4, MinIs
    <2>3. \E u \in set : u < a
      BY <1>1, <1>4, <2>1, <2>2
    <2>4. w \in set /\ w < a /\ \A u \in set : u < a => u <= w
      BY <1>1, <1>4, <2>3, NextTo
    <2> HIDE DEF w
    <2>5. \A v \in set : w <= v /\ v <= t => Visible(v)
      <3> TAKE v \in set
      <3> HAVE w <= v /\ v <= t
      <3>1. v = w \/ a <= v
        BY <1>1, <1>4, <2>4
      <3> QED
        BY <1>4, <2>1, <3>1
    <2>6. w <= t
      BY <1>1, <1>4, <2>4
    <2>7. w \in down
      BY <2>4, <2>5, <2>6
    <2> HIDE DEF down
    <2> QED
      BY <1>1, <1>3, <1>4, <2>4, <2>7
  <1>7. b = Max(set) \/ ~Visible(After(set, b))
    <2> DEFINE w == After(set, b)
    <2>1. SUFFICES ASSUME b # Max(set), Visible(w) PROVE FALSE
      OBVIOUS
    <2>2. Max(set) \in set /\ b <= Max(set)
      BY <1>1, <1>4, MaxIs
    <2>3. \E u \in set : u > b
      BY <1>1, <1>4, <2>1, <2>2
    <2>4. w \in set /\ b < w /\ \A u \in set : b < u => w <= u
      BY <1>1, <1>4, <2>3, NextTo
    <2> HIDE DEF w
    <2>5. \A v \in set : t <= v /\ v <= w => Visible(v)
      <3> TAKE v \in set
      <3> HAVE t <= v /\ v <= w
      <3>1. v = w \/ v <= b
        BY <1>1, <1>4, <2>4
      <3> QED
        BY <1>4, <2>1, <3>1
    <2>6. t <= w
      BY <1>1, <1>4, <2>4
    <2>7. w \in up
      BY <2>4, <2>5, <2>6
    <2> HIDE DEF up
    <2> QED
      BY <1>1, <1>3, <1>4, <2>4, <2>7
  <1> DEFINE run == <<a, b>>
  <1>8. run \in set \X set /\ run[1] = a /\ run[2] = b
    BY <1>4
  <1> HIDE DEF run
  <1>9. run \in Runs(set)
    BY <1>5, <1>6, <1>7, <1>8 DEF Runs
  <1> QED
    BY <1>4, <1>8, <1>9

\* Where a pass of find_passes starts and ends.
First(run) == IF run[1] = 0 THEN 0 ELSE RootAt(Before(times, run[1]), run[1])
Last(run) == IF run[2] = Window THEN Window ELSE RootAt(run[2], After(times, run[2]))

\* Every root is found.
Solved == \A c \in Crossings : Bracketed(c, brackets[c]) /\ Found(c, brackets[c]) /\ ~brackets[c].active

\* A tick between two breakpoints lies in a piece.
LEMMA PieceOf ==
  ASSUME Covering(times), NEW t \in Ticks, t \notin times
  PROVE  \E i \in Intervals(times) : i[1] < t /\ t < i[2]
  <1> DEFINE before == {u \in times : u < t}
             a == Max(before)
             i == <<a, After(times, a)>>
  <1>1. Window \in Nat /\ t \in Nat /\ t <= Window /\ \A u \in times : u \in Nat /\ u \in Ticks /\ u # t
    BY EventsAssumption DEF Covering, Ticks
  <1>2. 0 < t /\ t < Window
    BY <1>1 DEF Covering
  <1>3. before \in SUBSET Ticks /\ before # {}
    BY <1>1, <1>2 DEF Covering
  <1>4. a \in before /\ \A u \in before : u <= a
    <2> HIDE DEF before
    <2> QED
      BY <1>3, MaxIs
  <1> HIDE DEF a
  <1>5. a \in times /\ a < t /\ a # Window /\ \A u \in times : u < t => u <= a
    BY <1>1, <1>2, <1>4
  <1>6. i \in Intervals(times) /\ i[1] = a /\ i[2] = After(times, a)
    BY <1>5, IntervalFrom DEF Covering
  <1> HIDE DEF i
  <1>7. i[2] \in times /\ i[1] < i[2]
    BY <1>6, IntervalIs DEF Covering
  <1>8. ~(i[2] < t)
    BY <1>1, <1>5, <1>6, <1>7
  <1>9. t < i[2]
    BY <1>1, <1>7, <1>8
  <1> QED
    BY <1>5, <1>6, <1>9

\* What is visible about a run is from its first root to its last.
LEMMA RunSeen ==
  ASSUME world \in Worlds, Covering(times), Parted, Solved, NEW r \in Runs(times)
  PROVE  /\ First(r) <= r[1] /\ r[2] <= Last(r) /\ First(r) \in Ticks /\ Last(r) \in Ticks
         /\ \A t \in Ticks : r[1] <= t /\ t <= r[2] => Visible(t)
         /\ r[1] = 0 => First(r) = 0
         /\ r[1] # 0 => \A t \in Before(times, r[1])..r[1] : Visible(t) <=> First(r) <= t
         /\ r[1] # 0 => Before(times, r[1]) <= First(r)
         /\ r[2] = Window => Last(r) = Window
         /\ r[2] # Window => /\ \A t \in r[2]..After(times, r[2]) : t < Last(r) => Visible(t)
                             /\ \A t \in r[2]..After(times, r[2]) : Last(r) < t => ~Visible(t)
                             /\ Visible(Last(r)) => world[Last(r)] = 0
                             /\ Last(r) <= After(times, r[2])
  <1>1. Window \in Nat /\ 0 \in Ticks /\ Window \in Ticks /\ \A t \in Ticks : t \in Nat /\ t <= Window
    BY EventsAssumption DEF Ticks
  <1>2. /\ r[1] \in times /\ r[2] \in times /\ r[1] <= r[2]
        /\ \A t \in times : r[1] <= t /\ t <= r[2] => Visible(t)
        /\ r[1] # 0 => ~Visible(Before(times, r[1])) /\ <<Before(times, r[1]), r[1]>> \in Intervals(times)
        /\ r[2] # Window => ~Visible(After(times, r[2])) /\ <<r[2], After(times, r[2])>> \in Intervals(times)
    BY RunIs
  <1>3. r[1] \in Nat /\ r[2] \in Nat /\ r[1] \in Ticks /\ r[2] \in Ticks /\ r[1] <= Window /\ r[2] <= Window
    BY <1>1, <1>2 DEF Covering
  <1>4. r[1] <= r[1] /\ r[2] <= r[2]
    BY <1>3
  <1>5. Visible(r[1]) /\ Visible(r[2])
    BY <1>2, <1>4
  <1>6. ASSUME r[1] # 0
        PROVE  /\ First(r) \in Ticks /\ First(r) <= r[1] /\ Before(times, r[1]) <= First(r)
               /\ \A t \in Before(times, r[1])..r[1] : Visible(t) <=> First(r) <= t
    <2> DEFINE c == <<Before(times, r[1]), r[1]>>
    <2>1. c \in Crossings /\ ~Visible(c[1])
      BY <1>2, <1>5, <1>6 DEF Crossings
    <2>2. c[1] = Before(times, r[1]) /\ c[2] = r[1] /\ First(r) = brackets[c].root
      BY <1>6 DEF First, RootAt
    <2> HIDE DEF c
    <2>3. \A t \in c[1]..c[2] : Visible(t) <=> brackets[c].root <= t
      BY <2>1, RootParts DEF Solved
    <2>4. brackets[c].root \in Ticks /\ c[1] <= brackets[c].root /\ brackets[c].root <= c[2]
      BY <2>1 DEF Solved, Bracketed
    <2> QED
      BY <2>2, <2>3, <2>4
  <1>7. ASSUME r[2] # Window
        PROVE  /\ Last(r) \in Ticks /\ r[2] <= Last(r) /\ Last(r) <= After(times, r[2])
               /\ \A t \in r[2]..After(times, r[2]) : t < Last(r) => Visible(t)
               /\ \A t \in r[2]..After(times, r[2]) : Last(r) < t => ~Visible(t)
               /\ Visible(Last(r)) => world[Last(r)] = 0
    <2> DEFINE c == <<r[2], After(times, r[2])>>
    <2>1. c \in Crossings /\ Visible(c[1])
      BY <1>2, <1>5, <1>7 DEF Crossings
    <2>2. c[1] = r[2] /\ c[2] = After(times, r[2]) /\ Last(r) = brackets[c].root
      BY <1>7 DEF Last, RootAt
    <2> HIDE DEF c
    <2>3. /\ \A t \in c[1]..c[2] : t < brackets[c].root => Visible(t)
          /\ \A t \in c[1]..c[2] : brackets[c].root < t => ~Visible(t)
          /\ Visible(brackets[c].root) => world[brackets[c].root] = 0
      BY <2>1, RootParts DEF Solved
    <2>4. brackets[c].root \in Ticks /\ c[1] <= brackets[c].root /\ brackets[c].root <= c[2]
      BY <2>1 DEF Solved, Bracketed
    <2> QED
      BY <2>2, <2>3, <2>4
  <1>8. r[1] = 0 => First(r) = 0
    BY DEF First
  <1>9. r[2] = Window => Last(r) = Window
    BY DEF Last
  <1>10. First(r) \in Ticks /\ First(r) <= r[1] /\ Last(r) \in Ticks /\ r[2] <= Last(r)
    BY <1>1, <1>3, <1>4, <1>6, <1>7, <1>8, <1>9
  <1>11. ASSUME NEW t \in Ticks, r[1] <= t, t <= r[2] PROVE Visible(t)
    <2>1. CASE t \in times
      BY <1>2, <1>11, <2>1
    <2>2. CASE t \notin times
      <3>1. PICK i \in Intervals(times) : i[1] < t /\ t < i[2]
        BY <2>2, PieceOf
      <3>2. /\ i[1] \in times /\ i[2] \in times /\ i[1] \in Ticks /\ i[2] \in Ticks
            /\ \/ \A s, u \in i[1]..i[2] : s < u => world[s] < world[u]
               \/ \A s, u \in i[1]..i[2] : s < u => world[u] < world[s]
        BY PieceIs
      <3>3. \A u \in times : i[1] < u => i[2] <= u
        BY IntervalIs DEF Covering
      <3>4. i[1] \in Nat /\ i[2] \in Nat /\ t \in Nat
        BY <1>1, <3>2
      <3>5. r[1] <= i[1] /\ i[2] <= r[2] /\ i[1] <= r[2] /\ r[1] <= i[2]
        BY <1>2, <1>3, <1>11, <3>1, <3>3, <3>4
      <3>6. Visible(i[1]) /\ Visible(i[2])
        BY <1>2, <3>2, <3>5
      <3>7. t \in i[1]..i[2] /\ i[1] \in i[1]..i[2] /\ i[2] \in i[1]..i[2]
        BY <3>1, <3>4
      <3>8. world[t] \in Int /\ world[i[1]] \in Int /\ world[i[2]] \in Int
        BY <3>2, EventsAssumption
      <3>9. world[i[1]] < world[t] \/ world[i[2]] < world[t]
        BY <3>1, <3>2, <3>7
      <3> QED
        BY <3>6, <3>8, <3>9 DEF Visible
    <2> QED
      BY <2>1, <2>2
  <1> QED
    BY <1>6, <1>7, <1>8, <1>9, <1>10, <1>11

\* A tick is visible if and only if a pass says so.
LEMMA SeenIsFound ==
  ASSUME world \in Worlds, Covering(times), Parted, Solved, NEW t \in Ticks
  PROVE  Visible(t) <=> \/ \E r \in Runs(times) : First(r) <= t /\ t < Last(r)
                        \/ \E r \in Runs(times) : t = Last(r) /\ (world[t] = 0 \/ r[2] = Max(times))
  <1>1. Window \in Nat /\ 0 \in Ticks /\ Window \in Ticks /\ \A u \in Ticks : u \in Nat /\ u <= Window
    BY EventsAssumption DEF Ticks
  <1>2. Max(times) = Window
    <2>1. Max(times) \in times /\ Window <= Max(times)
      BY MaxIs DEF Covering
    <2>2. Max(times) \in Ticks
      BY <2>1 DEF Covering
    <2>3. Max(times) \in Nat /\ Max(times) <= Window
      BY <1>1, <2>2
    <2> QED
      BY <1>1, <2>1, <2>3
  <1>3. \A u \in Ticks : world[u] \in Int
    BY EventsAssumption
  <1>4. ASSUME NEW r \in Runs(times)
        PROVE  /\ r[1] \in times /\ r[2] \in times /\ r[1] <= r[2] /\ r[1] \in Nat /\ r[2] \in Nat
               /\ \A u \in times : r[1] <= u /\ u <= r[2] => Visible(u)
               /\ r[1] # 0 =>
                    /\ Before(times, r[1]) \in times /\ Before(times, r[1]) < r[1] /\ Before(times, r[1]) \in Nat
                    /\ \A u \in times : u < r[1] => u <= Before(times, r[1])
               /\ r[2] # Window =>
                    /\ After(times, r[2]) \in times /\ r[2] < After(times, r[2]) /\ After(times, r[2]) \in Nat
                    /\ \A u \in times : r[2] < u => After(times, r[2]) <= u
               /\ First(r) <= r[1] /\ r[2] <= Last(r) /\ First(r) \in Nat /\ Last(r) \in Nat
    <2>1. /\ r[1] \in times /\ r[2] \in times /\ r[1] <= r[2]
          /\ \A u \in times : r[1] <= u /\ u <= r[2] => Visible(u)
          /\ r[1] # 0 =>
               /\ Before(times, r[1]) \in times /\ Before(times, r[1]) < r[1]
               /\ \A u \in times : u < r[1] => u <= Before(times, r[1])
          /\ r[2] # Window =>
               /\ After(times, r[2]) \in times /\ r[2] < After(times, r[2])
               /\ \A u \in times : r[2] < u => After(times, r[2]) <= u
      BY RunIs
    <2>2. First(r) <= r[1] /\ r[2] <= Last(r) /\ First(r) \in Ticks /\ Last(r) \in Ticks
      BY RunSeen
    <2>3. \A u \in times : u \in Nat
      BY <1>1 DEF Covering
    <2> QED
      BY <1>1, <2>1, <2>2, <2>3
  <1>5. t \in Nat /\ t <= Window
    BY <1>1
  <1>6. ASSUME NEW r \in Runs(times), First(r) <= t, t < Last(r) PROVE Visible(t)
    <2>1. CASE t < r[1]
      <3>1. r[1] # 0 /\ Before(times, r[1]) <= First(r) /\ Before(times, r[1]) \in Nat
        BY <1>4, <1>5, <2>1, RunSeen
      <3>2. t \in Before(times, r[1])..r[1]
        BY <1>4, <1>5, <1>6, <2>1, <3>1
      <3> QED
        BY <1>6, <3>1, <3>2, RunSeen
    <2>2. CASE r[1] <= t /\ t <= r[2]
      BY <2>2, RunSeen
    <2>3. CASE r[2] < t
      <3>1. r[2] = Window => Last(r) = Window
        BY RunSeen
      <3>2. r[2] # Window
        BY <1>4, <1>5, <2>3
      <3>3. Last(r) <= After(times, r[2]) /\ After(times, r[2]) \in Nat
        BY <1>4, <3>2, RunSeen
      <3>4. t \in r[2]..After(times, r[2])
        BY <1>4, <1>5, <1>6, <2>3, <3>3
      <3> QED
        BY <1>6, <3>2, <3>4, RunSeen
    <2> QED
      BY <1>4, <1>5, <2>1, <2>2, <2>3
  <1>7. ASSUME NEW r \in Runs(times), t = Last(r), world[t] = 0 \/ r[2] = Max(times) PROVE Visible(t)
    <2>1. CASE world[t] = 0
      BY <2>1 DEF Visible
    <2>2. CASE r[2] = Max(times)
      <3>1. Last(r) = r[2]
        BY <1>2, <2>2, RunSeen
      <3>2. r[1] <= t /\ t <= r[2]
        BY <1>4, <1>7, <3>1
      <3> QED
        BY <3>2, RunSeen
    <2> QED
      BY <1>7, <2>1, <2>2
  <1>8. ASSUME Visible(t), NEW r \in Runs(times), NEW a \in times, r[1] <= a, a <= r[2], a <= t,
               \A u \in times : u <= t => u <= a
        PROVE  \/ First(r) <= t /\ t < Last(r)
               \/ t = Last(r) /\ (world[t] = 0 \/ r[2] = Max(times))
    <2>1. a \in Nat /\ First(r) <= t
      BY <1>1, <1>4, <1>5, <1>8 DEF Covering
    <2>2. CASE t < r[2]
      BY <1>4, <1>5, <2>1, <2>2
    <2>3. CASE ~(t < r[2])
      <3>1. r[2] = a
        BY <1>4, <1>5, <1>8, <2>1, <2>3
      <3>2. CASE r[2] = Window
        <4>1. Last(r) = Window
          BY <3>2, RunSeen
        <4>2. t = Window
          BY <1>1, <1>5, <2>3, <3>2
        <4> QED
          BY <1>2, <3>2, <4>1, <4>2
      <3>3. CASE r[2] # Window
        <4>1. /\ After(times, r[2]) \in times /\ r[2] < After(times, r[2]) /\ After(times, r[2]) \in Nat
          BY <1>4, <3>3
        <4>2. ~(After(times, r[2]) <= t)
          BY <1>4, <1>8, <3>1, <4>1
        <4>3. t \in r[2]..After(times, r[2])
          BY <1>4, <1>5, <2>3, <4>1, <4>2
        <4>4. ~(Last(r) < t) /\ (Visible(Last(r)) => world[Last(r)] = 0)
          BY <1>8, <3>3, <4>3, RunSeen
        <4>5. t < Last(r) \/ t = Last(r)
          BY <1>4, <1>5, <4>4
        <4> QED
          BY <1>8, <2>1, <4>4, <4>5
      <3> QED
        BY <3>2, <3>3
    <2> QED
      BY <2>2, <2>3
  <1>9. ASSUME Visible(t)
        PROVE  \E r \in Runs(times) : \/ First(r) <= t /\ t < Last(r)
                                      \/ t = Last(r) /\ (world[t] = 0 \/ r[2] = Max(times))
    <2>1. CASE t \in times
      <3>1. PICK r \in Runs(times) : r[1] <= t /\ t <= r[2]
        BY <1>9, <2>1, RunThrough
      <3>2. t <= t /\ \A u \in times : u <= t => u <= t
        BY <1>5
      <3> QED
        BY <1>8, <1>9, <2>1, <3>1, <3>2
    <2>2. CASE t \notin times
      <3>1. PICK i \in Intervals(times) : i[1] < t /\ t < i[2]
        BY <2>2, PieceOf
      <3>2. /\ i[1] \in times /\ i[2] \in times /\ i[1] \in Ticks /\ i[2] \in Ticks
            /\ \/ \A s, u \in i[1]..i[2] : s < u => world[s] < world[u]
               \/ \A s, u \in i[1]..i[2] : s < u => world[u] < world[s]
        BY PieceIs
      <3>3. \A u \in times : i[1] < u => i[2] <= u
        BY IntervalIs DEF Covering
      <3>4. i[1] \in Nat /\ i[2] \in Nat /\ \A u \in times : u \in Nat
        BY <1>1, <3>2 DEF Covering
      <3>5. i[1] <= t /\ \A u \in times : u <= t => u <= i[1]
        BY <1>5, <3>1, <3>3, <3>4
      <3>6. CASE Visible(i[1])
        <4>1. PICK r \in Runs(times) : r[1] <= i[1] /\ i[1] <= r[2]
          BY <3>2, <3>6, RunThrough
        <4> QED
          BY <1>8, <1>9, <3>2, <3>5, <4>1
      <3>7. CASE ~Visible(i[1])
        <4>1. t \in i[1]..i[2] /\ i[1] \in i[1]..i[2] /\ i[2] \in i[1]..i[2] /\ i[1] < i[2]
          BY <1>5, <3>1, <3>4
        <4>2. world[t] \in Int /\ world[i[1]] \in Int /\ world[i[2]] \in Int
          BY <1>3, <3>2
        <4>3. world[t] < world[i[1]] \/ world[t] < world[i[2]]
          BY <3>1, <3>2, <4>1
        <4>4. Visible(i[2])
          BY <1>9, <3>7, <4>2, <4>3 DEF Visible
        <4>5. PICK r \in Runs(times) : r[1] <= i[2] /\ i[2] <= r[2]
          BY <3>2, <4>4, RunThrough
        <4>6. ~(r[1] <= i[1])
          BY <1>4, <3>2, <3>4, <3>7, <4>1, <4>5
        <4>7. r[1] = i[2]
          BY <1>4, <3>3, <3>4, <4>5, <4>6
        <4>8. r[1] # 0
          BY <3>1, <3>4, <4>1, <4>7
        <4>9. Before(times, r[1]) = i[1]
          <5>1. i[1] <= Before(times, r[1]) /\ Before(times, r[1]) < i[2] /\ Before(times, r[1]) \in times
            BY <1>4, <3>2, <4>1, <4>7, <4>8
          <5> QED
            BY <3>3, <3>4, <5>1
        <4>10. First(r) <= t
          BY <1>9, <4>1, <4>7, <4>8, <4>9, RunSeen
        <4>11. t < Last(r)
          BY <1>4, <1>5, <3>1, <3>4, <4>5
        <4> QED
          BY <4>10, <4>11
      <3> QED
        BY <3>6, <3>7
    <2> QED
      BY <2>1, <2>2
  <1> QED
    BY <1>6, <1>7, <1>9

\* The passes collected are exact.
LEMMA CollectExact ==
  ASSUME PInv, Collect
  PROVE  PassesExact'
  <1> DEFINE P(r) == Pass(times, r, First(r), Last(r))
  <1>1. /\ phase = "solve" /\ Active = {} /\ world' = world /\ grid' = grid
        /\ passes' = {P(r) : r \in Runs(times)}
    BY DEF Collect, First, Last
  <1>2. SUFFICES ASSUME IsFine
                 PROVE  \A t \in Ticks :
                          Visible(t) <=> \/ \E p \in passes' : p.start <= t /\ t < p.end
                                         \/ \E p \in passes' : t = p.end /\ (world[t] = 0 \/ p.truncated_end)
    BY <1>1 DEF PassesExact, IsFine, Visible, Around
  <1>3. /\ world \in Worlds /\ Covering(times) /\ Parted /\ DOMAIN brackets = Crossings
        /\ \A c \in Crossings : Bracketed(c, brackets[c]) /\ Found(c, brackets[c])
    BY <1>1, <1>2 DEF PInv, SInv, Searched, Turned, Rooted
  <1>4. Solved
    BY <1>1, <1>3 DEF Solved, Active
  <1>5. \A r \in Runs(times) :
          P(r).start = First(r) /\ P(r).end = Last(r) /\ (P(r).truncated_end <=> r[2] = Max(times))
    BY DEF Pass
  <1> HIDE DEF P
  <1> TAKE t \in Ticks
  <1>6. (\E p \in passes' : p.start <= t /\ t < p.end) <=> \E r \in Runs(times) : First(r) <= t /\ t < Last(r)
    BY <1>1, <1>5
  <1>7. (\E p \in passes' : t = p.end /\ (world[t] = 0 \/ p.truncated_end)) <=>
          \E r \in Runs(times) : t = Last(r) /\ (world[t] = 0 \/ r[2] = Max(times))
    BY <1>1, <1>5
  <1> QED
    BY <1>3, <1>4, <1>6, <1>7, SeenIsFound

\* No step loses a turn that is a breakpoint.
LEMMA TurnedKept ==
  ASSUME PInv, [Next]_vars
  PROVE  Turned'
  <1>1. (grid' = grid /\ world' = world) => IsFine' = IsFine
    BY DEF IsFine, Around
  <1>2. grid' = grid /\ world' = world
    BY DEF Next, Search, EventsNext, Sample, Bisect, Bracket, Solve, Collect, Hold, Tile, Report, vars, eventsVars
  <1> SUFFICES ASSUME phase' \in {"bisect", "bracket", "solve"}, IsFine PROVE Parted'
    BY <1>1, <1>2 DEF Turned
  <1>3. CASE Sample
    BY <1>3, SampleParts DEF PInv
  <1>4. ASSUME phase \in {"bisect", "bracket", "solve"}, times \subseteq times' PROVE Parted'
    BY <1>2, <1>4 DEF PInv, Turned, Parted, Moving, Turn
  <1>5. CASE Bisect
    BY <1>4, <1>5 DEF Bisect
  <1>6. CASE Bracket
    BY <1>4, <1>6 DEF Bracket
  <1>7. CASE Solve
    BY <1>4, <1>7 DEF Solve
  <1>8. CASE UNCHANGED vars
    BY <1>4, <1>8 DEF vars, eventsVars
  <1>9. ~Collect /\ ~Hold /\ ~Tile /\ ~Report
    BY DEF Collect, Hold, Tile, Report
  <1> QED
    BY <1>3, <1>5, <1>6, <1>7, <1>8, <1>9 DEF Next, Search, EventsNext

\* The first brackets hold the sign that changes, or a zero.
LEMMA BracketFinds ==
  ASSUME PInv, Bracket
  PROVE  Rooted'
  <1>1. world \in Worlds /\ Covering(times)
    BY DEF PInv, SInv, Searched, Bracket
  <1>2. times' = times /\ world' = world
    BY DEF Bracket
  <1>3. Crossings' = Crossings
    BY <1>2 DEF Crossings, Intervals, After, Visible
  <1>4. ASSUME NEW c \in Crossings PROVE Found(c, brackets'[c])
    <2> DEFINE root == IF world[c[1]] = 0 THEN c[1] ELSE c[2]
               active == world[c[1]] # 0 /\ world[c[2]] # 0 /\ c[2] - c[1] > 1
               bracket == [lo |-> c[1], hi |-> c[2], root |-> root, active |-> active]
    <2>1. c[1] \in Ticks /\ c[2] \in Ticks /\ c[1] < c[2]
      BY <1>1, CrossingIs
    <2>2. brackets'[c] = bracket
      BY DEF Bracket
    <2>3. /\ world[c[1]] = 0 => root = c[1] /\ ~active
          /\ world[c[1]] # 0 => root = c[2]
          /\ world[c[2]] = 0 => ~active
      OBVIOUS
    <2>4. world[c[1]] # 0 /\ world[c[2]] # 0 /\ ~active => c[2] - c[1] <= 1
      <3>1. c[1] \in Int /\ c[2] \in Int
        BY <2>1, EventsAssumption DEF Ticks
      <3> QED
        BY <3>1
    <2> HIDE DEF root, active
    <2>5. bracket.lo = c[1] /\ bracket.hi = c[2] /\ bracket.root = root /\ bracket.active = active
      OBVIOUS
    <2> HIDE DEF bracket
    <2>6. CASE world[c[1]] = 0 \/ world[c[2]] = 0
      <3>1. world[root] = 0 /\ ~active
        BY <2>3, <2>6
      <3> QED
        BY <2>2, <2>5, <3>1 DEF Found
    <2>7. CASE world[c[1]] # 0 /\ world[c[2]] # 0
      BY <2>2, <2>3, <2>4, <2>5, <2>7 DEF Found
    <2> QED
      BY <2>6, <2>7
  <1> QED
    BY <1>2, <1>3, <1>4 DEF Rooted, Found, Visible

\* Trials keep what brackets hold.
LEMMA SolveFinds ==
  ASSUME PInv, Solve
  PROVE  Rooted'
  <1>1. /\ world \in Worlds /\ Covering(times) /\ DOMAIN brackets = Crossings
        /\ \A c \in Crossings : Bracketed(c, brackets[c]) /\ Found(c, brackets[c])
    BY DEF PInv, SInv, Searched, Rooted, Solve
  <1>2. times' = times /\ world' = world
    BY DEF Solve
  <1>3. Crossings' = Crossings
    BY <1>2 DEF Crossings, Intervals, After, Visible
  <1>4. PICK trial \in [Active -> Ticks] :
          brackets' = [c \in DOMAIN brackets |->
            IF c \in Active THEN Narrowed(brackets[c], trial[c]) ELSE brackets[c]]
    BY DEF Solve
  <1>5. ASSUME NEW c \in Crossings PROVE Found(c, brackets'[c])
    <2>1. Bracketed(c, brackets[c]) /\ Found(c, brackets[c]) /\ Visible(c[1]) # Visible(c[2])
      BY <1>1 DEF Crossings
    <2>2. CASE c \in Active
      <3>1. brackets[c].active /\ trial[c] \in Ticks
        BY <1>4, <2>2 DEF Active
      <3>2. brackets'[c] = Narrowed(brackets[c], trial[c])
        BY <1>1, <1>4, <2>2
      <3>3. Found(c, Narrowed(brackets[c], trial[c]))
        BY <1>1, <2>1, <3>1, NarrowedFinds
      <3> QED
        BY <3>2, <3>3
    <2>3. CASE c \notin Active
      BY <1>1, <1>4, <2>1, <2>3
    <2> QED
      BY <2>2, <2>3
  <1> QED
    BY <1>2, <1>3, <1>5 DEF Rooted, Found, Visible

\* What brackets hold is kept.
LEMMA RootedKept ==
  ASSUME PInv, [Next]_vars
  PROVE  Rooted'
  <1>1. CASE Bracket
    BY <1>1, BracketFinds
  <1>2. CASE Solve
    BY <1>2, SolveFinds
  <1>3. ASSUME UNCHANGED vars PROVE Rooted'
    <2>1. phase' = phase /\ times' = times /\ world' = world /\ brackets' = brackets
      BY <1>3 DEF vars, eventsVars
    <2>2. Crossings' = Crossings
      BY <2>1 DEF Crossings, Intervals, After, Visible
    <2> QED
      BY <2>1, <2>2 DEF PInv, Rooted, Found, Visible
  <1>4. ASSUME Sample \/ Bisect \/ Collect \/ Hold \/ Tile \/ Report PROVE Rooted'
    <2>1. phase' # "solve"
      BY <1>4 DEF Sample, Bisect, Collect, Hold, Tile, Report
    <2> QED
      BY <2>1 DEF Rooted
  <1> QED
    BY <1>1, <1>2, <1>3, <1>4 DEF Next, Search, EventsNext

\* The passes found stay exact.
LEMMA ExactKept ==
  ASSUME PInv, [Next]_vars
  PROVE  PassesExact'
  <1>1. CASE Collect
    BY <1>1, CollectExact
  <1>2. ASSUME Hold PROVE PassesExact'
    <2>1. ~setup'.events
      BY <1>2 DEF Hold
    <2> QED
      BY <2>1 DEF PassesExact
  <1>3. ASSUME UNCHANGED vars PROVE PassesExact'
    BY <1>3 DEF PInv, PassesExact, IsFine, Around, Visible, vars, eventsVars
  <1>4. ASSUME Sample \/ Bisect \/ Bracket \/ Solve \/ Tile \/ Report PROVE PassesExact'
    <2>1. phase' # "found"
      BY <1>4 DEF Sample, Bisect, Bracket, Solve, Tile, Report
    <2> QED
      BY <2>1 DEF PassesExact
  <1> QED
    BY <1>1, <1>2, <1>3, <1>4 DEF Next, Search, EventsNext

\* find_passes: whatever the window, the elevations, the grid and the trial points of the root finder, on
\* a grid that is fine enough the passes found are those an observer of every tick sees: none is missed
\* between samples, none is reported that is not there, and each starts and ends at the tick of its root.
THEOREM PassesAreExact == Spec => []PassesExact
  <1>1. Init => PInv
    <2> SUFFICES ASSUME Init PROVE PInv
      OBVIOUS
    <2>1. phase = "sample"
      BY DEF Init, EventsInit
    <2> QED
      BY <2>1, InitSearched DEF PInv, Turned, Rooted, PassesExact
  <1>2. PInv /\ [Next]_vars => PInv'
    <2> SUFFICES ASSUME PInv, [Next]_vars PROVE PInv'
      OBVIOUS
    <2>1. SInv'
      BY SearchedKept DEF PInv
    <2> QED
      BY <2>1, TurnedKept, RootedKept, ExactKept DEF PInv
  <1>3. PInv => PassesExact
    BY DEF PInv
  <1> QED
    BY <1>1, <1>2, <1>3, PTL DEF Spec
=============================================================================
