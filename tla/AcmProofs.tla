----------------------------- MODULE AcmProofs -----------------------------
(***************************************************************************)
(* Adaptive coding and modulation for any MODCODs, any hysteresis, delay   *)
(* and length of pass, and however often the link crosses a level.         *)
(*                                                                         *)
(* The invariant IInv says that the walk alone tells the history: each     *)
(* decision is the rule's answer from the one before, and each tick was    *)
(* heard as the last decision by then.  The rest is about the state a pass *)
(* ends in (Over).  Its mode is a function of time, ModeAt; the schedule   *)
(* is made of the ticks at which that function changes (MergedIs), and     *)
(* what it carries at a tick depends on that tick alone (CarriedIs), so    *)
(* that cuts, segments and events are only where something changes.        *)
(***************************************************************************)
EXTENDS Acm, SequenceTheorems, FiniteSetTheorems, WellFoundedInduction, TLAPS

\* A set of naturals has a least element: the library's well-founded induction, without a predicate as a parameter.
LEMMA LeastNatural ==
  ASSUME NEW T, \A n \in T : n \in Nat, NEW x \in T
  PROVE  \E n \in T : \A m \in T : n <= m
  <1>1. IsWellFoundedOn(OpToRel(<, Nat), Nat) /\ T \subseteq Nat /\ T # {}
    BY NatLessThanWellFounded
  <1>2. \E n \in T : \A m \in T : ~(<<m, n>> \in OpToRel(<, Nat))
    BY <1>1, WFMin
  <1>3. \E n \in T : \A m \in T : ~(m < n)
    BY <1>2 DEF OpToRel
  <1> QED
    BY <1>3

----------------------------------------------------------------------------
(* The least, the greatest and the n-th of a set of integers.              *)

\* A set of integers bounded above has a greatest element.
LEMMA GreatestIs ==
  ASSUME NEW S, \A x \in S : x \in Int, NEW b \in Int, \A x \in S : x <= b, S # {}
  PROVE  Greatest(S) \in S /\ \A y \in S : y <= Greatest(S)
  <1> DEFINE T == {b - x : x \in S}
  <1>1. \A n \in T : n \in Nat
    OBVIOUS
  <1>2. PICK x \in S : TRUE
    OBVIOUS
  <1>3. b - x \in T
    BY <1>2
  <1>4. PICK n \in T : \A m \in T : n <= m
    <2> HIDE DEF T
    <2> QED
      BY <1>1, <1>3, LeastNatural
  <1>5. PICK y \in S : n = b - y
    BY <1>4
  <1>6. \A z \in S : z <= y
    <2>1. \A z \in S : n <= b - z
      BY <1>4
    <2> HIDE DEF T
    <2> QED
      BY <1>5, <2>1
  <1> QED
    BY <1>5, <1>6 DEF Greatest

\* A set of integers bounded below has a least element.
LEMMA LeastIs ==
  ASSUME NEW S, \A x \in S : x \in Int, NEW b \in Int, \A x \in S : b <= x, S # {}
  PROVE  Least(S) \in S /\ \A y \in S : Least(S) <= y
  <1> DEFINE T == {x - b : x \in S}
  <1>1. \A n \in T : n \in Nat
    OBVIOUS
  <1>2. PICK x \in S : TRUE
    OBVIOUS
  <1>3. x - b \in T
    BY <1>2
  <1>4. PICK n \in T : \A m \in T : n <= m
    <2> HIDE DEF T
    <2> QED
      BY <1>1, <1>3, LeastNatural
  <1>5. PICK y \in S : n = y - b
    BY <1>4
  <1>6. \A z \in S : y <= z
    <2>1. \A z \in S : n <= z - b
      BY <1>4
    <2> HIDE DEF T
    <2> QED
      BY <1>5, <2>1
  <1> QED
    BY <1>5, <1>6 DEF Least

\* An element that none exceeds is the greatest.
LEMMA GreatestOf ==
  ASSUME NEW S, \A x \in S : x \in Int, NEW g \in S, \A x \in S : x <= g
  PROVE  Greatest(S) = g
  <1>1. g \in Int /\ S # {}
    OBVIOUS
  <1>2. Greatest(S) \in S /\ \A x \in S : x <= Greatest(S)
    BY <1>1, GreatestIs
  <1>3. PICK h \in Int : h = Greatest(S) /\ h <= g /\ g <= h
    BY <1>2
  <1> QED
    BY <1>1, <1>3

\* Two values with as many elements at or below them have the same ones.
LEMMA RankSame ==
  ASSUME NEW S, IsFiniteSet(S), \A x \in S : x \in Int, NEW a \in Int, NEW b \in Int, Rank(S, a) = Rank(S, b)
  PROVE  \A x \in S : x <= a <=> x <= b
  <1> DEFINE A == {y \in S : y <= a}
             B == {y \in S : y <= b}
  <1>1. IsFiniteSet(A) /\ IsFiniteSet(B) /\ Cardinality(A) = Cardinality(B)
    BY FS_Subset DEF Rank
  <1>2. A \subseteq B \/ B \subseteq A
    OBVIOUS
  <1>3. A = B
    <2> HIDE DEF A, B
    <2>1. CASE A \subseteq B
      BY <1>1, <2>1, FS_Subset
    <2>2. CASE B \subseteq A
      BY <1>1, <2>2, FS_Subset
    <2> QED
      BY <1>2, <2>1, <2>2
  <1> QED
    BY <1>3

\* The rank of an element is above that of what is below it.
LEMMA RankRises ==
  ASSUME NEW S, IsFiniteSet(S), \A x \in S : x \in Int, NEW a \in Int, NEW b \in S, a < b
  PROVE  Rank(S, a) \in Nat /\ Rank(S, b) \in Nat /\ Rank(S, a) < Rank(S, b)
  <1> DEFINE A == {y \in S : y <= a}
             B == {y \in S : y <= b}
  <1>1. b \in Int
    OBVIOUS
  <1>2. IsFiniteSet(A) /\ IsFiniteSet(B) /\ Rank(S, a) = Cardinality(A) /\ Rank(S, b) = Cardinality(B)
    BY FS_Subset DEF Rank
  <1>3. A \subseteq B /\ b \in B /\ b \notin A
    <2>1. \A y \in S : y <= a => y <= b
      BY <1>1
    <2>2. ~(b <= a) /\ b <= b
      BY <1>1
    <2> QED
      BY <2>1, <2>2
  <1> HIDE DEF A, B
  <1>4. Cardinality(A) \in Nat /\ Cardinality(B) \in Nat
    BY <1>2, FS_CardinalityType
  <1>5. Cardinality(A) <= Cardinality(B) /\ Cardinality(A) # Cardinality(B)
    BY <1>2, <1>3, FS_Subset
  <1> QED
    BY <1>2, <1>4, <1>5

\* A finite set of integers has an element of every rank up to its size.
LEMMA Ranks ==
  ASSUME NEW S, IsFiniteSet(S), \A x \in S : x \in Int, NEW N \in Int, \A x \in S : x <= N
  PROVE  /\ Cardinality(S) \in Nat
         /\ \A x \in S : Rank(S, x) \in 1..Cardinality(S)
         /\ \A n \in 1..Cardinality(S) : \E x \in S : Rank(S, x) = n
  <1> DEFINE c == Cardinality(S)
             Has(n) == \E x \in S : Rank(S, x) = n
  <1>1. IsFiniteSet(S) /\ c \in Nat
    BY FS_CardinalityType
  <1>2. \A x \in S : x \in Int /\ x <= N
    OBVIOUS
  <1>3. ASSUME NEW x \in S PROVE Rank(S, x) \in 1..c
    <2> DEFINE B == {y \in S : y <= x}
    <2>1. B \in SUBSET S /\ x \in B
      BY <1>2
    <2>2. Rank(S, x) = Cardinality(B)
      BY DEF Rank
    <2> HIDE DEF B
    <2>3. IsFiniteSet(B) /\ Cardinality(B) <= c
      BY <1>1, <2>1, FS_Subset
    <2>4. Cardinality(B) \in Nat /\ Cardinality(B) # 0
      BY <2>1, <2>3, FS_CardinalityType, FS_EmptySet
    <2> QED
      BY <1>1, <2>2, <2>3, <2>4
  <1>4. ASSUME NEW n \in 1..c, ~Has(n) PROVE FALSE
    <2> DEFINE T == {j \in 1..c : ~Has(j)}
               U == {c - j : j \in T}
    <2>1. \A u \in U : u \in Nat
      BY <1>1
    <2>2. c - n \in U
      BY <1>4
    <2>3. PICK u \in U : \A w \in U : u <= w
      <3> HIDE DEF U
      <3> QED
        BY <2>1, <2>2, LeastNatural
    <2>4. PICK k \in 1..c : u = c - k /\ ~Has(k)
      BY <2>3
    <2>5. \A j \in 1..c : ~Has(j) => j <= k
      <3> SUFFICES ASSUME NEW j \in 1..c, ~Has(j) PROVE j <= k
        OBVIOUS
      <3>1. c - j \in U
        OBVIOUS
      <3>2. u <= c - j
        BY <2>3, <3>1
      <3> QED
        BY <1>1, <2>4, <3>2
    <2> HIDE DEF T, U
    <2>6. CASE k = c
      <3>1. S # {}
        BY <1>1, <2>6, FS_EmptySet
      <3>a. (\A y \in S : y \in Int) /\ (\A y \in S : y <= N) /\ N \in Int
        BY <1>2
      <3>2. Greatest(S) \in S /\ \A y \in S : y <= Greatest(S)
        BY <3>1, <3>a, GreatestIs
      <3>3. {y \in S : y <= Greatest(S)} = S
        BY <3>2
      <3> QED
        BY <2>4, <2>6, <3>2, <3>3 DEF Rank
    <2>7. CASE k # c
      <3>1. k + 1 \in 1..c
        BY <1>1, <2>7
      <3>2. Has(k + 1)
        BY <1>1, <2>5, <3>1
      <3>3. PICK x \in S : Rank(S, x) = k + 1
        BY <3>2
      <3> DEFINE B == {y \in S : y <= x}
                 L == {y \in S : y < x}
      <3>4. IsFiniteSet(B) /\ Cardinality(B) = k + 1 /\ x \in B /\ L = B \ {x}
        <4>1. L = B \ {x}
          <5>1. \A y \in S : y < x <=> y <= x /\ y # x
            BY <1>2
          <5> QED
            BY <5>1
        <4>2. IsFiniteSet(B)
          BY <1>1, FS_Subset
        <4> QED
          BY <1>2, <3>3, <4>1, <4>2 DEF Rank
      <3>5. \A y \in L : y \in S /\ y \in Int /\ y <= x
        BY <1>2
      <3>a. x \in Int
        BY <1>2
      <3>b. \A y \in S : y \in L <=> y < x
        OBVIOUS
      <3> HIDE DEF B, L
      <3>6. IsFiniteSet(L) /\ Cardinality(L) = k
        <4>1. IsFiniteSet(L) /\ Cardinality(L) = (k + 1) - 1
          BY <3>4, FS_RemoveElement
        <4> QED
          BY <4>1
      <3>7. L # {}
        BY <3>6, FS_EmptySet
      <3>8. Greatest(L) \in L /\ \A y \in L : y <= Greatest(L)
        BY <3>5, <3>7, <3>a, GreatestIs
      <3>9. {y \in S : y <= Greatest(L)} = L
        <4> DEFINE g == Greatest(L)
        <4>1. g \in Int /\ g < x
          BY <3>5, <3>8, <3>b
        <4>2. \A y \in S : y <= g => y < x
          BY <1>2, <3>a, <4>1
        <4>3. \A y \in L : y \in S /\ y <= g
          BY <3>5, <3>8
        <4> HIDE DEF g
        <4> QED
          BY <3>b, <4>2, <4>3 DEF g
      <3>10. Rank(S, Greatest(L)) = k /\ Greatest(L) \in S
        BY <3>5, <3>6, <3>8, <3>9 DEF Rank
      <3> QED
        BY <2>4, <3>10
    <2> QED
      BY <2>6, <2>7
  <1> QED
    BY <1>1, <1>3, <1>4

\* The elements in order.
LEMMA NthIs ==
  ASSUME NEW N \in Nat, NEW S \in SUBSET (0..N)
  PROVE  /\ IsFiniteSet(S) /\ Cardinality(S) \in Nat
         /\ \A n \in 1..Cardinality(S) : Nth(S, n) \in S
         /\ \A x \in S : \E n \in 1..Cardinality(S) : x = Nth(S, n)
         /\ \A m, n \in 1..Cardinality(S) : m < n <=> Nth(S, m) < Nth(S, n)
  <1> DEFINE c == Cardinality(S)
  <1>2. N \in Int /\ (\A x \in S : x \in Int) /\ (\A x \in S : x <= N)
    OBVIOUS
  <1>a. IsFiniteSet(S)
    <2>1. IsFiniteSet(0..N) /\ S \subseteq 0..N
      BY FS_Interval
    <2> QED
      BY <2>1, FS_Subset
  <1>1. /\ IsFiniteSet(S) /\ c \in Nat /\ \A x \in S : Rank(S, x) \in 1..c
        /\ \A n \in 1..c : \E x \in S : Rank(S, x) = n
    BY <1>2, <1>a, Ranks
  <1>3. \A n \in 1..c : Nth(S, n) \in S /\ Rank(S, Nth(S, n)) = n
    BY <1>1 DEF Nth
  <1>4. \A x, y \in S : x < y => Rank(S, x) < Rank(S, y)
    BY <1>1, <1>2, RankRises
  <1>5. \A x, y \in S : Rank(S, x) = Rank(S, y) => x = y
    BY <1>1, <1>2, <1>4
  <1>6. ASSUME NEW x \in S PROVE \E n \in 1..c : x = Nth(S, n)
    BY <1>1, <1>3, <1>5
  <1>7. ASSUME NEW m \in 1..c, NEW n \in 1..c PROVE m < n <=> Nth(S, m) < Nth(S, n)
    <2> DEFINE x == Nth(S, m)
               y == Nth(S, n)
    <2>1. x \in S /\ y \in S /\ Rank(S, x) = m /\ Rank(S, y) = n /\ x \in Int /\ y \in Int
      BY <1>2, <1>3
    <2> HIDE DEF x, y
    <2>2. m < n => x < y
      <3>1. x = y => m = n
        BY <2>1
      <3>2. y < x => n < m
        BY <1>4, <2>1
      <3> QED
        BY <2>1, <3>1, <3>2
    <2>3. x < y => m < n
      BY <1>4, <2>1
    <2> QED
      BY <2>2, <2>3 DEF x, y
  <1> QED
    BY <1>1, <1>3, <1>6, <1>7

----------------------------------------------------------------------------
(* A history told tick by tick.                                            *)

\* What does not change from one tick to the next does not change.
LEMMA Steady ==
  ASSUME NEW f, NEW u \in Int, NEW v \in Int, u <= v, \A w \in (u + 1)..v : f[w] = f[w - 1]
  PROVE  f[v] = f[u]
  <1> DEFINE T == {w - u : w \in {x \in u..v : f[x] # f[u]}}
  <1> SUFFICES ASSUME f[v] # f[u] PROVE FALSE
    OBVIOUS
  <1>1. v - u \in T /\ \A n \in T : n \in Nat
    OBVIOUS
  <1>2. PICK n \in T : \A m \in T : n <= m
    <2> HIDE DEF T
    <2> QED
      BY <1>1, LeastNatural
  <1>3. PICK w \in u..v : n = w - u /\ f[w] # f[u]
    BY <1>2
  <1>4. w # u /\ w \in (u + 1)..v /\ w - 1 \in u..v
    BY <1>3
  <1>5. f[w - 1] # f[u]
    BY <1>3, <1>4
  <1>6. (w - 1) - u \in T
    BY <1>4, <1>5
  <1>7. w - u <= (w - 1) - u
    BY <1>2, <1>3, <1>6
  <1> HIDE DEF T
  <1> QED
    BY <1>3, <1>7

\* What never falls from one tick to the next is no less later than before.
LEMMA Rising ==
  ASSUME NEW f, NEW u \in Int, NEW v \in Int, u <= v, \A w \in u..v : f[w] \in Int, \A w \in (u + 1)..v : f[w - 1] <= f[w]
  PROVE  f[u] <= f[v]
  <1> DEFINE T == {w - u : w \in {x \in u..v : ~(f[u] <= f[x])}}
  <1> SUFFICES ASSUME ~(f[u] <= f[v]) PROVE FALSE
    OBVIOUS
  <1>1. v - u \in T /\ \A n \in T : n \in Nat
    OBVIOUS
  <1>2. PICK n \in T : \A m \in T : n <= m
    <2> HIDE DEF T
    <2> QED
      BY <1>1, LeastNatural
  <1>3. PICK w \in u..v : n = w - u /\ ~(f[u] <= f[w])
    BY <1>2
  <1>4. f[u] \in Int /\ f[w] \in Int
    BY <1>3
  <1>5. w # u /\ w \in (u + 1)..v /\ w - 1 \in u..v
    BY <1>3, <1>4
  <1>6. ~(f[u] <= f[w - 1])
    BY <1>3, <1>4, <1>5
  <1>7. (w - 1) - u \in T
    BY <1>5, <1>6
  <1>8. w - u <= (w - 1) - u
    BY <1>2, <1>3, <1>7
  <1> HIDE DEF T
  <1> QED
    BY <1>3, <1>8

----------------------------------------------------------------------------
(* The rule.                                                               *)

Modes == Modcods \union {NoLock}

\* The requirements rise over all MODCODs, not from one to the next only.
LEMMA RequiredRises ==
  /\ Len(Required) \in Nat \ {0} /\ \A m \in Modcods : Required[m] \in Int
  /\ \A i, k \in Modcods : i < k => Required[i] < Required[k]
  <1> DEFINE n == Len(Required)
  <1>1. n \in Nat \ {0} /\ \A m \in 1..n : Required[m] \in Int
    BY AcmAssumption, EmptySeq, LenProperties, ElementOfSeq DEF AcmAssumption
  <1>2. \A m \in 1..(n - 1) : Required[m] < Required[m + 1]
    BY AcmAssumption DEF AcmAssumption
  <1>3. ASSUME NEW i \in 1..n, NEW k \in 1..n, i < k, ~(Required[i] < Required[k]) PROVE FALSE
    <2> DEFINE T == {j \in 1..n : i < j /\ ~(Required[i] < Required[j])}
    <2>1. k \in T /\ \A j \in T : j \in Nat
      BY <1>3
    <2>2. PICK j \in T : \A l \in T : j <= l
      <3> HIDE DEF T
      <3> QED
        BY <2>1, LeastNatural
    <2>3. j - 1 \in 1..(n - 1) /\ j - 1 \in 1..n /\ (j - 1) + 1 = j
      BY <1>1
    <2>4. j - 1 \notin T
      BY <2>2
    <2>5. Required[j - 1] < Required[j]
      BY <1>2, <2>3
    <2>6. i = j - 1 \/ Required[i] < Required[j - 1]
      BY <2>3, <2>4
    <2> QED
      BY <1>1, <2>3, <2>5, <2>6
  <1> QED
    BY <1>1, <1>3 DEF Modcods

\* The levels are finitely many integers, between the lowest requirement and the highest with the hysteresis.
LEMMA LevelsAre ==
  ASSUME setup \in Setups
  PROVE  /\ IsFiniteSet(Levels) /\ Levels # {} /\ \A level \in Levels : level \in Int
         /\ \E low, high \in Int : \A level \in Levels : low <= level /\ level <= high
         /\ setup.hysteresis \in Nat
         /\ \A m \in Modcods : Required[m] \in Levels /\ Required[m] + setup.hysteresis \in Levels
  <1> DEFINE n == Len(Required)
             h == setup.hysteresis
             A == {Required[m] : m \in Modcods}
             B == {Required[m] + h : m \in Modcods}
  <1>1. h \in Nat
    BY AcmAssumption DEF AcmAssumption
  <1>2. /\ n \in Nat \ {0} /\ \A m \in Modcods : Required[m] \in Int
        /\ \A i, k \in Modcods : i < k => Required[i] < Required[k]
    BY RequiredRises
  <1>3. IsFiniteSet(Modcods)
    BY <1>2, FS_Interval DEF Modcods
  <1>4. IsFiniteSet(A)
    <2> DEFINE f == [m \in Modcods |-> Required[m]]
    <2>1. f \in Surjection(Modcods, A)
      BY DEF Surjection
    <2> HIDE DEF f, A
    <2> QED
      BY <1>3, <2>1, FS_Surjection
  <1>5. IsFiniteSet(B)
    <2> DEFINE f == [m \in Modcods |-> Required[m] + h]
    <2>1. f \in Surjection(Modcods, B)
      BY DEF Surjection
    <2> HIDE DEF f, B
    <2> QED
      BY <1>3, <2>1, FS_Surjection
  <1>6. IsFiniteSet(Levels)
    <2> HIDE DEF A, B
    <2>1. IsFiniteSet(A \union B)
      BY <1>4, <1>5, FS_Union
    <2> QED
      BY <2>1 DEF Levels, A, B
  <1>7. 1 \in Modcods /\ n \in Modcods /\ Required[1] \in Int /\ Required[n] + h \in Int
    BY <1>1, <1>2 DEF Modcods
  <1>8. \A m \in Modcods : Required[1] <= Required[m] /\ Required[m] <= Required[n]
    <2> SUFFICES ASSUME NEW m \in Modcods PROVE Required[1] <= Required[m] /\ Required[m] <= Required[n]
      OBVIOUS
    <2>1. m = 1 \/ 1 < m
      BY DEF Modcods
    <2>2. m = n \/ m < n
      BY <1>2 DEF Modcods
    <2> QED
      BY <1>2, <1>7, <2>1, <2>2
  <1>9. \A level \in Levels : \E m \in Modcods : level = Required[m] \/ level = Required[m] + h
    BY DEF Levels
  <1>10. \A level \in Levels : level \in Int /\ Required[1] <= level /\ level <= Required[n] + h
    BY <1>1, <1>2, <1>7, <1>8, <1>9
  <1> QED
    BY <1>1, <1>6, <1>7, <1>10 DEF Levels

\* The rule's answer is a MODCOD whose requirement is met, or none.
LEMMA SelectIs ==
  ASSUME setup \in Setups, NEW a \in Int, NEW p \in Modes
  PROVE  LET m == SelectModcod(a, p)
             extra(k) == IF p # NoLock /\ a >= Required[p] /\ k > p THEN setup.hysteresis ELSE 0
         IN /\ m \in Modes
            /\ m # NoLock => a >= Required[m] + extra(m)
            /\ \A k \in Modcods : a >= Required[k] + extra(k) => k <= m
  <1> DEFINE extra(k) == IF p # NoLock /\ a >= Required[p] /\ k > p THEN setup.hysteresis ELSE 0
             S == {m \in Modcods : a >= Required[m] + extra(m)} \union {NoLock}
  <1>1. SelectModcod(a, p) = Greatest(S)
    BY DEF SelectModcod
  <1>2. Len(Required) \in Nat
    BY RequiredRises
  <1>3. (\A x \in S : x \in Int) /\ (\A x \in S : x <= Len(Required)) /\ Len(Required) \in Int /\ S # {}
    BY <1>2 DEF Modcods, NoLock
  <1>4. Greatest(S) \in S /\ \A y \in S : y <= Greatest(S)
    <2> HIDE DEF S
    <2> QED
      BY <1>3, GreatestIs
  <1> QED
    BY <1>1, <1>4 DEF Modes

\* What one more question about the same value answers.
LEMMA SelectTwice ==
  ASSUME setup \in Setups, NEW a \in Int, NEW p \in Modes
  PROVE  SelectModcod(a, SelectModcod(a, p)) = SelectModcod(a, p)
  <1> DEFINE m == SelectModcod(a, p)
             n == SelectModcod(a, m)
             h == setup.hysteresis
  <1>1. /\ m \in Modes
        /\ m # NoLock => a >= Required[m] + IF p # NoLock /\ a >= Required[p] /\ m > p THEN h ELSE 0
        /\ \A k \in Modcods : a >= Required[k] + (IF p # NoLock /\ a >= Required[p] /\ k > p THEN h ELSE 0) => k <= m
    BY SelectIs
  <1>2. /\ n \in Modes
        /\ n # NoLock => a >= Required[n] + IF m # NoLock /\ a >= Required[m] /\ n > m THEN h ELSE 0
        /\ \A k \in Modcods : a >= Required[k] + (IF m # NoLock /\ a >= Required[m] /\ k > m THEN h ELSE 0) => k <= n
    BY <1>1, SelectIs
  <1>3. h \in Nat /\ (\A k \in Modcods : Required[k] \in Int) /\ \A k \in Modcods : k \in Nat /\ k > NoLock
    BY LevelsAre, RequiredRises DEF Modcods, NoLock
  <1> HIDE DEF m, n, h
  <1>4. m # NoLock => m \in Modcods /\ a >= Required[m] /\ m <= n
    <2> SUFFICES ASSUME m # NoLock PROVE m \in Modcods /\ a >= Required[m] /\ m <= n
      OBVIOUS
    <2>1. m \in Modcods
      BY <1>1 DEF Modes
    <2>2. a >= Required[m]
      BY <1>1, <1>3, <2>1
    <2> QED
      BY <1>2, <1>3, <2>1, <2>2
  <1>5. m \in Nat /\ n \in Nat /\ m <= n
    BY <1>1, <1>2, <1>3, <1>4 DEF Modes, NoLock
  <1>6. ASSUME m < n PROVE FALSE
    <2>1. n \in Modcods /\ n # NoLock
      BY <1>2, <1>5, <1>6 DEF Modes, NoLock
    <2>2. a >= Required[n] + IF m # NoLock THEN h ELSE 0
      BY <1>2, <1>4, <1>6, <2>1
    <2>3. a >= Required[n] + IF p # NoLock /\ a >= Required[p] /\ n > p THEN h ELSE 0
      <3>1. CASE m # NoLock
        BY <1>3, <2>1, <2>2, <3>1
      <3>2. CASE m = NoLock
        <4>1. a >= Required[n]
          BY <1>3, <2>1, <2>2, <3>2
        <4>2. ~(p # NoLock /\ a >= Required[p])
          <5>1. ASSUME p # NoLock, a >= Required[p] PROVE FALSE
            <6>1. p \in Modcods /\ p > NoLock
              BY <1>3, <5>1 DEF Modes
            <6>2. p <= m
              BY <1>1, <1>3, <5>1, <6>1
            <6> QED
              BY <1>3, <3>2, <6>1, <6>2 DEF NoLock
          <5> QED
            BY <5>1
        <4> QED
          BY <1>3, <2>1, <4>1, <4>2
      <3> QED
        BY <3>1, <3>2
    <2>4. n <= m
      BY <1>1, <2>1, <2>3
    <2> QED
      BY <1>5, <1>6, <2>4
  <1> QED
    BY <1>5, <1>6 DEF m, n

\* The rule reads a value through its count only.
LEMMA CountTells ==
  ASSUME setup \in Setups, NEW a \in Int, NEW b \in Int, Count(a) = Count(b), NEW p \in Modes
  PROVE  /\ SelectModcod(a, p) = SelectModcod(b, p)
         /\ \A m \in Modcods : Required[m] <= a <=> Required[m] <= b
  <1> DEFINE h == setup.hysteresis
  <1>1. /\ IsFiniteSet(Levels) /\ \A level \in Levels : level \in Int
        /\ \A m \in Modcods : Required[m] \in Levels /\ Required[m] + h \in Levels
        /\ h \in Nat
    BY LevelsAre
  <1>2. \A level \in Levels : level <= a <=> level <= b
    BY <1>1, RankSame DEF Count
  <1>3. \A m \in Modcods : (a >= Required[m] <=> b >= Required[m]) /\ (a >= Required[m] + h <=> b >= Required[m] + h)
    BY <1>1, <1>2
  <1>4. \A m \in Modcods : (a >= Required[m] + 0 <=> b >= Required[m] + 0)
    BY <1>1, <1>3
  <1>5. p # NoLock => p \in Modcods
    BY DEF Modes
  <1>6. (p # NoLock /\ a >= Required[p]) <=> (p # NoLock /\ b >= Required[p])
    BY <1>3, <1>5
  <1>7. SelectModcod(a, p) = SelectModcod(b, p)
    <2> DEFINE extra(x, m) == IF (p # NoLock /\ x >= Required[p]) /\ m > p THEN h ELSE 0
    <2>1. \A m \in Modcods : a >= Required[m] + extra(a, m) <=> b >= Required[m] + extra(b, m)
      BY <1>3, <1>4, <1>6
    <2>2. {m \in Modcods : a >= Required[m] + extra(a, m)} = {m \in Modcods : b >= Required[m] + extra(b, m)}
      BY <2>1
    <2> QED
      BY <2>2 DEF SelectModcod
  <1> QED
    BY <1>1, <1>3, <1>7

\* The value that stands for a count has it.
LEMMA Represents ==
  ASSUME setup \in Setups, NEW c \in Counts
  PROVE  Representative(c) \in Int /\ Count(Representative(c)) = c /\ (c = 0 => \A m \in Modcods : Representative(c) < Required[m])
  <1>1. /\ IsFiniteSet(Levels) /\ Levels # {} /\ \A level \in Levels : level \in Int
        /\ \A m \in Modcods : Required[m] \in Levels
    BY LevelsAre
  <1>2. PICK low \in Int, high \in Int : \A level \in Levels : low <= level /\ level <= high
    BY LevelsAre
  <1>3. CASE c = 0
    <2>1. Least(Levels) \in Levels /\ \A level \in Levels : Least(Levels) <= level
      BY <1>1, <1>2, LeastIs
    <2> DEFINE r == Least(Levels) - 1
    <2>2. r \in Int /\ \A level \in Levels : r < level
      BY <1>1, <2>1
    <2> HIDE DEF r
    <2>3. {level \in Levels : level <= r} = {}
      BY <1>1, <2>2
    <2>4. Count(r) = 0
      BY <2>3, FS_EmptySet DEF Count, Rank
    <2> QED
      BY <1>1, <1>3, <2>2, <2>4 DEF Representative, r
  <1>4. CASE c # 0
    <2>1. Cardinality(Levels) \in Nat /\ \A n \in 1..Cardinality(Levels) : \E x \in Levels : Rank(Levels, x) = n
      BY <1>1, <1>2, Ranks
    <2>2. c \in 1..Cardinality(Levels)
      BY <1>4, <2>1 DEF Counts
    <2>3. Nth(Levels, c) \in Levels /\ Rank(Levels, Nth(Levels, c)) = c
      BY <2>1, <2>2 DEF Nth
    <2> QED
      BY <1>1, <1>4, <2>3 DEF Representative, Count
  <1> QED
    BY <1>3, <1>4


----------------------------------------------------------------------------
(* The walk.                                                               *)

\* The last decision by a time, and the mode it left.
LastBy(t) == Greatest({i \in DOMAIN reached : reached[i].at <= t})
ModeAt(t) == IF t < 0 THEN NoLock ELSE decisions[LastBy(t)].to

\* The types of the walk.
TypeInv ==
  /\ setup \in Setups /\ now \in 0..setup.end /\ mode \in Modes /\ ended \in BOOLEAN
  /\ reached \in Seq([at : Nat, count : Counts])
  /\ decisions \in Seq([at : Nat, from : Modes, to : Modes])
  /\ heard \in Seq([mode : Modes, count : Counts])

\* The walk starts with the pass; each decision is the rule's, about the count reached, from the one before.
WalkInv ==
  /\ Len(decisions) = Len(reached) /\ Len(heard) = now
  /\ reached = <<>> => now = 0 /\ mode = NoLock
  /\ reached # <<>> => reached[1].at = 0 /\ mode = decisions[Len(decisions)].to
  /\ \A i \in 1..Len(reached) :
       /\ reached[i].at <= now
       /\ decisions[i].at = reached[i].at
       /\ decisions[i].from = IF i = 1 THEN NoLock ELSE decisions[i - 1].to
       /\ decisions[i].to = Select(reached[i].count, decisions[i].from)
  /\ \A i, k \in 1..Len(reached) : i <= k => reached[i].at <= reached[k].at

\* What was heard as a tick ended is what the walk tells of it.
HeardInv == \A t \in 0..(now - 1) : heard[t + 1].mode = ModeAt(t) /\ heard[t + 1].count = CountAt(t)

\* The schedule is made of the whole walk.
ScheduledInv ==
  ended =>
    /\ now = setup.end /\ reached # <<>>
    /\ segments = SegmentsOf(Merged(decisions))
    /\ events = EventsOf(Merged(decisions))

IInv == TypeInv /\ WalkInv /\ HeardInv /\ ScheduledInv

\* The numbers of a setup.
LEMMA SetupIs ==
  ASSUME setup \in Setups
  PROVE  setup.hysteresis \in Nat /\ setup.delay \in Nat /\ setup.end \in Nat
  BY AcmAssumption DEF AcmAssumption

\* The rule answers with a mode.
LEMMA SelectIsMode ==
  ASSUME setup \in Setups, NEW c \in Counts, NEW p \in Modes
  PROVE  Select(c, p) \in Modes
  <1>1. Representative(c) \in Int
    BY Represents
  <1> QED
    BY <1>1, SelectIs DEF Select

\* What the types say of the sequences, element by element.
LEMMA SequencesAre ==
  ASSUME TypeInv
  PROVE  /\ Len(reached) \in Nat /\ DOMAIN reached = 1..Len(reached) /\ (reached = <<>> <=> Len(reached) = 0)
         /\ \A i \in 1..Len(reached) : reached[i].at \in Nat /\ reached[i].count \in Counts
         /\ Len(decisions) \in Nat /\ DOMAIN decisions = 1..Len(decisions)
         /\ \A i \in 1..Len(decisions) : decisions[i].at \in Nat /\ decisions[i].from \in Modes /\ decisions[i].to \in Modes
         /\ Len(heard) \in Nat
  <1>1. /\ reached \in Seq([at : Nat, count : Counts])
        /\ decisions \in Seq([at : Nat, from : Modes, to : Modes])
        /\ heard \in Seq([mode : Modes, count : Counts])
    BY DEF TypeInv
  <1>2. /\ Len(reached) \in Nat /\ DOMAIN reached = 1..Len(reached)
        /\ Len(decisions) \in Nat /\ DOMAIN decisions = 1..Len(decisions)
        /\ Len(heard) \in Nat
    BY <1>1, LenProperties
  <1>3. reached = <<>> <=> Len(reached) = 0
    BY <1>1, EmptySeq
  <1>4. \A i \in 1..Len(reached) : reached[i] \in [at : Nat, count : Counts]
    BY <1>1, ElementOfSeq
  <1>5. \A i \in 1..Len(decisions) : decisions[i] \in [at : Nat, from : Modes, to : Modes]
    BY <1>1, ElementOfSeq
  <1> QED
    BY <1>2, <1>3, <1>4, <1>5

\* Before the current tick nothing changes any more.
LEMMA LastByIs ==
  ASSUME TypeInv, WalkInv, reached # <<>>, NEW t \in Nat
  PROVE  /\ LastBy(t) \in 1..Len(reached)
         /\ \A i \in 1..Len(reached) : reached[i].at <= t <=> i <= LastBy(t)
  <1> DEFINE n == Len(reached)
             S == {i \in DOMAIN reached : reached[i].at <= t}
  <1>1. n \in Nat \ {0} /\ DOMAIN reached = 1..n /\ \A i \in 1..n : reached[i].at \in Nat
    BY SequencesAre
  <1>2. reached[1].at = 0 /\ \A i, k \in 1..n : i <= k => reached[i].at <= reached[k].at
    BY DEF WalkInv
  <1>3. \A i \in S : i \in 1..n /\ i \in Int /\ i <= n
    BY <1>1
  <1>4. 1 \in S /\ S # {} /\ n \in Int
    BY <1>1, <1>2
  <1>5. \A i \in 1..n : i \in S <=> reached[i].at <= t
    BY <1>1
  <1>6. LastBy(t) = Greatest(S)
    BY DEF LastBy
  <1> HIDE DEF S, n
  <1>7. LastBy(t) \in S /\ \A i \in S : i <= LastBy(t)
    BY <1>3, <1>4, <1>6, GreatestIs
  <1>8. \A i \in 1..n : i <= LastBy(t) => reached[i].at <= t
    <2> SUFFICES ASSUME NEW i \in 1..n, i <= LastBy(t) PROVE reached[i].at <= t
      OBVIOUS
    <2>1. LastBy(t) \in 1..n /\ reached[LastBy(t)].at <= t
      BY <1>3, <1>5, <1>7
    <2>2. reached[i].at <= reached[LastBy(t)].at
      BY <1>2, <2>1
    <2> QED
      BY <1>1, <2>1, <2>2
  <1> QED
    BY <1>3, <1>5, <1>7, <1>8 DEF n

\* Nothing is decided yet.
LEMMA InitHolds == Init => IInv
  <1> SUFFICES ASSUME Init PROVE IInv
    OBVIOUS
  <1>1. setup.end \in Nat
    BY SetupIs DEF Init
  <1> USE DEF Init
  <1>2. TypeInv
    <2>1. now \in 0..setup.end
      BY <1>1
    <2>3. mode \in Modes
      BY DEF Modes
    <2>4. ended \in BOOLEAN
      OBVIOUS
    <2>2. \A S : <<>> \in Seq(S)
      BY EmptySeq
    <2> QED
      BY <2>1, <2>2, <2>3, <2>4 DEF TypeInv
  <1>3. Len(reached) = 0 /\ Len(decisions) = 0 /\ Len(heard) = 0
    OBVIOUS
  <1>4. WalkInv
    BY <1>3 DEF WalkInv
  <1>5. HeardInv /\ ScheduledInv
    BY DEF HeardInv, ScheduledInv
  <1> QED
    BY <1>2, <1>4, <1>5 DEF IInv

\* A decision, at the current tick, comes last and leaves the ticks before it as they were told.
LEMMA DecideHolds ==
  ASSUME IInv, NEW c \in Counts, Decide(c), reached = <<>> => now = 0
  PROVE  IInv'
  <1> DEFINE n == Len(reached)
             r == [at |-> now, count |-> c]
             d == [at |-> now, from |-> mode, to |-> mode']
  <1> USE DEF IInv
  <1>1. /\ ~ended /\ mode' = Select(c, mode) /\ reached' = Append(reached, r) /\ decisions' = Append(decisions, d)
        /\ setup' = setup /\ now' = now /\ segments' = segments /\ events' = events /\ ended' = ended /\ heard' = heard
    BY DEF Decide
  <1>2. setup.end \in Nat /\ now \in Nat /\ mode \in Modes /\ mode' \in Modes /\ n \in Nat /\ Len(decisions) = n
    BY <1>1, SetupIs, SelectIsMode DEF TypeInv, WalkInv
  <1>3. Counts' = Counts
    BY <1>1 DEF Counts, Levels
  <1>4. r \in [at : Nat, count : Counts] /\ d \in [at : Nat, from : Modes, to : Modes]
    BY <1>2
  <1>5. TypeInv'
    <2>1. reached' \in Seq([at : Nat, count : Counts]) /\ decisions' \in Seq([at : Nat, from : Modes, to : Modes])
      <3> HIDE DEF r, d
      <3> QED
        BY <1>1, <1>4, AppendProperties DEF TypeInv
    <2>2. heard' \in Seq([mode : Modes, count : Counts])
      BY <1>1 DEF TypeInv
    <2> QED
      BY <1>1, <1>2, <1>3, <2>1, <2>2 DEF TypeInv
  <1>6. /\ Len(reached') = n + 1 /\ reached'[n + 1] = r /\ \A i \in 1..n : reached'[i] = reached[i]
        /\ Len(decisions') = n + 1 /\ decisions'[n + 1] = d /\ \A i \in 1..n : decisions'[i] = decisions[i]
    <2> HIDE DEF r, d
    <2> QED
      BY <1>1, <1>2 DEF TypeInv
  <1>7. \A x, p : Select(x, p)' = Select(x, p)
    BY <1>1 DEF Select, SelectModcod, Representative, Levels
  <1>8. r.at = now /\ r.count = c /\ d.at = now /\ d.from = mode /\ d.to = mode'
    OBVIOUS
  <1> HIDE DEF r, d
  <1>9. WalkInv'
    <2>1. Len(decisions') = Len(reached') /\ Len(heard') = now' /\ reached' # <<>>
      BY <1>1, <1>2, <1>6 DEF WalkInv
    <2>2. reached'[1].at = 0 /\ mode' = decisions'[Len(decisions')].to
      <3>1. CASE n = 0
        BY <1>6, <1>8, <3>1 DEF TypeInv
      <3>2. CASE n # 0
        <4>1. reached # <<>> /\ 1 \in 1..n
          BY <1>2, <3>2
        <4> QED
          BY <1>6, <1>8, <4>1 DEF WalkInv
      <3> QED
        BY <3>1, <3>2
    <2>3. ASSUME NEW i \in 1..(n + 1)
          PROVE  /\ reached'[i].at <= now'
                 /\ decisions'[i].at = reached'[i].at
                 /\ decisions'[i].from = IF i = 1 THEN NoLock ELSE decisions'[i - 1].to
                 /\ decisions'[i].to = Select(reached'[i].count, decisions'[i].from)
      <3>1. CASE i \in 1..n
        <4>1. i = 1 \/ i - 1 \in 1..n
          BY <1>2
        <4> QED
          BY <1>1, <1>6, <3>1, <4>1 DEF WalkInv
      <3>2. CASE i = n + 1
        <4>1. reached'[i].at <= now' /\ decisions'[i].at = reached'[i].at
          BY <1>1, <1>2, <1>6, <1>8, <3>2
        <4>2. decisions'[i].to = Select(reached'[i].count, decisions'[i].from)
          BY <1>1, <1>6, <1>8, <3>2
        <4>3. decisions'[i].from = IF i = 1 THEN NoLock ELSE decisions'[i - 1].to
          <5>1. CASE n = 0
            <6>1. reached = <<>>
              BY <5>1 DEF TypeInv
            <6> QED
              BY <1>6, <1>8, <3>2, <5>1, <6>1 DEF WalkInv
          <5>2. CASE n # 0
            <6>1. reached # <<>> /\ i - 1 = n /\ n \in 1..n /\ i # 1
              BY <1>2, <3>2, <5>2
            <6>2. mode = decisions[n].to
              BY <1>2, <6>1 DEF WalkInv
            <6> QED
              BY <1>6, <1>8, <3>2, <6>1, <6>2
          <5> QED
            BY <5>1, <5>2
        <4> QED
          BY <4>1, <4>2, <4>3
      <3> QED
        BY <1>2, <3>1, <3>2
    <2>4. ASSUME NEW i \in 1..(n + 1), NEW k \in 1..(n + 1), i <= k
          PROVE  reached'[i].at <= reached'[k].at
      <3>1. CASE k \in 1..n
        <4>1. i \in 1..n
          BY <1>2, <2>4, <3>1
        <4> QED
          BY <1>6, <2>4, <3>1, <4>1 DEF WalkInv
      <3>2. CASE k = n + 1
        BY <1>1, <1>6, <1>8, <2>3, <3>2
      <3> QED
        BY <1>2, <3>1, <3>2
    <2>5. ASSUME NEW i \in 1..(n + 1) PROVE (decisions[i].to = Select(reached[i].count, decisions[i].from))'
      <3>1. PICK x, p : x = reached'[i].count /\ p = decisions'[i].from
        OBVIOUS
      <3>2. decisions'[i].to = Select(x, p)'
        BY <1>7, <2>3, <3>1
      <3> QED
        BY <3>1, <3>2
    <2> QED
      BY <1>6, <2>1, <2>2, <2>3, <2>4, <2>5 DEF WalkInv
  <1>10. HeardInv'
    <2> SUFFICES ASSUME NEW t \in 0..(now - 1)
                 PROVE  heard[t + 1].mode = ModeAt(t)' /\ heard[t + 1].count = CountAt(t)'
      BY <1>1 DEF HeardInv
    <2>1. reached # <<>> /\ t \in Nat /\ t < now
      BY <1>2 DEF WalkInv
    <2>2. LastBy(t) \in 1..n
      BY <2>1, LastByIs
    <2>3. {i \in DOMAIN reached' : reached'[i].at <= t} = {i \in DOMAIN reached : reached[i].at <= t}
      <3>1. DOMAIN reached = 1..n /\ DOMAIN reached' = 1..(n + 1)
        BY <1>6, <1>5 DEF TypeInv
      <3>2. ~(reached'[n + 1].at <= t)
        BY <1>2, <1>6, <1>8, <2>1
      <3>3. \A i : i \in 1..(n + 1) <=> i \in 1..n \/ i = n + 1
        BY <1>2
      <3> QED
        BY <1>6, <3>1, <3>2, <3>3
    <2>4. LastBy(t)' = LastBy(t)
      BY <2>3 DEF LastBy
    <2>5. ModeAt(t)' = ModeAt(t) /\ CountAt(t)' = CountAt(t)
      <3>1. CountAt(t) = reached[LastBy(t)].count /\ CountAt(t)' = reached'[LastBy(t)'].count
        BY DEF CountAt, LastBy
      <3>2. ModeAt(t) = decisions[LastBy(t)].to /\ ModeAt(t)' = decisions'[LastBy(t)'].to
        BY <2>1 DEF ModeAt
      <3> QED
        BY <1>6, <2>2, <2>4, <3>1, <3>2
    <2> QED
      BY <2>5 DEF HeardInv
  <1>11. ScheduledInv'
    BY <1>1 DEF ScheduledInv
  <1> QED
    BY <1>5, <1>9, <1>10, <1>11

\* As a tick ends, the last decision is the last by that tick: what is heard is what the walk will tell of it.
LEMMA TickHolds ==
  ASSUME IInv, Tick
  PROVE  IInv'
  <1> USE DEF IInv
  <1> DEFINE h == [mode |-> mode, count |-> LastCount]
             n == Len(reached)
  <1>1. /\ ~ended /\ reached # <<>> /\ now < setup.end /\ now' = now + 1 /\ heard' = Append(heard, h)
        /\ setup' = setup /\ mode' = mode /\ reached' = reached /\ decisions' = decisions
        /\ segments' = segments /\ events' = events /\ ended' = ended
    BY DEF Tick
  <1>2. setup.end \in Nat /\ now \in Nat /\ n \in Nat \ {0} /\ Len(heard) = now /\ Len(decisions) = n
    BY <1>1, SetupIs, SequencesAre DEF TypeInv, WalkInv
  <1>3. Counts' = Counts
    BY <1>1 DEF Counts, Levels
  <1>4. LastCount = reached[n].count /\ LastCount \in Counts
    BY <1>1, <1>2, SequencesAre DEF LastCount
  <1>5. h \in [mode : Modes, count : Counts]
    BY <1>4 DEF TypeInv
  <1>6. Len(heard') = now' /\ heard' \in Seq([mode : Modes, count : Counts])
        /\ heard'[now + 1] = h /\ \A i \in 1..now : heard'[i] = heard[i]
    <2>1. heard \in Seq([mode : Modes, count : Counts])
      BY DEF TypeInv
    <2> HIDE DEF h
    <2>2. heard' \in Seq([mode : Modes, count : Counts]) /\ Len(heard') = Len(heard) + 1
      BY <1>1, <1>5, <2>1, AppendProperties
    <2>3. heard'[Len(heard) + 1] = h /\ \A i \in 1..Len(heard) : heard'[i] = heard[i]
      BY <1>1, <1>5, <2>1, AppendProperties
    <2> QED
      BY <1>1, <1>2, <2>2, <2>3
  <1>7. TypeInv'
    BY <1>1, <1>2, <1>3, <1>6 DEF TypeInv
  <1>8. WalkInv'
    <2>1. \A i \in 1..n : reached[i].at <= now + 1
      BY <1>2, SequencesAre DEF WalkInv
    <2>2. \A x, p : Select(x, p)' = Select(x, p)
      BY <1>1 DEF Select, SelectModcod, Representative, Levels
    <2>3. ASSUME NEW i \in 1..n PROVE (decisions[i].to = Select(reached[i].count, decisions[i].from))'
      <3>1. PICK x, p : x = reached[i].count /\ p = decisions[i].from
        OBVIOUS
      <3>2. decisions[i].to = Select(x, p)'
        BY <2>2, <3>1 DEF WalkInv
      <3>3. x = reached'[i].count /\ p = decisions'[i].from
        BY <1>1, <3>1
      <3> QED
        BY <1>1, <3>2, <3>3
    <2> QED
      BY <1>1, <1>6, <2>1, <2>3 DEF WalkInv
  <1>9. HeardInv'
    <2>1. \A t : ModeAt(t)' = ModeAt(t) /\ CountAt(t)' = CountAt(t)
      BY <1>1 DEF ModeAt, LastBy, CountAt
    <2>2. LastBy(now) = n
      <3>1. /\ LastBy(now) \in 1..n
            /\ \A i \in 1..n : reached[i].at <= now <=> i <= LastBy(now)
        BY <1>1, <1>2, LastByIs
      <3>2. n \in 1..n /\ reached[n].at <= now
        BY <1>2 DEF WalkInv
      <3> QED
        BY <1>2, <3>1, <3>2
    <2>3. ModeAt(now) = mode /\ CountAt(now) = LastCount
      BY <1>1, <1>2, <1>4, <2>2 DEF ModeAt, CountAt, LastBy, WalkInv
    <2>4. ASSUME NEW t \in 0..now PROVE heard'[t + 1].mode = ModeAt(t) /\ heard'[t + 1].count = CountAt(t)
      <3>1. CASE t = now
        BY <1>6, <2>3, <3>1
      <3>2. CASE t # now
        <4>1. t \in 0..(now - 1) /\ t + 1 \in 1..now
          BY <1>2, <3>2
        <4> QED
          BY <1>6, <4>1 DEF HeardInv
      <3> QED
        BY <3>1, <3>2
    <2> QED
      BY <1>1, <1>2, <2>1, <2>4 DEF HeardInv
  <1>10. ScheduledInv'
    BY <1>1 DEF ScheduledInv
  <1> QED
    BY <1>7, <1>8, <1>9, <1>10

\* The walk's part of the invariant reads nothing that the schedule writes.
LEMMA StillHolds ==
  ASSUME IInv, UNCHANGED <<setup, now, mode, reached, decisions, heard>>, ended' \in BOOLEAN
  PROVE  TypeInv' /\ WalkInv' /\ HeardInv'
  <1> USE DEF IInv
  <1>1. Counts' = Counts
    BY DEF Counts, Levels
  <1>2. TypeInv'
    BY <1>1 DEF TypeInv
  <1>3. \A x, p : Select(x, p)' = Select(x, p)
    BY DEF Select, SelectModcod, Representative, Levels
  <1>4. ASSUME NEW i \in 1..Len(reached) PROVE (decisions[i].to = Select(reached[i].count, decisions[i].from))'
    <2>1. PICK x, p : x = reached[i].count /\ p = decisions[i].from
      OBVIOUS
    <2>2. decisions[i].to = Select(x, p)'
      BY <1>3, <2>1 DEF WalkInv
    <2>3. x = reached'[i].count /\ p = decisions'[i].from
      BY <2>1
    <2> QED
      BY <2>2, <2>3
  <1>5. WalkInv'
    BY <1>4 DEF WalkInv
  <1>6. HeardInv'
    <2>1. \A t : ModeAt(t)' = ModeAt(t) /\ CountAt(t)' = CountAt(t)
      BY DEF ModeAt, LastBy, CountAt
    <2> QED
      BY <2>1 DEF HeardInv
  <1> QED
    BY <1>2, <1>5, <1>6

\* The schedule of given changes depends on the setup and the counts reached only.
LEMMA SameSchedule ==
  ASSUME UNCHANGED <<setup, reached>>, NEW changes
  PROVE  SegmentsOf(changes)' = SegmentsOf(changes) /\ EventsOf(changes)' = EventsOf(changes)
  <1>1. \A d : Effective(d)' = Effective(d)
    BY DEF Effective
  <1>2. \A t : Until(t)' = Until(t)
    BY DEF Until
  <1>3. Switches(changes)' = Switches(changes)
    BY DEF Switches, Effective
  <1>4. Blackouts(changes)' = Blackouts(changes)
    BY DEF Blackouts, Effective, Until
  <1>5. Cuts(changes)' = Cuts(changes)
    BY <1>3, <1>4 DEF Cuts, Effective
  <1>6. \A t : InEffect(changes, t)' = InEffect(changes, t)
    BY <1>3 DEF InEffect, Effective
  <1>7. \A t : CountAt(t)' = CountAt(t)
    BY DEF CountAt
  <1>8. \A m, c : Meets(m, c)' = Meets(m, c)
    BY DEF Meets, Representative, Levels
  <1>9. \A t : Carried(changes, t)' = Carried(changes, t)
    <2> SUFFICES ASSUME NEW t PROVE Carried(changes, t)' = Carried(changes, t)
      OBVIOUS
    <2>1. PICK m, c, B : m = InEffect(changes, t) /\ c = CountAt(t) /\ B = Blackouts(changes)
      OBVIOUS
    <2>2. (m = InEffect(changes, t) /\ c = CountAt(t) /\ B = Blackouts(changes))'
      BY <1>4, <1>6, <1>7, <2>1
    <2>3. Meets(m, c)' = Meets(m, c)
      BY <1>8
    <2> QED
      BY <2>1, <2>2, <2>3 DEF Carried
  <1>10. Starts(changes)' = Starts(changes)
    BY <1>5, <1>9 DEF Starts
  <1>11. \A S : SegmentsFrom(changes, S)' = SegmentsFrom(changes, S)
    BY <1>9 DEF SegmentsFrom
  <1>12. SegmentsOf(changes)' = SegmentsOf(changes)
    <2>1. PICK S : S = Starts(changes)
      OBVIOUS
    <2>2. (S = Starts(changes))'
      BY <1>10, <2>1
    <2> QED
      BY <1>11, <2>1, <2>2 DEF SegmentsOf
  <1>13. EventsOf(changes)' = EventsOf(changes)
    BY DEF EventsOf, Effective, Until
  <1> QED
    BY <1>12, <1>13

\* The schedule is made of the whole walk, at the end of the pass.
LEMMA ScheduleHolds ==
  ASSUME IInv, Schedule
  PROVE  IInv'
  <1>1. ended' \in BOOLEAN /\ UNCHANGED <<setup, now, mode, reached, decisions, heard>>
    BY DEF Schedule
  <1>2. TypeInv' /\ WalkInv' /\ HeardInv'
    BY <1>1, StillHolds
  <1>3. PICK changes : changes = Merged(decisions)
    OBVIOUS
  <1>4. SegmentsOf(changes)' = SegmentsOf(changes) /\ EventsOf(changes)' = EventsOf(changes)
    BY <1>1, SameSchedule
  <1>5. (changes = Merged(decisions))'
    BY <1>1, <1>3
  <1>6. ScheduledInv'
    BY <1>1, <1>3, <1>4, <1>5 DEF ScheduledInv, Schedule
  <1> QED
    BY <1>2, <1>6 DEF IInv

\* Every step keeps the invariant.
LEMMA NextHolds == IInv /\ [Next]_vars => IInv'
  <1> SUFFICES ASSUME IInv, [Next]_vars PROVE IInv'
    OBVIOUS
  <1>1. ASSUME NEW c \in Counts, Acquire(c) PROVE IInv'
    BY <1>1, DecideHolds DEF Acquire, IInv, WalkInv
  <1>2. ASSUME NEW c \in Counts, Cross(c) PROVE IInv'
    BY <1>2, DecideHolds DEF Cross
  <1>3. ASSUME NEW c \in Counts, Sample(c) PROVE IInv'
    BY <1>3, DecideHolds DEF Sample
  <1>4. ASSUME Tick PROVE IInv'
    BY <1>4, TickHolds
  <1>5. ASSUME Schedule PROVE IInv'
    BY <1>5, ScheduleHolds
  <1>6. ASSUME UNCHANGED vars PROVE IInv'
    <2>1. UNCHANGED <<setup, now, mode, reached, decisions, heard, segments, events, ended>>
      BY <1>6 DEF vars
    <2>2. TypeInv' /\ WalkInv' /\ HeardInv'
      BY <2>1, StillHolds DEF IInv, TypeInv
    <2>3. PICK changes : changes = Merged(decisions)
      OBVIOUS
    <2>4. SegmentsOf(changes)' = SegmentsOf(changes) /\ EventsOf(changes)' = EventsOf(changes)
      BY <2>1, SameSchedule
    <2>5. (changes = Merged(decisions))'
      BY <2>1, <2>3
    <2>6. ScheduledInv'
      BY <2>1, <2>3, <2>4, <2>5 DEF ScheduledInv, IInv
    <2> QED
      BY <2>2, <2>6 DEF IInv
  <1> QED
    BY <1>1, <1>2, <1>3, <1>4, <1>5, <1>6 DEF Next

\* What is decided and heard is told by the walk alone: every decision is the rule's answer from the mode before it,
\* at a time no earlier; each tick was heard as the last decision by then; the schedule is the walk's (engine/acm.py).
THEOREM Walked == Spec => []IInv
  <1>1. Init => IInv
    BY InitHolds
  <1>2. IInv /\ [Next]_vars => IInv'
    BY NextHolds
  <1> QED
    BY <1>1, <1>2, PTL DEF Spec

\* The last answer of the rule is what it answers again, for every value of that count (SelectTwice, CountTells).
LEMMA Settled ==
  ASSUME IInv
  PROVE  RuleSettled
  <1> SUFFICES ASSUME reached # <<>>, NEW available \in (Least(Levels) - 1)..(Greatest(Levels) + 1), Count(available) = LastCount
               PROVE  SelectModcod(available, mode) = mode
    BY DEF RuleSettled
  <1> DEFINE n == Len(reached)
             p == decisions[n].from
             a == Representative(LastCount)
  <1>1. n \in 1..n /\ LastCount = reached[n].count /\ LastCount \in Counts /\ p \in Modes /\ setup \in Setups
    <2>1. TypeInv /\ WalkInv
      BY DEF IInv
    <2>2. n \in Nat /\ n # 0
      BY <2>1, SequencesAre
    <2> QED
      BY <2>1, <2>2, SequencesAre DEF LastCount, TypeInv, WalkInv
  <1>2. mode = SelectModcod(a, p)
    BY <1>1 DEF IInv, WalkInv, Select
  <1>3. a \in Int /\ Count(a) = LastCount /\ available \in Int
    BY <1>1, Represents
  <1> HIDE DEF a, p
  <1>4. SelectModcod(a, mode) = mode /\ mode \in Modes
    BY <1>1, <1>2, <1>3, SelectTwice DEF IInv, TypeInv
  <1>5. SelectModcod(available, mode) = SelectModcod(a, mode)
    BY <1>1, <1>3, <1>4, CountTells
  <1> QED
    BY <1>4, <1>5

\* Whatever the requirements and the hysteresis, one question at a crossing is enough: asked again, before the
\* next crossing, the rule answers the same (adaptation.select_modcod, acm_segments).
THEOREM RuleStaysSettled == Spec => []RuleSettled
  <1>1. IInv => RuleSettled
    BY Settled
  <1> QED
    BY <1>1, Walked, PTL

----------------------------------------------------------------------------
(* The history of the pass.                                                *)

\* The pass is over.
Over == TypeInv /\ WalkInv /\ HeardInv /\ reached # <<>> /\ now = setup.end

\* The ticks at which the mode changes.
Changes == {t \in 0..setup.end : ModeAt(t) # ModeAt(t - 1)}
ChangeAt(t) == [at |-> t, from |-> ModeAt(t - 1), to |-> ModeAt(t)]

\* What the walk leaves behind.
LEMMA OverIs ==
  ASSUME Over
  PROVE  /\ setup \in Setups /\ setup.end \in Nat /\ setup.delay \in Nat
         /\ Len(reached) \in Nat \ {0} /\ Len(decisions) = Len(reached) /\ DOMAIN decisions = 1..Len(reached) /\ DOMAIN reached = 1..Len(reached)
         /\ \A t \in Nat : LastBy(t) \in 1..Len(reached) /\ CountAt(t) = reached[LastBy(t)].count /\ CountAt(t) \in Counts
         /\ \A t \in Int : ModeAt(t) \in Modes /\ (t < 0 => ModeAt(t) = NoLock)
         /\ \A t \in Nat : \E p \in Modes : ModeAt(t) = SelectModcod(Representative(CountAt(t)), p)
  <1> USE DEF Over
  <1> DEFINE n == Len(reached)
  <1>1. setup \in Setups /\ setup.end \in Nat /\ setup.delay \in Nat
    BY SetupIs DEF TypeInv
  <1>2. /\ n \in Nat \ {0} /\ Len(decisions) = n /\ DOMAIN decisions = 1..n /\ DOMAIN reached = 1..n
        /\ \A i \in 1..n : reached[i].count \in Counts /\ decisions[i].to \in Modes /\ decisions[i].from \in Modes
        /\ \A i \in 1..n : decisions[i].to = Select(reached[i].count, decisions[i].from)
    BY SequencesAre DEF WalkInv
  <1>3. \A t \in Nat : LastBy(t) \in 1..n
    BY LastByIs
  <1>4. \A t \in Nat : CountAt(t) = reached[LastBy(t)].count /\ CountAt(t) \in Counts
    BY <1>2, <1>3 DEF CountAt, LastBy
  <1>5. \A t \in Nat : ModeAt(t) = decisions[LastBy(t)].to
    BY DEF ModeAt
  <1>6. \A t \in Int : ModeAt(t) \in Modes /\ (t < 0 => ModeAt(t) = NoLock)
    <2> SUFFICES ASSUME NEW t \in Int PROVE ModeAt(t) \in Modes /\ (t < 0 => ModeAt(t) = NoLock)
      OBVIOUS
    <2>1. CASE t < 0
      BY <2>1 DEF ModeAt, Modes
    <2>2. CASE ~(t < 0)
      <3>1. t \in Nat
        BY <2>2
      <3> QED
        BY <1>2, <1>3, <1>5, <2>2, <3>1
    <2> QED
      BY <2>1, <2>2
  <1>7. \A t \in Nat : \E p \in Modes : ModeAt(t) = SelectModcod(Representative(CountAt(t)), p)
    BY <1>2, <1>3, <1>4, <1>5 DEF Select
  <1> QED
    BY <1>1, <1>2, <1>3, <1>4, <1>6, <1>7

\* The times of the pass and of the changes.
LEMMA TimesAre ==
  ASSUME Over
  PROVE  /\ setup.end \in Nat /\ setup.delay \in Nat
         /\ \A t \in 0..(setup.end - 1) : t \in Nat /\ t < setup.end
         /\ \A u \in Changes : u \in 0..setup.end /\ u \in Nat
  <1>1. setup.end \in Nat /\ setup.delay \in Nat
    BY SetupIs DEF Over, TypeInv
  <1>2. \A u \in Changes : u \in 0..setup.end
    BY DEF Changes
  <1> QED
    BY <1>1, <1>2

\* Between changes the mode is the same.
LEMMA ModeSteady ==
  ASSUME Over, NEW u \in Int, NEW v \in Int, u <= v, v <= setup.end, \A w \in Changes : ~(u < w /\ w <= v)
  PROVE  ModeAt(v) = ModeAt(u)
  <1> DEFINE f == [t \in Int |-> ModeAt(t)]
  <1>1. setup.end \in Nat /\ \A t \in Int : t < 0 => ModeAt(t) = NoLock
    BY OverIs
  <1>2. \A t \in Int : f[t] = ModeAt(t)
    OBVIOUS
  <1>3. ASSUME NEW w \in (u + 1)..v PROVE f[w] = f[w - 1]
    <2>1. w \in Int /\ w - 1 \in Int /\ u < w /\ w <= v
      OBVIOUS
    <2>2. CASE w < 0
      BY <1>1, <1>2, <2>1, <2>2
    <2>3. CASE ~(w < 0)
      <3>1. w \in 0..setup.end /\ w \notin Changes
        BY <1>1, <2>1, <2>3
      <3> QED
        BY <1>2, <2>1, <3>1 DEF Changes
    <2> QED
      BY <2>2, <2>3
  <1> HIDE DEF f
  <1>4. f[v] = f[u]
    BY <1>3, Steady
  <1> QED
    BY <1>2, <1>4

\* The decisions of an instant made one lead from the mode before it to the mode after it.
LEMMA MergedIs ==
  ASSUME Over
  PROVE  Merged(decisions) = {ChangeAt(t) : t \in Changes}
  <1> DEFINE n == Len(reached)
             instants == {decisions[i].at : i \in DOMAIN decisions}
             during(t) == {i \in DOMAIN decisions : decisions[i].at = t}
             net(t) == [at |-> t, from |-> decisions[Least(during(t))].from, to |-> decisions[Greatest(during(t))].to]
  <1>1. Merged(decisions) = {d \in {net(t) : t \in instants} : d.from # d.to}
    BY DEF Merged
  <1>2. n \in Nat \ {0} /\ DOMAIN decisions = 1..n /\ setup.end \in Nat
    BY OverIs
  <1>3. \A i \in 1..n : decisions[i].at = reached[i].at /\ reached[i].at \in Nat /\ reached[i].at <= setup.end
    BY SequencesAre DEF Over, WalkInv
  <1>4. \A t \in Nat : LastBy(t) \in 1..n /\ \A i \in 1..n : reached[i].at <= t <=> i <= LastBy(t)
    BY LastByIs DEF Over
  <1>5. \A t \in Nat : ModeAt(t) = decisions[LastBy(t)].to
    BY DEF ModeAt
  <1>6. reached[1].at = 0 /\ \A i \in 1..n : decisions[i].from = IF i = 1 THEN NoLock ELSE decisions[i - 1].to
    BY DEF Over, WalkInv
  <1>o. \A i, k \in 1..n : i <= k => reached[i].at <= reached[k].at
    BY DEF Over, WalkInv
  <1> HIDE DEF n
  <1>7. ASSUME NEW t \in instants
        PROVE  t \in 0..setup.end /\ net(t) = ChangeAt(t)
    <2> DEFINE D == during(t)
    <2>1. \A i : i \in D <=> i \in 1..n /\ reached[i].at = t
      BY <1>2, <1>3
    <2>2. PICK k \in 1..n : reached[k].at = t
      BY <1>2, <1>3
    <2>3. t \in Nat /\ t \in 0..setup.end /\ D # {} /\ (\A i \in D : i \in Int) /\ (\A i \in D : i <= n) /\ (\A i \in D : 1 <= i) /\ 1 \in Int /\ n \in Int
      BY <1>2, <1>3, <2>1, <2>2
    <2> HIDE DEF D
    <2>4. Greatest(D) \in D /\ \A i \in D : i <= Greatest(D)
      BY <2>3, GreatestIs
    <2>5. Least(D) \in D /\ \A i \in D : Least(D) <= i
      BY <2>3, LeastIs
    <2>6. Greatest(D) = LastBy(t)
      <3>1. PICK g, b : g = Greatest(D) /\ b = LastBy(t)
        OBVIOUS
      <3>2. g \in 1..n /\ reached[g].at = t /\ b \in 1..n /\ \A x \in 1..n : reached[x].at <= t <=> x <= b
        BY <1>4, <2>1, <2>3, <2>4, <3>1
      <3>3. g <= b
        BY <2>3, <3>2
      <3>4. reached[b].at <= t /\ t <= reached[b].at /\ reached[b].at \in Nat
        BY <1>o, <1>2, <1>3, <3>2, <3>3
      <3>5. b \in D
        BY <2>1, <2>3, <3>2, <3>4
      <3>6. b <= g
        BY <2>4, <3>1, <3>5
      <3> QED
        BY <3>1, <3>2, <3>3, <3>6
    <2>7. decisions[Least(D)].from = ModeAt(t - 1)
      <3>a. PICK l : l = Least(D)
        OBVIOUS
      <3>1. l \in 1..n /\ reached[l].at = t /\ \A i \in 1..n : reached[i].at = t => l <= i
        BY <2>1, <2>5, <3>a
      <3>2. CASE l = 1
        <4>1. t = 0 /\ t - 1 < 0
          BY <1>6, <3>1, <3>2
        <4> QED
          BY <1>6, <3>a, <3>1, <3>2, <4>1 DEF ModeAt
      <3>3. CASE l # 1
        <4>1. PICK j \in 1..n : j < l /\ l = j + 1 /\ j = l - 1
          BY <1>2, <3>1, <3>3
        <4>2. reached[j].at <= t /\ reached[j].at # t
          <5>1. reached[j].at <= reached[l].at
            BY <1>2, <1>o, <3>1, <4>1
          <5>2. ~(l <= j)
            BY <3>1, <4>1
          <5> QED
            BY <3>1, <4>1, <5>1, <5>2
        <4>3. t - 1 \in Nat /\ reached[j].at <= t - 1 /\ ~(reached[l].at <= t - 1)
          BY <1>3, <2>3, <3>1, <4>1, <4>2
        <4>4. PICK b \in 1..n : b = LastBy(t - 1) /\ j <= b /\ ~(l <= b)
          BY <1>4, <3>1, <4>1, <4>3
        <4>5. b = j
          BY <3>1, <4>1, <4>4
        <4> QED
          BY <1>5, <1>6, <3>a, <3>1, <3>3, <4>1, <4>3, <4>4, <4>5
      <3> QED
        BY <3>2, <3>3
    <2>8. decisions[Greatest(D)].to = ModeAt(t)
      BY <1>5, <2>3, <2>6
    <2> QED
      BY <2>3, <2>7, <2>8 DEF ChangeAt, D
  <1>8. ASSUME NEW t \in Changes PROVE t \in instants
    <2>1. t \in Nat /\ ModeAt(t) # ModeAt(t - 1) /\ t - 1 \in Int
      BY <1>2 DEF Changes
    <2>2. ASSUME \A i \in 1..n : reached[i].at # t PROVE FALSE
      <3>1. t # 0 /\ t - 1 \in Nat
        BY <1>2, <1>6, <2>1, <2>2
      <3>2. \A i \in 1..n : reached[i].at <= t <=> reached[i].at <= t - 1
        BY <1>3, <2>1, <2>2
      <3>3. \A i \in 1..n : i <= LastBy(t) <=> i <= LastBy(t - 1)
        BY <1>4, <2>1, <3>1, <3>2
      <3>4. LastBy(t) \in 1..n /\ LastBy(t - 1) \in 1..n
        BY <1>4, <2>1, <3>1
      <3>5. LastBy(t) = LastBy(t - 1)
        BY <1>2, <3>3, <3>4
      <3> QED
        BY <1>5, <2>1, <3>1, <3>5
    <2> QED
      BY <1>2, <1>3, <2>2
  <1> HIDE DEF instants, net
  <1>9. ASSUME NEW d PROVE d \in Merged(decisions) <=> d \in {ChangeAt(t) : t \in Changes}
    <2>1. d \in Merged(decisions) <=> (\E t \in instants : d = net(t)) /\ d.from # d.to
      BY <1>1
    <2>2. \A t : ChangeAt(t).from = ModeAt(t - 1) /\ ChangeAt(t).to = ModeAt(t)
      BY DEF ChangeAt
    <2>3. \A t \in instants : ModeAt(t - 1) # ModeAt(t) => t \in Changes
      BY <1>7 DEF Changes
    <2>4. \A t \in Changes : ModeAt(t - 1) # ModeAt(t)
      BY DEF Changes
    <2>5. ASSUME NEW t \in instants, d = net(t), d.from # d.to PROVE \E x \in Changes : d = ChangeAt(x)
      BY <1>7, <2>2, <2>3, <2>5
    <2>6. ASSUME NEW t \in Changes, d = ChangeAt(t) PROVE (\E x \in instants : d = net(x)) /\ d.from # d.to
      BY <1>7, <1>8, <2>2, <2>4, <2>6
    <2> QED
      BY <2>1, <2>5, <2>6
  <1> QED
    BY <1>9

\* The last change by a time made the mode of that time.
LEMMA LastChange ==
  ASSUME Over, NEW k \in Int, k <= setup.end
  PROVE  /\ (\A u \in Changes : ~(u <= k)) => ModeAt(k) = NoLock
         /\ \A g \in Changes : g <= k /\ (\A u \in Changes : u <= k => u <= g) => ModeAt(k) = ModeAt(g)
  <1>1. setup.end \in Nat /\ (\A t \in Int : t < 0 => ModeAt(t) = NoLock) /\ \A u \in Changes : u \in Int
    BY OverIs DEF Changes
  <1>2. ASSUME \A u \in Changes : ~(u <= k) PROVE ModeAt(k) = NoLock
    <2>1. CASE k < 0
      BY <1>1, <2>1
    <2>2. CASE ~(k < 0)
      <3>1. -1 \in Int /\ -1 <= k /\ \A w \in Changes : ~(-1 < w /\ w <= k)
        BY <1>2, <2>2
      <3>2. ModeAt(k) = ModeAt(-1)
        BY <3>1, ModeSteady
      <3> QED
        BY <1>1, <3>2
    <2> QED
      BY <2>1, <2>2
  <1>3. ASSUME NEW g \in Changes, g <= k, \A u \in Changes : u <= k => u <= g PROVE ModeAt(k) = ModeAt(g)
    <2>1. g \in Int /\ \A w \in Changes : ~(g < w /\ w <= k)
      BY <1>1, <1>3
    <2> QED
      BY <1>3, <2>1, ModeSteady
  <1> QED
    BY <1>2, <1>3

\* What is in effect is what was decided a delay ago.
LEMMA InEffectIs ==
  ASSUME Over, NEW t \in 0..(setup.end - 1)
  PROVE  InEffect(Merged(decisions), t) = ModeAt(t - setup.delay)
  <1> DEFINE past == {d \in Switches(Merged(decisions)) : Effective(d) <= t}
             T == {u \in Changes : u <= t - setup.delay}
  <1>1. /\ setup.end \in Nat /\ setup.delay \in Nat /\ t \in Nat /\ t < setup.end
        /\ \A u \in Changes : u \in Nat
    BY TimesAre
  <1>2. PICK k \in Int : k = t - setup.delay /\ k <= setup.end
    BY <1>1
  <1>3. ASSUME NEW d PROVE d \in past <=> \E u \in T : d = ChangeAt(u)
    <2>1. d \in past <=> d \in Merged(decisions) /\ d.at + setup.delay < setup.end /\ d.at + setup.delay <= t
      BY DEF Switches, Effective
    <2>2. d \in Merged(decisions) <=> \E u \in Changes : d = ChangeAt(u)
      BY MergedIs
    <2>3. \A u : ChangeAt(u).at = u
      BY DEF ChangeAt
    <2>4. \A u \in Changes : u + setup.delay < setup.end /\ u + setup.delay <= t <=> u <= k
      BY <1>1, <1>2
    <2> HIDE DEF past
    <2>5. \A u : u \in T <=> u \in Changes /\ u <= k
      BY <1>2
    <2> HIDE DEF T
    <2> QED
      BY <2>1, <2>2, <2>3, <2>4, <2>5
  <1>4. InEffect(Merged(decisions), t) = IF past = {} THEN NoLock ELSE Latest(past)
    BY DEF InEffect
  <1>5. \A u : u \in T <=> u \in Changes /\ u <= k
    BY <1>2
  <1> HIDE DEF past, T
  <1>6. CASE past = {}
    <2>1. \A u \in Changes : ~(u <= k)
      BY <1>3, <1>5, <1>6
    <2> QED
      BY <1>2, <1>4, <1>6, <2>1, LastChange
  <1>7. CASE past # {}
    <2>1. T # {} /\ (\A u \in T : u \in Int) /\ (\A u \in T : u <= k)
      BY <1>1, <1>3, <1>5, <1>7
    <2>2. PICK g \in T : \A u \in T : u <= g
      BY <1>2, <2>1, GreatestIs
    <2>3. \A u : ChangeAt(u).at = u /\ ChangeAt(u).to = ModeAt(u)
      BY DEF ChangeAt
    <2>4. ChangeAt(g) \in past /\ \A d \in past : d.at <= ChangeAt(g).at
      BY <1>3, <2>2, <2>3
    <2>5. PICK d \in past : Latest(past) = d.to /\ \A other \in past : other.at <= d.at
      BY <2>4 DEF Latest
    <2>6. PICK u \in T : d = ChangeAt(u)
      BY <1>3
    <2>7. g <= u /\ u <= g
      BY <2>2, <2>3, <2>4, <2>5, <2>6
    <2>8. u = g
      BY <2>1, <2>7
    <2>9. ModeAt(k) = ModeAt(g)
      BY <1>2, <1>5, <2>2, LastChange
    <2> QED
      BY <1>2, <1>4, <1>7, <2>3, <2>5, <2>6, <2>8, <2>9
  <1> QED
    BY <1>6, <1>7

\* A downgrade still on its way is a blackout.
LEMMA OnItsWay ==
  ASSUME Over, NEW t \in 0..(setup.end - 1), NEW u \in Changes, ModeAt(u) < ModeAt(u - 1), u <= t, t < u + setup.delay
  PROVE  \E b \in Blackouts(Merged(decisions)) : b.from <= t /\ t < b.until
  <1>1. setup.end \in Nat /\ setup.delay \in Nat /\ t \in Nat /\ t < setup.end /\ u \in Nat
    BY TimesAre
  <1>2. PICK d : d = ChangeAt(u)
    OBVIOUS
  <1>3. d \in Merged(decisions) /\ d.at = u /\ d.to < d.from /\ setup.delay > 0
    BY <1>1, <1>2, MergedIs DEF ChangeAt
  <1>4. PICK b : b = [from |-> d.at, until |-> Until(Effective(d))]
    OBVIOUS
  <1>5. b \in Blackouts(Merged(decisions))
    BY <1>3, <1>4 DEF Blackouts
  <1>6. b.from = u /\ b.until = Until(u + setup.delay)
    BY <1>3, <1>4 DEF Effective
  <1>7. t < Until(u + setup.delay)
    BY <1>1 DEF Until
  <1> QED
    BY <1>5, <1>6, <1>7

\* Received is what the link carries of a mode: the model's history of the pass, told without the walk.
LEMMA CarriedIs ==
  ASSUME Over, NEW t \in 0..(setup.end - 1)
  PROVE  Carried(Merged(decisions), t) = Received(ModeAt(t - setup.delay), CountAt(t))
  <1> DEFINE black == \E b \in Blackouts(Merged(decisions)) : b.from <= t /\ t < b.until
  <1>1. /\ setup \in Setups /\ setup.end \in Nat /\ setup.delay \in Nat /\ t \in Nat /\ t < setup.end
        /\ CountAt(t) \in Counts /\ \A x \in Int : ModeAt(x) \in Modes /\ (x < 0 => ModeAt(x) = NoLock)
    <2>1. setup.end \in Nat /\ setup.delay \in Nat /\ t \in Nat /\ t < setup.end
      BY TimesAre
    <2> QED
      BY <2>1, OverIs
  <1>2. PICK p \in Modes : ModeAt(t) = SelectModcod(Representative(CountAt(t)), p)
    BY <1>1, OverIs
  <1>u. PICK u \in Int : u = t - setup.delay
    BY <1>1
  <1>3. PICK m, c, a, top : u = t - setup.delay /\ m = ModeAt(u) /\ c = CountAt(t) /\ a = Representative(c) /\ top = ModeAt(t)
    BY <1>u
  <1>4. a \in Int /\ c \in Counts /\ m \in Modes /\ top \in Modes /\ (c = 0 => \A k \in Modcods : a < Required[k])
    BY <1>1, <1>3, Represents
  <1>5. /\ \A k \in Modcods : Required[k] \in Int
        /\ \A i, k \in Modcods : i < k => Required[i] < Required[k]
        /\ \A k \in Modcods : k \in Nat /\ k # NoLock
    BY RequiredRises DEF Modcods, NoLock
  <1>6. \A k \in Modcods : Meets(k, c) <=> ~(Required[k] > a)
    <2>1. c \in Nat
      BY <1>4 DEF Counts
    <2>2. \A k \in Modcods : Meets(k, c) <=> c > 0 /\ a >= Required[k]
      BY <1>3 DEF Meets
    <2> QED
      BY <1>4, <1>5, <2>1, <2>2
  <1>7. InEffect(Merged(decisions), t) = m
    BY <1>3, InEffectIs
  <1>8. Carried(Merged(decisions), t) = IF m # NoLock /\ black /\ ~Meets(m, c) THEN NoLock ELSE m
    BY <1>3, <1>7 DEF Carried
  <1>9. Received(m, c) = IF m # NoLock /\ Required[m] > a THEN NoLock ELSE m
    BY <1>3 DEF Received
  <1>10. ASSUME m # NoLock, ~black PROVE Meets(m, c)
    <2>1. m \in Modcods /\ u <= t /\ ~(u < 0)
      BY <1>1, <1>3, <1>4, <1>10 DEF Modes
    <2> DEFINE f == [x \in Int |-> ModeAt(x)]
    <2>2. \A x \in Int : f[x] = ModeAt(x) /\ f[x] \in Int
      BY <1>1, <1>5 DEF Modes, NoLock
    <2>3. ASSUME NEW w \in (u + 1)..t PROVE f[w - 1] <= f[w]
      <3>1. w \in Int /\ w - 1 \in Int /\ w \in 0..setup.end /\ w <= t /\ t < w + setup.delay
        BY <1>1, <1>3, <2>1
      <3>2. CASE w \in Changes
        <4>1. ~(ModeAt(w) < ModeAt(w - 1))
          BY <1>10, <3>1, <3>2, OnItsWay
        <4> QED
          BY <2>2, <3>1, <4>1
      <3>3. CASE w \notin Changes
        BY <2>2, <3>1, <3>3 DEF Changes
      <3> QED
        BY <3>2, <3>3
    <2>4. \A w \in u..t : f[w] \in Int
      BY <2>2
    <2> HIDE DEF f
    <2>5. f[u] <= f[t]
      BY <1>1, <2>1, <2>3, <2>4, Rising
    <2>6. m <= top
      BY <1>1, <1>3, <2>2, <2>5
    <2>7. top \in Modcods /\ top # NoLock
      BY <1>4, <1>5, <2>1, <2>6 DEF Modes, NoLock
    <2>8. a >= Required[top]
      <3>1. a >= Required[top] + IF p # NoLock /\ a >= Required[p] /\ top > p THEN setup.hysteresis ELSE 0
        BY <1>1, <1>2, <1>3, <1>4, <2>7, SelectIs
      <3>2. setup.hysteresis \in Nat
        BY <1>1, SetupIs
      <3> QED
        BY <1>4, <1>5, <2>7, <3>1, <3>2
    <2>9. Required[m] <= Required[top]
      BY <1>5, <2>1, <2>6, <2>7
    <2> QED
      BY <1>4, <1>5, <1>6, <2>1, <2>7, <2>8, <2>9
  <1> HIDE DEF black
  <1>11. m # NoLock => m \in Modcods
    BY <1>4 DEF Modes
  <1>12. Carried(Merged(decisions), t) = Received(m, c)
    BY <1>6, <1>8, <1>9, <1>10, <1>11
  <1> QED
    BY <1>3, <1>12

----------------------------------------------------------------------------
(* The segments.                                                           *)

\* The cuts are times of the pass, its start one of them.
LEMMA CutsWithin ==
  ASSUME Over
  PROVE  Cuts(Merged(decisions)) \in SUBSET (0..setup.end) /\ 0 \in Cuts(Merged(decisions))
  <1> DEFINE M == Merged(decisions)
             B == Blackouts(M)
  <1>1. setup.end \in Nat /\ setup.delay \in Nat /\ DOMAIN reached = 1..Len(reached)
    BY OverIs
  <1>2. \A d \in M : d.at \in 0..setup.end
    <2>1. \A d \in M : \E u \in Changes : d = ChangeAt(u)
      BY MergedIs
    <2>2. \A u \in Changes : u \in 0..setup.end /\ ChangeAt(u).at = u
      BY DEF Changes, ChangeAt
    <2> QED
      BY <2>1, <2>2
  <1>3. \A i \in 1..Len(reached) : reached[i].at \in 0..setup.end
    BY <1>1, SequencesAre DEF Over, WalkInv
  <1> HIDE DEF M
  <1>4. \A d \in M : Effective(d) \in Nat /\ Until(Effective(d)) \in 0..setup.end
    BY <1>1, <1>2 DEF Effective, Until
  <1>5. \A d \in Switches(M) : Effective(d) \in 0..setup.end
    BY <1>1, <1>4 DEF Switches
  <1>6. \A b \in B : b.from \in 0..setup.end /\ b.until \in 0..setup.end
    <2>1. \A b \in B : \E d \in M : b = [from |-> d.at, until |-> Until(Effective(d))]
      BY DEF Blackouts
    <2> QED
      BY <1>2, <1>4, <2>1
  <1> HIDE DEF B
  <1>7. ASSUME NEW x \in Cuts(M) PROVE x \in 0..setup.end
    <2>1. \/ x \in {0, setup.end}
          \/ \E d \in Switches(M) : x = Effective(d)
          \/ \E b \in B : x = b.from \/ x = b.until
          \/ \E i \in DOMAIN reached : x = reached[i].at
      BY DEF Cuts, B
    <2> QED
      BY <1>1, <1>3, <1>5, <1>6, <2>1
  <1>8. 0 \in Cuts(M)
    BY DEF Cuts
  <1> QED
    BY <1>7, <1>8 DEF M

\* Between cuts what is carried is the same.
LEMMA CutsTell ==
  ASSUME Over, NEW w \in 1..(setup.end - 1), w \notin Cuts(Merged(decisions))
  PROVE  Carried(Merged(decisions), w) = Carried(Merged(decisions), w - 1)
  <1> DEFINE M == Merged(decisions)
             B == Blackouts(M)
             black(t) == \E b \in B : b.from <= t /\ t < b.until
  <1>1. /\ setup.end \in Nat /\ setup.delay \in Nat /\ DOMAIN reached = 1..Len(reached) /\ Len(reached) \in Nat
        /\ w \in Nat /\ w - 1 \in Nat /\ w < setup.end /\ w \in 0..(setup.end - 1) /\ w - 1 \in 0..(setup.end - 1)
        /\ \A x \in Int : x < 0 => ModeAt(x) = NoLock
    <2>1. setup.end \in Nat
      BY TimesAre
    <2>2. w \in Nat /\ w - 1 \in Nat /\ w < setup.end /\ w \in 0..(setup.end - 1) /\ w - 1 \in 0..(setup.end - 1)
      BY <2>1
    <2> QED
      BY <2>2, OverIs
  <1>2. InEffect(M, w) = InEffect(M, w - 1)
    <2>1. InEffect(M, w) = ModeAt(w - setup.delay) /\ InEffect(M, w - 1) = ModeAt((w - 1) - setup.delay)
      BY <1>1, InEffectIs
    <2>2. PICK u \in Int : u = w - setup.delay /\ u - 1 = (w - 1) - setup.delay /\ u <= setup.end /\ u - 1 \in Int
      BY <1>1
    <2>3. ASSUME u \in Changes PROVE FALSE
      <3>1. PICK d : d = ChangeAt(u)
        OBVIOUS
      <3>2. d \in M /\ d.at = u
        BY <2>3, <3>1, MergedIs DEF ChangeAt
      <3>3. Effective(d) = w
        BY <1>1, <2>2, <3>2 DEF Effective
      <3>4. d \in Switches(M)
        BY <1>1, <3>2, <3>3 DEF Switches
      <3> HIDE DEF M
      <3>5. w \in Cuts(M)
        BY <3>3, <3>4 DEF Cuts
      <3> QED
        BY <3>5 DEF M
    <2>4. ModeAt(u) = ModeAt(u - 1)
      <3>1. CASE u < 0
        BY <1>1, <2>2, <3>1
      <3>2. CASE ~(u < 0)
        <4>1. u \in 0..setup.end
          BY <1>1, <2>2, <3>2
        <4> QED
          BY <2>3, <4>1 DEF Changes
      <3> QED
        BY <3>1, <3>2
    <2> QED
      BY <2>1, <2>2, <2>4
  <1>3. \A b \in B : b.from \in Int /\ b.until \in Int /\ w # b.from /\ w # b.until
    <2>1. \A b \in B : b.from \in Cuts(M) /\ b.until \in Cuts(M)
      BY DEF Cuts
    <2>2. \A x \in Cuts(M) : x \in Int /\ x # w
      BY <1>1, CutsWithin
    <2> HIDE DEF B, M
    <2> QED
      BY <2>1, <2>2
  <1>4. \A b \in B : b.from <= w /\ w < b.until <=> b.from <= w - 1 /\ w - 1 < b.until
    BY <1>1, <1>3
  <1>5. black(w) <=> black(w - 1)
    BY <1>4
  <1>6. ASSUME black(w) PROVE CountAt(w) = CountAt(w - 1)
    <2>1. PICK b \in B : b.from < w /\ w < b.until
      BY <1>1, <1>3, <1>6
    <2>2. \A i \in DOMAIN reached : reached[i].at # w
      <3>1. \A t \in {reached[i].at : i \in DOMAIN reached} : b.from < t /\ t < b.until => t \in Cuts(M)
        BY DEF Cuts
      <3> QED
        BY <2>1, <3>1
    <2>3. \A i \in DOMAIN reached : reached[i].at \in Nat
      BY <1>1, SequencesAre DEF Over
    <2>4. \A i \in DOMAIN reached : reached[i].at <= w <=> reached[i].at <= w - 1
      BY <1>1, <2>2, <2>3
    <2>5. {i \in DOMAIN reached : reached[i].at <= w} = {i \in DOMAIN reached : reached[i].at <= w - 1}
      BY <2>4
    <2> QED
      BY <2>5 DEF CountAt
  <1>7. \A t : Carried(M, t) = IF InEffect(M, t) # NoLock /\ black(t) /\ ~Meets(InEffect(M, t), CountAt(t)) THEN NoLock ELSE InEffect(M, t)
    BY DEF Carried
  <1> HIDE DEF M, B, black
  <1>8. Carried(M, w) = Carried(M, w - 1)
    BY <1>2, <1>5, <1>6, <1>7
  <1> QED
    BY <1>8 DEF M

\* The time before a start is carried as the cut before it.
LEMMA StartsAre ==
  ASSUME Over
  PROVE  Starts(Merged(decisions))
           = {t \in 0..(setup.end - 1) : t = 0 \/ Carried(Merged(decisions), t) # Carried(Merged(decisions), t - 1)}
  <1> DEFINE M == Merged(decisions)
             cuts == Cuts(M)
             before(t) == Greatest({c \in cuts : c < t})
             K(t) == Carried(M, t)
  <1>1. setup.end \in Nat
    BY TimesAre
  <1>2. (\A c \in cuts : c \in 0..setup.end /\ c \in Int) /\ 0 \in cuts
    BY CutsWithin
  <1>3. \A w \in 1..(setup.end - 1) : w \notin cuts => K(w) = K(w - 1)
    BY CutsTell
  <1>4. \A t : t \in Starts(M) <=> t \in cuts /\ t # setup.end /\ (t = 0 \/ K(t) # K(before(t)))
    BY DEF Starts
  <1> HIDE DEF cuts, K
  <1>5. ASSUME NEW t \in cuts, t # 0 PROVE K(before(t)) = K(t - 1)
    <2> DEFINE S == {c \in cuts : c < t}
    <2>1. t \in Int /\ t <= setup.end /\ 0 < t /\ 0 \in S /\ (\A c \in S : c \in Int) /\ (\A c \in S : c <= t) /\ S # {}
      BY <1>1, <1>2, <1>5
    <2>2. \A c : c \in S <=> c \in cuts /\ c < t
      OBVIOUS
    <2> HIDE DEF S
    <2>3. PICK g \in S : g = Greatest(S) /\ \A c \in S : c <= g
      BY <2>1, GreatestIs
    <2>4. g \in Int /\ 0 <= g /\ g <= t - 1 /\ t - 1 \in Int
      BY <2>1, <2>2, <2>3
    <2> DEFINE f == [x \in Int |-> K(x)]
    <2>5. \A x \in Int : f[x] = K(x)
      OBVIOUS
    <2>6. ASSUME NEW w \in (g + 1)..(t - 1) PROVE f[w] = f[w - 1]
      <3>1. w \in Int /\ w - 1 \in Int /\ w \in 1..(setup.end - 1) /\ g < w /\ w < t
        BY <1>1, <2>1, <2>4
      <3>2. w \notin cuts
        BY <2>2, <2>3, <2>4, <3>1
      <3> QED
        BY <1>3, <2>5, <3>1, <3>2
    <2> HIDE DEF f
    <2>7. f[t - 1] = f[g]
      BY <2>4, <2>6, Steady
    <2>8. K(t - 1) = K(g)
      BY <2>4, <2>5, <2>7
    <2> QED
      BY <2>3, <2>8 DEF S
  <1>6. ASSUME NEW t PROVE t \in Starts(M) <=> t \in 0..(setup.end - 1) /\ (t = 0 \/ K(t) # K(t - 1))
    <2> HIDE DEF before, M
    <2>1. ASSUME t \in Starts(M) PROVE t \in 0..(setup.end - 1) /\ (t = 0 \/ K(t) # K(t - 1))
      <3>1. t \in cuts /\ t # setup.end /\ (t = 0 \/ K(t) # K(before(t)))
        BY <1>4, <2>1
      <3>2. t \in 0..(setup.end - 1)
        BY <1>1, <1>2, <3>1
      <3> QED
        BY <1>5, <3>1, <3>2
    <2>2. ASSUME t \in 0..(setup.end - 1), t = 0 \/ K(t) # K(t - 1) PROVE t \in Starts(M)
      <3>1. t \in cuts
        <4>1. CASE t = 0
          BY <1>2, <4>1
        <4>2. CASE t # 0
          <5>1. t \in 1..(setup.end - 1)
            BY <1>1, <2>2, <4>2
          <5> QED
            BY <1>3, <2>2, <4>2, <5>1
        <4> QED
          BY <4>1, <4>2
      <3>2. t # setup.end
        BY <1>1, <2>2
      <3>3. t = 0 \/ K(t) # K(before(t))
        BY <1>5, <2>2, <3>1
      <3> QED
        BY <1>4, <3>1, <3>2, <3>3
    <2> QED
      BY <2>1, <2>2
  <1> QED
    BY <1>6 DEF K

\* The segments are what is carried, from each start to the next.
LEMMA SegmentsAre ==
  ASSUME Over, segments = SegmentsOf(Merged(decisions)), NEW S, S = Starts(Merged(decisions))
  PROVE  /\ S \in SUBSET (0..setup.end) /\ IsFiniteSet(S) /\ Cardinality(S) \in Nat
         /\ DOMAIN segments = 1..Cardinality(S) /\ Len(segments) = Cardinality(S) /\ (segments = <<>> <=> Cardinality(S) = 0)
         /\ \A n \in 1..Cardinality(S) :
              /\ segments[n].start = Nth(S, n)
              /\ segments[n].end = IF n = Cardinality(S) THEN setup.end ELSE Nth(S, n + 1)
              /\ segments[n].mode = Carried(Merged(decisions), Nth(S, n))
         /\ \A n \in 1..Cardinality(S) : Nth(S, n) \in S
         /\ \A x \in S : \E n \in 1..Cardinality(S) : x = Nth(S, n)
         /\ \A m, n \in 1..Cardinality(S) : m < n <=> Nth(S, m) < Nth(S, n)
         /\ \A t \in S : t \in Nat /\ t < setup.end /\ (t # 0 => Carried(Merged(decisions), t) # Carried(Merged(decisions), t - 1))
         /\ setup.end > 0 => 0 \in S
  <1>1. setup.end \in Nat
    BY TimesAre
  <1>2. \A t : t \in S <=> t \in 0..(setup.end - 1) /\ (t = 0 \/ Carried(Merged(decisions), t) # Carried(Merged(decisions), t - 1))
    BY StartsAre
  <1>3. S \in SUBSET (0..setup.end)
    BY <1>1, <1>2
  <1>4. /\ IsFiniteSet(S) /\ Cardinality(S) \in Nat
        /\ \A n \in 1..Cardinality(S) : Nth(S, n) \in S
        /\ \A x \in S : \E n \in 1..Cardinality(S) : x = Nth(S, n)
        /\ \A m, n \in 1..Cardinality(S) : m < n <=> Nth(S, m) < Nth(S, n)
    BY <1>1, <1>3, NthIs
  <1> DEFINE record(n) == [start |-> Nth(S, n),
                           end |-> IF n = Cardinality(S) THEN setup.end ELSE Nth(S, n + 1),
                           mode |-> Carried(Merged(decisions), Nth(S, n))]
  <1>5. segments = [n \in 1..Cardinality(S) |-> record(n)]
    BY DEF SegmentsOf, SegmentsFrom
  <1>6. \A n : /\ record(n).start = Nth(S, n)
               /\ record(n).end = IF n = Cardinality(S) THEN setup.end ELSE Nth(S, n + 1)
               /\ record(n).mode = Carried(Merged(decisions), Nth(S, n))
    OBVIOUS
  <1> HIDE DEF record
  <1>7. DOMAIN segments = 1..Cardinality(S) /\ \A n \in 1..Cardinality(S) : segments[n] = record(n)
    BY <1>5
  <1>8. segments \in Seq({record(n) : n \in 1..Cardinality(S)}) /\ Len(segments) = Cardinality(S)
    BY <1>4, <1>5
  <1>9. segments = <<>> <=> Cardinality(S) = 0
    BY <1>8, EmptySeq
  <1>10. \A t \in S : t \in Nat /\ t < setup.end /\ (t # 0 => Carried(Merged(decisions), t) # Carried(Merged(decisions), t - 1))
    BY <1>1, <1>2
  <1>11. setup.end > 0 => 0 \in S
    BY <1>1, <1>2
  <1> QED
    BY <1>3, <1>4, <1>6, <1>7, <1>8, <1>9, <1>10, <1>11

\* Between starts what is carried is the same.
LEMMA StartsTell ==
  ASSUME Over, NEW u \in 0..(setup.end - 1), NEW v \in 0..(setup.end - 1), u <= v,
         \A w \in Starts(Merged(decisions)) : ~(u < w /\ w <= v)
  PROVE  Carried(Merged(decisions), v) = Carried(Merged(decisions), u)
  <1> DEFINE f == [x \in Int |-> Carried(Merged(decisions), x)]
  <1>1. setup.end \in Nat /\ u \in Int /\ v \in Int
    BY TimesAre
  <1>2. \A x \in Int : f[x] = Carried(Merged(decisions), x)
    OBVIOUS
  <1>3. ASSUME NEW w \in (u + 1)..v PROVE f[w] = f[w - 1]
    <2>1. w \in Int /\ w - 1 \in Int /\ w \in 0..(setup.end - 1) /\ u < w /\ w <= v
      BY <1>1
    <2>2. Carried(Merged(decisions), w) = Carried(Merged(decisions), w - 1)
      BY <2>1, StartsAre
    <2> QED
      BY <1>2, <2>1, <2>2
  <1> HIDE DEF f
  <1>4. f[v] = f[u]
    BY <1>1, <1>3, Steady
  <1> QED
    BY <1>1, <1>2, <1>4

\* Starts follow each other, from the pass start on; between two of them nothing that is carried changes.
LEMMA Tiled ==
  ASSUME IInv
  PROVE  SegmentsTile
  <1> SUFFICES ASSUME ended PROVE
        /\ segments = <<>> <=> setup.end = 0
        /\ segments # <<>> => segments[1].start = 0 /\ segments[Len(segments)].end = setup.end
        /\ \A i \in DOMAIN segments : segments[i].start < segments[i].end
        /\ \A i \in 1..(Len(segments) - 1) :
             segments[i].end = segments[i + 1].start /\ segments[i].mode # segments[i + 1].mode
    BY DEF SegmentsTile
  <1>1. Over /\ segments = SegmentsOf(Merged(decisions))
    BY DEF IInv, ScheduledInv, Over
  <1> DEFINE K(t) == Carried(Merged(decisions), t)
  <1>2. PICK S, c : S = Starts(Merged(decisions)) /\ c = Cardinality(S)
    OBVIOUS
  <1>3. /\ c \in Nat /\ S \in SUBSET (0..setup.end) /\ IsFiniteSet(S)
        /\ DOMAIN segments = 1..c /\ Len(segments) = c /\ (segments = <<>> <=> c = 0)
        /\ \A n \in 1..c :
             /\ segments[n].start = Nth(S, n)
             /\ segments[n].end = IF n = c THEN setup.end ELSE Nth(S, n + 1)
             /\ segments[n].mode = K(Nth(S, n))
        /\ \A n \in 1..c : Nth(S, n) \in S
        /\ \A x \in S : \E n \in 1..c : x = Nth(S, n)
        /\ \A m, n \in 1..c : m < n <=> Nth(S, m) < Nth(S, n)
        /\ \A t \in S : t \in Nat /\ t < setup.end /\ (t # 0 => K(t) # K(t - 1))
        /\ setup.end > 0 => 0 \in S
    BY <1>1, <1>2, SegmentsAre
  <1> HIDE DEF K
  <1>a. (\A n \in 1..c : Nth(S, n) \in S) /\ (\A t \in S : t \in Nat /\ t < setup.end) /\ c \in Nat
    BY <1>3
  <1>b. \A m, n \in 1..c : m < n <=> Nth(S, m) < Nth(S, n)
    BY <1>3
  <1>c. \A n \in 1..c : segments[n].start = Nth(S, n) /\ segments[n].end = IF n = c THEN setup.end ELSE Nth(S, n + 1)
    BY <1>3
  <1>4. setup.end \in Nat
    BY <1>1, TimesAre
  <1>5. segments = <<>> <=> setup.end = 0
    <2>1. c = 0 <=> S = {}
      BY <1>2, <1>3, FS_EmptySet
    <2>2. setup.end = 0 => S = {}
      BY <1>3
    <2> QED
      BY <1>3, <1>4, <2>1, <2>2
  <1>6. ASSUME segments # <<>> PROVE segments[1].start = 0 /\ segments[Len(segments)].end = setup.end
    <2>1. 1 \in 1..c /\ c \in 1..c /\ 0 \in S
      BY <1>3, <1>4, <1>5, <1>6
    <2>2. PICK n \in 1..c : 0 = Nth(S, n)
      BY <1>3, <2>1
    <2>3. Nth(S, 1) \in Nat
      BY <1>a, <2>1
    <2>4. ~(1 < n)
      BY <1>b, <2>1, <2>2, <2>3
    <2>5. n = 1
      BY <2>4
    <2> QED
      BY <1>c, <1>3, <2>1, <2>2, <2>5
  <1>7. ASSUME NEW i \in 1..c PROVE segments[i].start < segments[i].end
    <2>1. CASE i = c
      BY <1>a, <1>c, <2>1
    <2>2. CASE i # c
      <3>1. i + 1 \in 1..c /\ i < i + 1
        BY <1>a, <2>2
      <3>2. Nth(S, i) < Nth(S, i + 1)
        BY <1>b, <3>1
      <3> QED
        BY <1>c, <2>2, <3>2
    <2> QED
      BY <2>1, <2>2
  <1>8. ASSUME NEW i \in 1..(c - 1) PROVE segments[i].end = segments[i + 1].start /\ segments[i].mode # segments[i + 1].mode
    <2>1. i \in 1..c /\ i + 1 \in 1..c /\ i < i + 1 /\ i # c
      BY <1>3
    <2>a. Nth(S, i) \in S /\ Nth(S, i + 1) \in S /\ Nth(S, i) < Nth(S, i + 1)
      BY <1>a, <1>b, <2>1
    <2>2. PICK u \in S, v \in S : u = Nth(S, i) /\ v = Nth(S, i + 1) /\ u < v
      BY <2>a
    <2>3. u \in Nat /\ v \in Nat /\ v # 0 /\ v < setup.end
      BY <1>3, <2>2
    <2>4. ASSUME NEW w \in S, u < w, w <= v - 1 PROVE FALSE
      <3>1. PICK k \in 1..c : w = Nth(S, k)
        BY <1>3
      <3>2. w < v
        BY <1>a, <2>3, <2>4
      <3>3. i < k /\ k < i + 1
        BY <1>b, <2>1, <2>2, <2>4, <3>1, <3>2
      <3> QED
        BY <3>3
    <2>5. u \in 0..(setup.end - 1) /\ v - 1 \in 0..(setup.end - 1) /\ u <= v - 1
      BY <1>4, <2>2, <2>3
    <2>6. K(v - 1) = K(u)
      <3>1. \A w \in Starts(Merged(decisions)) : ~(u < w /\ w <= v - 1)
        BY <1>2, <2>4
      <3> QED
        BY <1>1, <2>5, <3>1, StartsTell DEF K
    <2>7. K(v) # K(v - 1)
      BY <1>3, <2>3
    <2> QED
      BY <1>3, <2>1, <2>2, <2>6, <2>7
  <1> QED
    BY <1>3, <1>5, <1>6, <1>7, <1>8

\* Whatever the delay and the decisions, the segments cover the pass without gap or overlap, and none is empty or
\* like its neighbour (_schedule).
THEOREM SegmentsAlwaysTile == Spec => []SegmentsTile
  <1>1. IInv => SegmentsTile
    BY Tiled
  <1> QED
    BY <1>1, Walked, PTL

\* A sample at a time of the pass is given what is carried then.
LEMMA Sampled ==
  ASSUME Over, segments = SegmentsOf(Merged(decisions)), NEW t \in 0..(setup.end - 1)
  PROVE  SampleMode(t) = Carried(Merged(decisions), t)
  <1> DEFINE K(x) == Carried(Merged(decisions), x)
             holding == {i \in DOMAIN segments : segments[i].start <= t /\ t < segments[i].end}
  <1>1. setup.end \in Nat /\ t \in Nat /\ t < setup.end /\ t # setup.end
    BY TimesAre
  <1>2. PICK S, c : S = Starts(Merged(decisions)) /\ c = Cardinality(S)
    OBVIOUS
  <1>3. /\ c \in Nat
        /\ DOMAIN segments = 1..c
        /\ \A n \in 1..c :
             /\ segments[n].start = Nth(S, n)
             /\ segments[n].end = IF n = c THEN setup.end ELSE Nth(S, n + 1)
             /\ segments[n].mode = K(Nth(S, n))
        /\ \A n \in 1..c : Nth(S, n) \in S
        /\ \A x \in S : \E n \in 1..c : x = Nth(S, n)
        /\ \A m, n \in 1..c : m < n <=> Nth(S, m) < Nth(S, n)
        /\ \A x \in S : x \in Nat /\ x < setup.end
        /\ setup.end > 0 => 0 \in S
    BY <1>2, SegmentsAre
  <1> HIDE DEF K
  <1>4. c \in Nat /\ DOMAIN segments = 1..c /\ (\A n \in 1..c : Nth(S, n) \in S) /\ (\A x \in S : x \in Nat /\ x < setup.end) /\ 0 \in S
    BY <1>1, <1>3
  <1>5. \A m, n \in 1..c : m < n <=> Nth(S, m) < Nth(S, n)
    BY <1>3
  <1>6. \A n \in 1..c : segments[n].start = Nth(S, n) /\ segments[n].end = IF n = c THEN setup.end ELSE Nth(S, n + 1)
    BY <1>3
  <1>7. PICK x \in S : x <= t /\ \A y \in S : y <= t => y <= x
    <2> DEFINE T == {y \in S : y <= t}
    <2>1. (\A y \in T : y \in Int) /\ (\A y \in T : y <= t) /\ T # {} /\ t \in Int
      BY <1>1, <1>4
    <2>2. \A y : y \in T <=> y \in S /\ y <= t
      OBVIOUS
    <2> HIDE DEF T
    <2>3. Greatest(T) \in T /\ \A y \in T : y <= Greatest(T)
      BY <2>1, GreatestIs
    <2> QED
      BY <2>2, <2>3
  <1>8. PICK i \in 1..c : x = Nth(S, i)
    BY <1>3
  <1>9. x \in Nat /\ x < setup.end
    BY <1>4
  <1>10. i \in holding
    <2>1. CASE i = c
      BY <1>1, <1>4, <1>6, <1>7, <1>8, <2>1
    <2>2. CASE i # c
      <3>1. i + 1 \in 1..c /\ i < i + 1
        BY <1>4, <2>2
      <3>2. PICK y \in S : y = Nth(S, i + 1) /\ x < y /\ y \in Nat
        BY <1>4, <1>5, <1>8, <3>1
      <3>3. t < y
        BY <1>1, <1>7, <1>9, <3>2
      <3> QED
        BY <1>4, <1>6, <1>7, <1>8, <2>2, <3>2, <3>3
    <2> QED
      BY <2>1, <2>2
  <1>11. \A j \in holding : j \in Int /\ j <= i
    <2> SUFFICES ASSUME NEW j \in holding PROVE j \in Int /\ j <= i
      OBVIOUS
    <2>1. j \in 1..c /\ segments[j].start <= t
      BY <1>4
    <2>2. PICK y \in S : y = Nth(S, j) /\ y \in Nat /\ y <= t
      BY <1>4, <1>6, <2>1
    <2>3. y <= x
      BY <1>7, <2>2
    <2>4. ~(Nth(S, i) < Nth(S, j))
      BY <1>8, <1>9, <2>2, <2>3
    <2>5. ~(i < j)
      BY <1>5, <2>1, <2>4
    <2> QED
      BY <2>1, <2>5
  <1>12. SampleMode(t) = IF holding = {} THEN NoLock ELSE segments[Greatest(holding)].mode
    BY <1>1 DEF SampleMode
  <1> HIDE DEF holding
  <1>13. Greatest(holding) = i /\ holding # {}
    BY <1>10, <1>11, GreatestOf
  <1>14. SampleMode(t) = K(x)
    BY <1>3, <1>8, <1>12, <1>13
  <1>15. K(t) = K(x)
    <2>1. x \in 0..(setup.end - 1) /\ x \in Int /\ x <= t /\ \A w \in S : ~(x < w /\ w <= t)
      <3>1. x \in 0..(setup.end - 1)
        BY <1>1, <1>9
      <3>2. \A w \in S : w <= t => w <= x /\ w \in Nat
        BY <1>4, <1>7
      <3> QED
        BY <1>7, <1>9, <3>1, <3>2
    <2> QED
      BY <1>2, <2>1, StartsTell DEF K
  <1> QED
    BY <1>14, <1>15 DEF K

\* The events are the changes, in order.
LEMMA EventsAre ==
  ASSUME Over, events = EventsOf(Merged(decisions))
  PROVE  /\ Changes \in SUBSET (0..setup.end) /\ Cardinality(Changes) \in Nat
         /\ DOMAIN events = 1..Cardinality(Changes) /\ Len(events) = Cardinality(Changes) /\ (events = <<>> <=> Cardinality(Changes) = 0)
         /\ \A n \in 1..Cardinality(Changes) :
              /\ events[n].decision = Nth(Changes, n)
              /\ events[n].from = ModeAt(Nth(Changes, n) - 1)
              /\ events[n].to = ModeAt(Nth(Changes, n))
         /\ \A n \in 1..Cardinality(Changes) : Nth(Changes, n) \in Changes
         /\ \A x \in Changes : \E n \in 1..Cardinality(Changes) : x = Nth(Changes, n)
         /\ \A m, n \in 1..Cardinality(Changes) : m < n <=> Nth(Changes, m) < Nth(Changes, n)
  <1> DEFINE M == Merged(decisions)
             times == {d.at : d \in M}
             nth(i) == CHOOSE d \in M : d.at = Nth(times, i)
             record(i) == [decision |-> nth(i).at, effective |-> Until(Effective(nth(i))), from |-> nth(i).from, to |-> nth(i).to]
  <1>1. setup.end \in Nat
    BY TimesAre
  <1>2. Changes \in SUBSET (0..setup.end)
    BY DEF Changes
  <1>3. /\ Cardinality(Changes) \in Nat
        /\ \A n \in 1..Cardinality(Changes) : Nth(Changes, n) \in Changes
        /\ \A x \in Changes : \E n \in 1..Cardinality(Changes) : x = Nth(Changes, n)
        /\ \A m, n \in 1..Cardinality(Changes) : m < n <=> Nth(Changes, m) < Nth(Changes, n)
    <2> HIDE DEF Changes
    <2> QED
      BY <1>1, <1>2, NthIs
  <1>4. \A u : ChangeAt(u).at = u /\ ChangeAt(u).from = ModeAt(u - 1) /\ ChangeAt(u).to = ModeAt(u)
    BY DEF ChangeAt
  <1>5. M = {ChangeAt(u) : u \in Changes}
    BY MergedIs
  <1>6. events = [i \in 1..Cardinality(times) |-> record(i)]
    BY DEF EventsOf
  <1> HIDE DEF M
  <1>7. times = Changes
    BY <1>4, <1>5
  <1>8. \A i \in 1..Cardinality(Changes) : nth(i) = ChangeAt(Nth(Changes, i))
    BY <1>3, <1>4, <1>5, <1>7
  <1>9. \A i : record(i).decision = nth(i).at /\ record(i).from = nth(i).from /\ record(i).to = nth(i).to
    OBVIOUS
  <1> HIDE DEF times, nth, record
  <1>10. DOMAIN events = 1..Cardinality(Changes) /\ \A i \in 1..Cardinality(Changes) : events[i] = record(i)
    BY <1>6, <1>7
  <1>11. events \in Seq({record(i) : i \in 1..Cardinality(Changes)}) /\ Len(events) = Cardinality(Changes)
    BY <1>3, <1>6, <1>7
  <1>12. events = <<>> <=> Cardinality(Changes) = 0
    BY <1>11, EmptySeq
  <1>13. \A n \in 1..Cardinality(Changes) :
           /\ events[n].decision = Nth(Changes, n)
           /\ events[n].from = ModeAt(Nth(Changes, n) - 1)
           /\ events[n].to = ModeAt(Nth(Changes, n))
    BY <1>4, <1>8, <1>9, <1>10
  <1> QED
    BY <1>2, <1>3, <1>10, <1>11, <1>12, <1>13

\* The last decision is the last by the end of the pass.
LEMMA LastMode ==
  ASSUME Over
  PROVE  ModeAt(setup.end) = mode /\ CountAt(setup.end) = LastCount
  <1> DEFINE n == Len(reached)
  <1>1. setup.end \in Nat /\ n \in Nat /\ n # 0 /\ n \in 1..n /\ Len(decisions) = n /\ reached # <<>>
    BY TimesAre, SequencesAre DEF Over, WalkInv
  <1>2. LastBy(setup.end) \in 1..n /\ \A i \in 1..n : reached[i].at <= setup.end <=> i <= LastBy(setup.end)
    BY <1>1, LastByIs DEF Over
  <1>3. reached[n].at <= setup.end
    BY <1>1 DEF Over, WalkInv
  <1>4. LastBy(setup.end) = n
    BY <1>1, <1>2, <1>3
  <1>5. mode = decisions[n].to
    BY <1>1 DEF Over, WalkInv
  <1> QED
    BY <1>1, <1>4, <1>5 DEF ModeAt, CountAt, LastBy, LastCount

\* Between two changes, before the first and after the last the mode is steady.
LEMMA Chained ==
  ASSUME IInv
  PROVE  EventsChain
  <1> SUFFICES ASSUME ended PROVE
        /\ \A i \in DOMAIN events :
             /\ events[i].from = IF i = 1 THEN NoLock ELSE events[i - 1].to
             /\ events[i].from # events[i].to
             /\ i > 1 => events[i - 1].decision < events[i].decision
        /\ mode = IF events = <<>> THEN NoLock ELSE events[Len(events)].to
    BY DEF EventsChain
  <1>1. Over /\ events = EventsOf(Merged(decisions))
    BY DEF IInv, ScheduledInv, Over
  <1>2. PICK c, C : C = Changes /\ c = Cardinality(C)
    OBVIOUS
  <1>3. /\ c \in Nat
        /\ DOMAIN events = 1..c /\ Len(events) = c /\ (events = <<>> <=> c = 0)
        /\ \A n \in 1..c :
             /\ events[n].decision = Nth(C, n)
             /\ events[n].from = ModeAt(Nth(C, n) - 1)
             /\ events[n].to = ModeAt(Nth(C, n))
        /\ \A n \in 1..c : Nth(C, n) \in C
        /\ \A x \in C : \E n \in 1..c : x = Nth(C, n)
        /\ \A m, n \in 1..c : m < n <=> Nth(C, m) < Nth(C, n)
    BY <1>1, <1>2, EventsAre
  <1>a. c \in Nat /\ (\A n \in 1..c : Nth(C, n) \in C) /\ \A x \in C : x \in Nat /\ x <= setup.end
    BY <1>1, <1>2, <1>3, TimesAre
  <1>b. \A m, n \in 1..c : m < n <=> Nth(C, m) < Nth(C, n)
    BY <1>3
  <1>c. \A n \in 1..c : events[n].decision = Nth(C, n) /\ events[n].from = ModeAt(Nth(C, n) - 1) /\ events[n].to = ModeAt(Nth(C, n))
    BY <1>3
  <1>d. setup.end \in Nat
    BY <1>1, TimesAre
  <1>4. ASSUME NEW i \in 1..c
        PROVE  /\ events[i].from = IF i = 1 THEN NoLock ELSE events[i - 1].to
               /\ events[i].from # events[i].to
               /\ i > 1 => events[i - 1].decision < events[i].decision
    <2>1. PICK u \in C : u = Nth(C, i) /\ u \in Nat /\ u <= setup.end /\ u - 1 \in Int /\ u - 1 <= setup.end
      BY <1>a, <1>d
    <2>2. events[i].from # events[i].to
      BY <1>2, <1>c, <2>1 DEF Changes
    <2>3. \A w \in C : w <= u - 1 => \E k \in 1..c : w = Nth(C, k) /\ k < i
      <3> SUFFICES ASSUME NEW w \in C, w <= u - 1 PROVE \E k \in 1..c : w = Nth(C, k) /\ k < i
        OBVIOUS
      <3>1. PICK k \in 1..c : w = Nth(C, k)
        BY <1>3
      <3>2. w < u
        BY <1>a, <2>1
      <3> QED
        BY <1>b, <2>1, <3>1, <3>2
    <2>4. CASE i = 1
      <3>1. \A w \in Changes : ~(w <= u - 1)
        BY <1>2, <2>3, <2>4
      <3>2. ModeAt(u - 1) = NoLock
        BY <1>1, <2>1, <3>1, LastChange
      <3> QED
        BY <1>c, <2>1, <2>2, <2>4, <3>2
    <2>5. CASE i # 1
      <3>1. PICK j \in 1..c : j = i - 1 /\ j < i
        BY <1>a, <2>5
      <3>2. PICK v \in C : v = Nth(C, j) /\ v < u /\ v \in Nat
        BY <1>a, <1>b, <2>1, <3>1
      <3>3. v <= u - 1
        BY <2>1, <3>2
      <3>4. ASSUME NEW w \in C, w <= u - 1 PROVE w <= v
        <4>1. PICK k \in 1..c : w = Nth(C, k) /\ k < i
          BY <2>3, <3>4
        <4>2. ~(j < k)
          BY <3>1, <4>1
        <4>3. ~(v < w)
          BY <1>b, <3>1, <3>2, <4>1, <4>2
        <4> QED
          BY <1>a, <3>2, <4>3
      <3>5. ModeAt(u - 1) = ModeAt(v)
        BY <1>1, <1>2, <2>1, <3>3, <3>4, LastChange
      <3> QED
        BY <1>c, <2>1, <2>2, <2>5, <3>1, <3>2, <3>5
    <2> QED
      BY <2>4, <2>5
  <1>5. mode = IF events = <<>> THEN NoLock ELSE events[Len(events)].to
    <2>1. mode = ModeAt(setup.end)
      BY <1>1, LastMode
    <2>2. CASE c = 0
      <3>1. \A u \in Changes : ~(u <= setup.end)
        BY <1>2, <1>3, <2>2
      <3>2. ModeAt(setup.end) = NoLock
        BY <1>1, <1>d, <3>1, LastChange
      <3> QED
        BY <1>3, <2>1, <2>2, <3>2
    <2>3. CASE c # 0
      <3>1. c \in 1..c
        BY <1>a, <2>3
      <3>2. PICK g \in C : g = Nth(C, c) /\ g \in Nat /\ g <= setup.end
        BY <1>a, <3>1
      <3>3. ASSUME NEW w \in C PROVE w <= g
        <4>1. PICK k \in 1..c : w = Nth(C, k)
          BY <1>3
        <4>2. ~(c < k)
          BY <1>a, <4>1
        <4>3. ~(g < w)
          BY <1>b, <3>1, <3>2, <4>1, <4>2
        <4> QED
          BY <1>a, <3>2, <4>3
      <3>4. ModeAt(setup.end) = ModeAt(g)
        BY <1>1, <1>2, <1>d, <3>2, <3>3, LastChange
      <3> QED
        BY <1>3, <1>c, <2>1, <2>3, <3>1, <3>2, <3>4
    <2> QED
      BY <2>2, <2>3
  <1> QED
    BY <1>3, <1>4, <1>5

\* The events of any pass tell the mode from no lock to where the walk ended, one change at a time (_schedule).
THEOREM EventsAlwaysChain == Spec => []EventsChain
  <1>1. IInv => EventsChain
    BY Chained
  <1> QED
    BY <1>1, Walked, PTL

\* A sample at the end is given what was applied before it.
LEMMA SampledAtEnd ==
  ASSUME Over, events = EventsOf(Merged(decisions))
  PROVE  SampleMode(setup.end) = Received(ModeAt((setup.end - 1) - setup.delay), LastCount)
  <1> DEFINE applied == {i \in DOMAIN events : events[i].decision + setup.delay < setup.end}
  <1>1. setup.end \in Nat /\ setup.delay \in Nat /\ setup \in Setups
    BY TimesAre, OverIs
  <1>2. PICK k \in Int : k = (setup.end - 1) - setup.delay /\ k <= setup.end
    BY <1>1
  <1>3. PICK c, C : C = Changes /\ c = Cardinality(C)
    OBVIOUS
  <1>4. /\ c \in Nat /\ DOMAIN events = 1..c
        /\ \A n \in 1..c : events[n].decision = Nth(C, n) /\ events[n].to = ModeAt(Nth(C, n))
        /\ \A n \in 1..c : Nth(C, n) \in C
        /\ \A x \in C : \E n \in 1..c : x = Nth(C, n)
        /\ \A m, n \in 1..c : m < n <=> Nth(C, m) < Nth(C, n)
    BY <1>3, EventsAre
  <1>a. c \in Nat /\ (\A n \in 1..c : Nth(C, n) \in C) /\ \A x \in C : x \in Nat /\ x <= setup.end
    BY <1>3, <1>4, TimesAre
  <1>b. \A m, n \in 1..c : m < n <=> Nth(C, m) < Nth(C, n)
    BY <1>4
  <1>5. \A i : i \in applied <=> i \in 1..c /\ Nth(C, i) <= k
    <2>1. \A i \in 1..c : Nth(C, i) + setup.delay < setup.end <=> Nth(C, i) <= k
      BY <1>1, <1>2, <1>a
    <2> QED
      BY <1>4, <2>1
  <1>6. PICK m, a : m = (IF applied = {} THEN NoLock ELSE events[Greatest(applied)].to) /\ a = Representative(LastCount)
    OBVIOUS
  <1>7. SampleMode(setup.end) = IF m # NoLock /\ a < Required[m] THEN NoLock ELSE m
    BY <1>6 DEF SampleMode, StateAtPassEnd
  <1> HIDE DEF applied
  <1>8. m = ModeAt(k)
    <2>1. CASE applied = {}
      <3>1. \A u \in Changes : ~(u <= k)
        BY <1>3, <1>4, <1>5, <2>1
      <3> QED
        BY <1>2, <1>6, <2>1, <3>1, LastChange
    <2>2. CASE applied # {}
      <3>1. (\A i \in applied : i \in Int) /\ (\A i \in applied : i <= c) /\ c \in Int
        BY <1>a, <1>5
      <3>2. PICK g \in applied : g = Greatest(applied) /\ \A i \in applied : i <= g
        BY <2>2, <3>1, GreatestIs
      <3>3. PICK u \in C : g \in 1..c /\ u = Nth(C, g) /\ u <= k /\ u \in Nat
        BY <1>a, <1>5
      <3>4. ASSUME NEW w \in C, w <= k PROVE w <= u
        <4>1. PICK i \in 1..c : w = Nth(C, i)
          BY <1>4
        <4>2. i <= g
          BY <1>5, <3>2, <3>4, <4>1
        <4>3. ~(g < i)
          BY <3>3, <4>2
        <4>4. ~(u < w)
          BY <1>b, <3>3, <4>1, <4>3
        <4> QED
          BY <1>a, <3>3, <4>4
      <3>5. ModeAt(k) = ModeAt(u)
        BY <1>2, <1>3, <3>3, <3>4, LastChange
      <3> QED
        BY <1>4, <1>6, <2>2, <3>2, <3>3, <3>5
    <2> QED
      BY <2>1, <2>2
  <1>9. m # NoLock => (a < Required[m] <=> Required[m] > a)
    <2>1. m \in Modes
      BY <1>8, OverIs
    <2>2. LastCount \in Counts
      BY <1>1, OverIs, LastMode
    <2>3. a \in Int
      BY <1>1, <1>6, <2>2, Represents
    <2> QED
      BY <2>1, <2>3, RequiredRises DEF Modes
  <1>10. Received(m, LastCount) = IF m # NoLock /\ Required[m] > a THEN NoLock ELSE m
    BY <1>6 DEF Received
  <1> QED
    BY <1>2, <1>7, <1>8, <1>9, <1>10

\* Sampled and CarriedIs, with the history as it was heard.
LEMMA Online ==
  ASSUME IInv
  PROVE  ScheduleIsOnline
  <1> SUFFICES ASSUME ended PROVE
        /\ \A t \in 0..(setup.end - 1) : SampleMode(t) = Received(Applied(t), heard[t + 1].count)
        /\ SampleMode(setup.end) = Received(Applied(setup.end - 1), LastCount)
    BY DEF ScheduleIsOnline
  <1>1. Over /\ segments = SegmentsOf(Merged(decisions)) /\ events = EventsOf(Merged(decisions))
    BY DEF IInv, ScheduledInv, Over
  <1>2. setup.end \in Nat /\ setup.delay \in Nat
    BY <1>1, TimesAre
  <1>3. \A t \in 0..(setup.end - 1) : heard[t + 1].mode = ModeAt(t) /\ heard[t + 1].count = CountAt(t)
    BY <1>1 DEF Over, HeardInv
  <1>4. ASSUME NEW t \in Int, t < setup.end PROVE Applied(t) = ModeAt(t - setup.delay)
    <2>1. PICK u \in Int : u = t - setup.delay /\ u < setup.end
      BY <1>2, <1>4
    <2>2. CASE 0 <= u
      <3>1. u \in 0..(setup.end - 1)
        BY <1>2, <2>1, <2>2
      <3> QED
        BY <1>3, <2>1, <2>2, <3>1 DEF Applied
    <2>3. CASE ~(0 <= u)
      BY <2>1, <2>3 DEF Applied, ModeAt
    <2> QED
      BY <2>2, <2>3
  <1>5. ASSUME NEW t \in 0..(setup.end - 1) PROVE SampleMode(t) = Received(Applied(t), heard[t + 1].count)
    <2>1. SampleMode(t) = Carried(Merged(decisions), t)
      BY <1>1, Sampled
    <2>2. Carried(Merged(decisions), t) = Received(ModeAt(t - setup.delay), CountAt(t))
      BY <1>1, CarriedIs
    <2>3. Applied(t) = ModeAt(t - setup.delay)
      BY <1>2, <1>4
    <2> QED
      BY <1>3, <2>1, <2>2, <2>3
  <1>6. SampleMode(setup.end) = Received(Applied(setup.end - 1), LastCount)
    <2>1. setup.end - 1 \in Int /\ setup.end - 1 < setup.end
      BY <1>2
    <2>2. Applied(setup.end - 1) = ModeAt((setup.end - 1) - setup.delay)
      BY <1>4, <2>1
    <2> QED
      BY <1>1, <2>2, SampledAtEnd
  <1> QED
    BY <1>5, <1>6

\* Made after the pass, cut only where something changed, and looked up by segments and events, the schedule still
\* gives every sample what a transmitter with that delay would have carried then (_schedule, _state_at_pass_end).
THEOREM ScheduleIsAlwaysOnline == Spec => []ScheduleIsOnline
  <1>1. IInv => ScheduleIsOnline
    BY Online
  <1> QED
    BY <1>1, Walked, PTL
=============================================================================
