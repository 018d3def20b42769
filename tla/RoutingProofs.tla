--------------------------- MODULE RoutingProofs ---------------------------
(***************************************************************************)
(* The two heap loops for every constellation, every set of links and      *)
(* every capacity.                                                         *)
(***************************************************************************)
EXTENDS Routing, SequenceTheorems, FiniteSetTheorems, WellFoundedInduction, TLAPS

Labels ==
  {l \in [delay : Nat, hops : Nat, path : Seq(Nodes), bottleneck : 1..Infinity] : Len(l.path) = l.hops + 1}

\* A set of naturals has a least element: induction over naturals, without a predicate as a parameter.
LEMMA LeastNatural ==
  ASSUME NEW T, \A n \in T : n \in Nat, NEW x \in T
  PROVE  \E n \in T : \A m \in T : n <= m
  <1>1. IsWellFoundedOn(OpToRel(<, Nat), Nat) /\ T \subseteq Nat /\ T # {}
    BY NatLessThanWellFounded
  <1>2. \E n \in T : \A m \in T : ~(<<m, n>> \in OpToRel(<, Nat))
    BY <1>1, WFMin
  <1>3. \E n \in T : \A m \in T : ~(m < n)
    BY <1>2 DEF OpToRel
  <1> QED
    BY <1>3

----------------------------------------------------------------------------
(* The order of labels.                                                    *)

LEMMA NodesAreNumbers == Nodes \subseteq Nat /\ Source \in Nodes /\ Target \in Nodes /\ Source # Target
  BY RoutingAssumption DEF RoutingAssumption, Nodes, Source, Target

\* Of three paths of one length, one between two others in no order is in order with one of them.
LEMMA LexConnex ==
  ASSUME NEW n \in Nat, NEW p \in [1..n -> Nat], NEW q \in [1..n -> Nat], NEW r \in [1..n -> Nat],
         LexLess(p, r)
  PROVE  LexLess(p, q) \/ LexLess(q, r)
  <1>1. PICK i \in 1..n : p[i] < r[i] /\ \A k \in 1..(i - 1) : p[k] = r[k]
    BY DEF LexLess
  <1>2. CASE \A k \in 1..(i - 1) : p[k] = q[k]
    <2>1. p[i] < q[i] \/ q[i] < r[i]
      BY <1>1
    <2> QED
      BY <1>1, <1>2, <2>1 DEF LexLess
  <1>3. CASE \E k \in 1..(i - 1) : p[k] # q[k]
    <2> DEFINE T == {k \in 1..(i - 1) : p[k] # q[k]}
    <2>a. PICK x \in T : TRUE
      BY <1>3
    <2>b. \E k \in T : \A m \in T : k <= m
      <3>1. \A k \in T : k \in Nat
        OBVIOUS
      <3> HIDE DEF T
      <3> QED
        BY <2>a, <3>1, LeastNatural
    <2>1. PICK k \in T : \A m \in T : k <= m
      BY <2>b
    <2>2. k \in 1..n /\ k < i /\ \A m \in 1..(k - 1) : p[m] = q[m]
      BY <2>1
    <2>3. p[k] < q[k] \/ q[k] < p[k]
      BY <2>1, <2>2
    <2>4. p[k] = r[k] /\ \A m \in 1..(k - 1) : p[m] = r[m]
      BY <1>1, <2>2
    <2> QED
      BY <2>2, <2>3, <2>4 DEF LexLess
  <1> QED
    BY <1>2, <1>3

LEMMA LexTransitive ==
  ASSUME NEW n \in Nat, NEW p \in [1..n -> Nat], NEW q \in [1..n -> Nat], NEW r \in [1..n -> Nat],
         LexLess(p, q), LexLess(q, r)
  PROVE  LexLess(p, r)
  <1>1. PICK i \in 1..n : p[i] < q[i] /\ \A m \in 1..(i - 1) : p[m] = q[m]
    BY DEF LexLess
  <1>2. PICK k \in 1..n : q[k] < r[k] /\ \A m \in 1..(k - 1) : q[m] = r[m]
    BY DEF LexLess
  <1>3. CASE i <= k
    <2>1. p[i] < r[i] /\ \A m \in 1..(i - 1) : p[m] = r[m]
      BY <1>1, <1>2, <1>3
    <2> QED
      BY <2>1 DEF LexLess
  <1>4. CASE k < i
    <2>1. p[k] < r[k] /\ \A m \in 1..(k - 1) : p[m] = r[m]
      BY <1>1, <1>2, <1>4
    <2> QED
      BY <2>1 DEF LexLess
  <1> QED
    BY <1>3, <1>4

LEMMA LexTotal ==
  ASSUME NEW n \in Nat, NEW p \in [1..n -> Nat], NEW q \in [1..n -> Nat], p # q
  PROVE  LexLess(p, q) \/ LexLess(q, p)
  <1> DEFINE T == {k \in 1..n : p[k] # q[k]}
  <1>1. PICK x \in T : TRUE
    OBVIOUS
  <1>2. \E k \in T : \A m \in T : k <= m
    <2>1. \A k \in T : k \in Nat
      OBVIOUS
    <2> HIDE DEF T
    <2> QED
      BY <1>1, <2>1, LeastNatural
  <1>3. PICK k \in T : \A m \in T : k <= m
    BY <1>2
  <1>4. k \in 1..n /\ \A m \in 1..(k - 1) : p[m] = q[m]
    BY <1>3
  <1>5. p[k] < q[k] \/ q[k] < p[k]
    BY <1>3
  <1> QED
    BY <1>4, <1>5 DEF LexLess

\* What a label consists of.
LEMMA LabelFields ==
  ASSUME NEW l \in Labels
  PROVE  /\ l.delay \in Nat /\ l.hops \in Nat /\ l.bottleneck \in 1..Infinity
         /\ l.path \in Seq(Nodes) /\ Len(l.path) = l.hops + 1
         /\ DOMAIN l.path = 1..(l.hops + 1)
         /\ l.path \in [1..(l.hops + 1) -> Nat]
         /\ End(l) \in Nodes /\ End(l) = l.path[l.hops + 1]
  <1>1. /\ l.delay \in Nat /\ l.hops \in Nat /\ l.bottleneck \in 1..Infinity
        /\ l.path \in Seq(Nodes) /\ Len(l.path) = l.hops + 1
    BY DEF Labels
  <1>2. l.path \in [1..(l.hops + 1) -> Nodes]
    BY <1>1, LenProperties
  <1>3. l.path \in [1..(l.hops + 1) -> Nat]
    BY <1>2, NodesAreNumbers
  <1>4. End(l) = l.path[l.hops + 1]
    BY <1>1 DEF End
  <1> QED
    BY <1>1, <1>2, <1>3, <1>4

LEMMA LessConnex ==
  ASSUME NEW a \in Labels, NEW b \in Labels, NEW c \in Labels, Less(a, c)
  PROVE  Less(a, b) \/ Less(b, c)
  <1>1. /\ a.delay \in Nat /\ a.hops \in Nat /\ a.path \in [1..(a.hops + 1) -> Nat]
        /\ b.delay \in Nat /\ b.hops \in Nat /\ b.path \in [1..(b.hops + 1) -> Nat]
        /\ c.delay \in Nat /\ c.hops \in Nat /\ c.path \in [1..(c.hops + 1) -> Nat]
    BY LabelFields
  <1>2. CASE a.delay = b.delay /\ a.hops = b.hops /\ b.delay = c.delay /\ b.hops = c.hops
    <2>1. LexLess(a.path, c.path)
      BY <1>1, <1>2 DEF Less
    <2>a. PICK n \in Nat : n = a.hops + 1
      BY <1>1
    <2>b. a.path \in [1..n -> Nat] /\ b.path \in [1..n -> Nat] /\ c.path \in [1..n -> Nat]
      BY <1>1, <1>2, <2>a
    <2>2. LexLess(a.path, b.path) \/ LexLess(b.path, c.path)
      BY <2>1, <2>a, <2>b, LexConnex
    <2> QED
      BY <1>2, <2>2 DEF Less
  <1> QED
    BY <1>1, <1>2 DEF Less

LEMMA LessTransitive ==
  ASSUME NEW a \in Labels, NEW b \in Labels, NEW c \in Labels, Less(a, b), Less(b, c)
  PROVE  Less(a, c)
  <1>1. /\ a.delay \in Nat /\ a.hops \in Nat /\ a.path \in [1..(a.hops + 1) -> Nat]
        /\ b.delay \in Nat /\ b.hops \in Nat /\ b.path \in [1..(b.hops + 1) -> Nat]
        /\ c.delay \in Nat /\ c.hops \in Nat /\ c.path \in [1..(c.hops + 1) -> Nat]
    BY LabelFields
  <1>2. CASE a.delay = b.delay /\ a.hops = b.hops /\ b.delay = c.delay /\ b.hops = c.hops
    <2>1. LexLess(a.path, b.path) /\ LexLess(b.path, c.path)
      BY <1>1, <1>2 DEF Less
    <2>a. PICK n \in Nat : n = a.hops + 1
      BY <1>1
    <2>b. a.path \in [1..n -> Nat] /\ b.path \in [1..n -> Nat] /\ c.path \in [1..n -> Nat]
      BY <1>1, <1>2, <2>a
    <2>2. LexLess(a.path, c.path)
      BY <2>1, <2>a, <2>b, LexTransitive
    <2> QED
      BY <1>2, <2>2 DEF Less
  <1> QED
    BY <1>1, <1>2 DEF Less

LEMMA LessIrreflexive == ASSUME NEW a \in Labels PROVE ~Less(a, a)
  <1>1. a.delay \in Nat /\ a.hops \in Nat /\ a.path \in [1..(a.hops + 1) -> Nat]
    BY LabelFields
  <1>2. ~LexLess(a.path, a.path)
    BY <1>1 DEF LexLess
  <1> QED
    BY <1>1, <1>2 DEF Less

----------------------------------------------------------------------------
(* Links, and labels extended over them.                                   *)

LEMMA MinPair ==
  ASSUME NEW a \in Int, NEW b \in Int
  PROVE  /\ Min({a, b}) \in {a, b} /\ Min({a, b}) <= a /\ Min({a, b}) <= b
  <1>1. \E x \in {a, b} : \A y \in {a, b} : x <= y
    OBVIOUS
  <1> QED
    BY <1>1 DEF Min

LEMMA EdgeFields ==
  ASSUME world \in Worlds, model \in Models, NEW e \in Edges
  PROVE  e.delay \in Nat \ {0} /\ e.capacity \in 1..(Infinity - 1)
  <1>1. PICK w \in Worlds : w = world
    OBVIOUS
  <1>2. CASE \E s \in Satellites : e = Up(s)
    BY <1>1, <1>2, RoutingAssumption DEF RoutingAssumption, Edges, Up, Capacity
  <1>3. CASE \E s \in Satellites : e = Down(s)
    BY <1>1, <1>3, RoutingAssumption DEF RoutingAssumption, Edges, Down, Capacity
  <1>4. CASE \E pair \in Pairs : e = Isl(pair)
    BY <1>1, <1>4, RoutingAssumption DEF RoutingAssumption, Edges, Isl
  <1> QED
    BY <1>2, <1>3, <1>4 DEF Edges

\* Two nodes have one link at most.
LEMMA EdgeUnique ==
  ASSUME NEW e \in Edges, NEW f \in Edges, e.ends = f.ends
  PROVE  e = f
  <1>1. \A s \in Satellites : s \in Nat /\ s # Source /\ s # Target
    BY RoutingAssumption DEF RoutingAssumption, Satellites, Source, Target
  <1>2. \A pair \in Pairs : pair = <<pair[1], pair[2]>> /\ pair[1] \in Satellites /\ pair[2] \in Satellites /\ pair[1] < pair[2]
    BY DEF Pairs
  <1>3. ASSUME NEW x \in Edges
        PROVE  \/ \E s \in Satellites : x = Up(s) /\ x.ends = {s, Source}
               \/ \E s \in Satellites : x = Down(s) /\ x.ends = {s, Target}
               \/ \E pair \in Pairs : x = Isl(pair) /\ x.ends = {pair[1], pair[2]}
    BY DEF Edges, Up, Down, Isl
  <1>4. CASE \E s \in Satellites : e = Up(s) /\ e.ends = {s, Source}
    BY <1>1, <1>2, <1>3, <1>4, NodesAreNumbers
  <1>5. CASE \E s \in Satellites : e = Down(s) /\ e.ends = {s, Target}
    BY <1>1, <1>2, <1>3, <1>5, NodesAreNumbers
  <1>6. CASE \E pair \in Pairs : e = Isl(pair) /\ e.ends = {pair[1], pair[2]}
    BY <1>1, <1>2, <1>3, <1>6
  <1> QED
    BY <1>3, <1>4, <1>5, <1>6

LEMMA ExtendedFields ==
  ASSUME world \in Worlds, model \in Models, NEW l \in Labels, NEW m \in Nodes, NEW e \in Edges,
         NEW x, x = Extended(l, m, e)
  PROVE  /\ x \in Labels /\ End(x) = m
         /\ x.delay = l.delay + e.delay /\ x.hops = l.hops + 1 /\ x.delay > l.delay
         /\ \A i \in 1..(l.hops + 1) : x.path[i] = l.path[i]
         /\ x.path[l.hops + 2] = m
         /\ x.bottleneck \in {l.bottleneck, e.capacity} /\ x.bottleneck <= l.bottleneck /\ x.bottleneck <= e.capacity
         /\ Less(l, x)
  <1>1. /\ l.delay \in Nat /\ l.hops \in Nat /\ l.bottleneck \in 1..Infinity /\ l.path \in Seq(Nodes)
        /\ Len(l.path) = l.hops + 1
    BY LabelFields
  <1>2. e.delay \in Nat \ {0} /\ e.capacity \in 1..(Infinity - 1) /\ Infinity \in Int
    BY EdgeFields, RoutingAssumption DEF RoutingAssumption
  <1>a. l.bottleneck \in Int /\ e.capacity \in Int
    BY <1>1, <1>2
  <1>3. /\ Append(l.path, m) \in Seq(Nodes) /\ Len(Append(l.path, m)) = l.hops + 2
        /\ \A i \in 1..(l.hops + 1) : Append(l.path, m)[i] = l.path[i]
        /\ Append(l.path, m)[l.hops + 2] = m
    BY <1>1, AppendProperties
  <1>4. /\ Min({l.bottleneck, e.capacity}) \in {l.bottleneck, e.capacity}
        /\ Min({l.bottleneck, e.capacity}) <= l.bottleneck /\ Min({l.bottleneck, e.capacity}) <= e.capacity
    BY <1>a, MinPair
  <1>5. /\ x.delay = l.delay + e.delay /\ x.hops = l.hops + 1 /\ x.path = Append(l.path, m)
        /\ x.bottleneck = Min({l.bottleneck, e.capacity})
        /\ x = [delay |-> x.delay, hops |-> x.hops, path |-> x.path, bottleneck |-> x.bottleneck]
    BY DEF Extended
  <1>6. x \in Labels
    <2>1. x.delay \in Nat /\ x.hops \in Nat /\ x.path \in Seq(Nodes) /\ Len(x.path) = x.hops + 1
      BY <1>1, <1>2, <1>3, <1>5
    <2>2. x.bottleneck \in 1..Infinity
      BY <1>1, <1>2, <1>4, <1>5
    <2>3. x \in [delay : Nat, hops : Nat, path : Seq(Nodes), bottleneck : 1..Infinity]
      BY <1>5, <2>1, <2>2
    <2> QED
      BY <2>1, <2>3 DEF Labels
  <1>7. End(x) = m
    BY <1>3, <1>5 DEF End
  <1>8. x.delay > l.delay /\ Less(l, x)
    BY <1>1, <1>2, <1>5 DEF Less
  <1> QED
    BY <1>3, <1>4, <1>5, <1>6, <1>7, <1>8

\* Two labels stay in order when they are extended alike.
LEMMA ExtendedMonotone ==
  ASSUME world \in Worlds, model \in Models, NEW a \in Labels, NEW b \in Labels, NEW m \in Nodes, NEW e \in Edges,
         Less(Extended(a, m, e), Extended(b, m, e))
  PROVE  Less(a, b)
  <1> DEFINE x == Extended(a, m, e)
             y == Extended(b, m, e)
  <1>1. /\ a.delay \in Nat /\ a.hops \in Nat /\ b.delay \in Nat /\ b.hops \in Nat /\ e.delay \in Nat
        /\ DOMAIN a.path = 1..(a.hops + 1)
    BY LabelFields, EdgeFields
  <1>2. /\ x.delay = a.delay + e.delay /\ x.hops = a.hops + 1
        /\ y.delay = b.delay + e.delay /\ y.hops = b.hops + 1
        /\ \A i \in 1..(a.hops + 1) : x.path[i] = a.path[i]
        /\ \A i \in 1..(b.hops + 1) : y.path[i] = b.path[i]
        /\ x.path[a.hops + 2] = m /\ y.path[b.hops + 2] = m
        /\ x \in Labels /\ m \in Nat
    <2>1. /\ x.delay = a.delay + e.delay /\ x.hops = a.hops + 1 /\ x \in Labels
          /\ \A i \in 1..(a.hops + 1) : x.path[i] = a.path[i]
          /\ x.path[a.hops + 2] = m
      BY ExtendedFields
    <2>2. /\ y.delay = b.delay + e.delay /\ y.hops = b.hops + 1
          /\ \A i \in 1..(b.hops + 1) : y.path[i] = b.path[i]
          /\ y.path[b.hops + 2] = m
      BY ExtendedFields
    <2>3. m \in Nat
      BY NodesAreNumbers
    <2> QED
      BY <2>1, <2>2, <2>3
  <1>a. /\ x.delay = a.delay + e.delay /\ x.hops = a.hops + 1
        /\ y.delay = b.delay + e.delay /\ y.hops = b.hops + 1
    BY <1>2
  <1>3. DOMAIN x.path = 1..(a.hops + 2)
    BY <1>1, <1>2, LabelFields
  <1>4. Less(x, y)
    OBVIOUS
  <1> HIDE DEF x, y
  <1>5. CASE a.delay = b.delay /\ a.hops = b.hops
    <2>1. LexLess(x.path, y.path)
      BY <1>1, <1>2, <1>4, <1>5 DEF Less
    <2>2. PICK i \in 1..(a.hops + 2) : x.path[i] < y.path[i] /\ \A k \in 1..(i - 1) : x.path[k] = y.path[k]
      BY <1>3, <2>1 DEF LexLess
    <2>3. i # a.hops + 2
      <3>1. ~(x.path[a.hops + 2] < y.path[a.hops + 2])
        BY <1>2, <1>5
      <3> QED
        BY <2>2, <3>1
    <2>a. i \in 1..(a.hops + 1) /\ \A k \in 1..(i - 1) : k \in 1..(a.hops + 1)
      BY <1>1, <2>2, <2>3
    <2>4. i \in 1..(a.hops + 1) /\ a.path[i] < b.path[i] /\ \A k \in 1..(i - 1) : a.path[k] = b.path[k]
      BY <1>2, <1>5, <2>2, <2>a
    <2> QED
      BY <1>1, <1>5, <2>4 DEF Less, LexLess
  <1>6. a.delay # b.delay \/ a.hops # b.hops => x.delay < y.delay \/ (x.delay = y.delay /\ x.hops < y.hops)
    <2>1. x.delay < y.delay \/ (x.delay = y.delay /\ x.hops < y.hops) \/ (x.delay = y.delay /\ x.hops = y.hops)
      BY <1>4 DEF Less
    <2> QED
      BY <1>1, <1>a, <2>1
  <1>7. x.delay < y.delay \/ (x.delay = y.delay /\ x.hops < y.hops) => a.delay < b.delay \/ (a.delay = b.delay /\ a.hops < b.hops)
    BY <1>1, <1>a
  <1> QED
    BY <1>5, <1>6, <1>7 DEF Less

----------------------------------------------------------------------------
(* Paths and the trails along them.                                        *)

\* The recursive sum of Delay exists.
LEMMA SumExists ==
  ASSUME NEW n \in Nat \ {0}, NEW g
  PROVE  \E s : s = [i \in 1..n |-> IF i = 1 THEN 0 ELSE s[i - 1] + g[i - 1]]
  <1> DEFINE T == {k \in Nat \ {0} : ~\E s : s = [i \in 1..k |-> IF i = 1 THEN 0 ELSE s[i - 1] + g[i - 1]]}
  <1> SUFFICES ASSUME n \in T PROVE FALSE
    OBVIOUS
  <1>1. \E k \in T : \A m \in T : k <= m
    <2>1. \A k \in T : k \in Nat
      OBVIOUS
    <2> HIDE DEF T
    <2> QED
      BY <2>1, LeastNatural
  <1>2. PICK k \in T : \A m \in T : k <= m
    BY <1>1
  <1>3. CASE k = 1
    <2> DEFINE s == [i \in 1..1 |-> 0]
    <2>1. s = [i \in 1..k |-> IF i = 1 THEN 0 ELSE s[i - 1] + g[i - 1]]
      BY <1>3
    <2> QED
      BY <1>2, <2>1
  <1>4. CASE k # 1
    <2>1. k - 1 \in Nat \ {0} /\ k - 1 \notin T
      BY <1>2, <1>4
    <2>2. PICK s : s = [i \in 1..(k - 1) |-> IF i = 1 THEN 0 ELSE s[i - 1] + g[i - 1]]
      BY <2>1
    <2> DEFINE t == [i \in 1..k |-> IF i < k THEN s[i] ELSE s[k - 1] + g[k - 1]]
    <2>3. ASSUME NEW i \in 1..k
          PROVE  t[i] = IF i = 1 THEN 0 ELSE t[i - 1] + g[i - 1]
      <3>1. CASE i = 1
        BY <1>2, <1>4, <2>2, <3>1
      <3>2. CASE i # 1 /\ i < k
        BY <1>2, <2>2, <3>2
      <3>3. CASE i = k
        BY <1>2, <1>4, <3>3
      <3> QED
        BY <1>2, <3>1, <3>2, <3>3
    <2>4. t = [i \in 1..k |-> IF i = 1 THEN 0 ELSE t[i - 1] + g[i - 1]]
      BY <2>3
    <2> QED
      BY <1>2, <2>4
  <1> QED
    BY <1>3, <1>4

\* Two sequences that never part are equal.
LEMMA NeverPart ==
  ASSUME NEW c \in Nat, NEW u, NEW v,
         \A i \in 1..c : (i = 1 \/ u[i - 1] = v[i - 1]) => u[i] = v[i]
  PROVE  \A i \in 1..c : u[i] = v[i]
  <1> DEFINE T == {i \in 1..c : u[i] # v[i]}
  <1> SUFFICES ASSUME NEW x \in T PROVE FALSE
    OBVIOUS
  <1>1. \E k \in T : \A m \in T : k <= m
    <2>1. \A k \in T : k \in Nat
      OBVIOUS
    <2> HIDE DEF T
    <2> QED
      BY <2>1, LeastNatural
  <1>2. PICK k \in T : \A m \in T : k <= m
    BY <1>1
  <1>3. k # 1
    BY <1>2
  <1>4. k - 1 \in 1..(c - 1) /\ k - 1 \notin T /\ k - 1 \in 1..c
    BY <1>2, <1>3
  <1> QED
    BY <1>2, <1>3, <1>4

\* A path of one node takes no time.
LEMMA DelayOfOne == ASSUME NEW m PROVE Delay(<<m>>) = 0
  <1> DEFINE Sum(s, r) == s = [i \in 1..Len(r) |-> IF i = 1 THEN 0 ELSE s[i - 1] + Link(r, i - 1).delay]
  <1>1. \E r : Sum(r, <<m>>)
    <2> DEFINE r == [i \in 1..1 |-> 0]
    <2>1. Sum(r, <<m>>)
      OBVIOUS
    <2> QED
      BY <2>1
  <1>2. PICK r : Sum(r, <<m>>) /\ Delay(<<m>>) = r[1]
    BY <1>1 DEF Delay
  <1> QED
    BY <1>2

\* The delay of a path over one link more.
LEMMA DelayExtends ==
  ASSUME NEW p \in Seq(Nodes), Len(p) > 0, NEW m \in Nodes
  PROVE  /\ Delay(Append(p, m)) = Delay(p) + Link(Append(p, m), Len(p)).delay
         /\ \A i \in 1..(Len(p) - 1) : Link(Append(p, m), i) = Link(p, i)
  <1> DEFINE q == Append(p, m)
             n == Len(p)
             g == [i \in 1..(n - 1) |-> Link(p, i).delay]
             h == [i \in 1..n |-> Link(q, i).delay]
             Sum(s, r) == s = [i \in 1..Len(r) |-> IF i = 1 THEN 0 ELSE s[i - 1] + Link(r, i - 1).delay]
  <1>1. q \in Seq(Nodes) /\ Len(q) = n + 1 /\ n \in Nat \ {0} /\ \A i \in 1..n : q[i] = p[i]
    BY AppendProperties, LenProperties
  <1>2. \A i \in 1..(n - 1) : Link(q, i) = Link(p, i)
    BY <1>1 DEF Link
  <1>3. \E s : Sum(s, p)
    <2>1. PICK s : s = [i \in 1..n |-> IF i = 1 THEN 0 ELSE s[i - 1] + g[i - 1]]
      BY <1>1, SumExists
    <2>2. \A i \in 1..n : s[i] = IF i = 1 THEN 0 ELSE s[i - 1] + Link(p, i - 1).delay
      BY <1>1, <2>1
    <2>3. s = [i \in 1..n |-> s[i]]
      BY <2>1
    <2>4. Sum(s, p)
      BY <1>1, <2>2, <2>3
    <2> QED
      BY <2>4
  <1>4. \E s : Sum(s, q)
    <2>a. PICK k \in Nat \ {0} : k = n + 1
      BY <1>1
    <2>b. \E s : s = [i \in 1..k |-> IF i = 1 THEN 0 ELSE s[i - 1] + h[i - 1]]
      <3> HIDE DEF h
      <3> QED
        BY SumExists
    <2>1. PICK s : s = [i \in 1..(n + 1) |-> IF i = 1 THEN 0 ELSE s[i - 1] + h[i - 1]]
      BY <2>a, <2>b
    <2>c. \A i \in 1..(n + 1) : i # 1 => h[i - 1] = Link(q, i - 1).delay
      BY <1>1
    <2>2. \A i \in 1..(n + 1) : s[i] = IF i = 1 THEN 0 ELSE s[i - 1] + Link(q, i - 1).delay
      <3> HIDE DEF h, q, n
      <3> QED
        BY <2>1, <2>c
    <2>3. s = [i \in 1..(n + 1) |-> s[i]]
      BY <2>1
    <2>4. Sum(s, q)
      BY <1>1, <2>2, <2>3
    <2> QED
      BY <2>4
  <1>a. \A r : Delay(r) = (CHOOSE s : Sum(s, r))[Len(r)]
    BY DEF Delay
  <1>5. PICK s : Sum(s, p) /\ Delay(p) = s[n]
    <2>1. Sum(CHOOSE u : Sum(u, p), p)
      BY <1>3
    <2> QED
      BY <1>a, <2>1
  <1>6. PICK t : Sum(t, q) /\ Delay(q) = t[n + 1]
    <2>1. Sum(CHOOSE u : Sum(u, q), q)
      BY <1>4
    <2> QED
      BY <1>1, <1>a, <2>1
  <1>7. s[n] = t[n]
    <2>1. \A i \in 1..n : s[i] = IF i = 1 THEN 0 ELSE s[i - 1] + g[i - 1]
      BY <1>1, <1>5
    <2>2. \A i \in 1..n : t[i] = IF i = 1 THEN 0 ELSE t[i - 1] + h[i - 1]
      BY <1>1, <1>6
    <2>3. \A i \in 1..n : i # 1 => g[i - 1] = h[i - 1]
      BY <1>1, <1>2
    <2>4. PICK k \in Nat : k = n
      BY <1>1
    <2> HIDE DEF g, h, n, q, Sum
    <2>5. \A i \in 1..k : (i = 1 \/ s[i - 1] = t[i - 1]) => s[i] = t[i]
      BY <2>1, <2>2, <2>3, <2>4
    <2>6. \A i \in 1..k : s[i] = t[i]
      BY <2>5, NeverPart
    <2> QED
      BY <1>1, <2>4, <2>6
  <1>8. t[n + 1] = t[n] + Link(q, n).delay
    <2>1. n + 1 \in 1..Len(q) /\ n + 1 # 1 /\ (n + 1) - 1 = n
      BY <1>1
    <2>2. t[n + 1] = t[(n + 1) - 1] + Link(q, (n + 1) - 1).delay
      BY <1>6, <2>1
    <2> QED
      BY <2>1, <2>2
  <1> QED
    BY <1>2, <1>5, <1>6, <1>7, <1>8

IsPath(p) == p \in Seq(Nodes) /\ Len(p) > 0 /\ p[1] = Source /\ IsInjective(p) /\ Linked(p)

Narrowest(l) ==
  /\ \A i \in 1..l.hops : l.bottleneck <= Link(l.path, i).capacity
  /\ IF l.hops = 0 THEN l.bottleneck = Infinity ELSE \E i \in 1..l.hops : l.bottleneck = Link(l.path, i).capacity

\* The labels of the paths there are, whatever the heap does.
Trails == {l \in Labels : IsPath(l.path) /\ l.delay = Delay(l.path) /\ Narrowest(l)}

LEMMA LinkOnPath ==
  ASSUME NEW p \in Seq(Nodes), Linked(p), NEW i \in 1..(Len(p) - 1)
  PROVE  Link(p, i) \in Edges /\ Link(p, i).ends = {p[i], p[i + 1]}
  BY DEF Linked, Link

LEMMA StartIsTrail ==
  /\ Start \in Trails /\ End(Start) = Source
  /\ Start.delay = 0 /\ Start.hops = 0 /\ Start.path = <<Source>> /\ Start.bottleneck = Infinity
  <1>1. /\ Start.delay = 0 /\ Start.hops = 0 /\ Start.path = <<Source>> /\ Start.bottleneck = Infinity
    BY DEF Start
  <1>2. <<Source>> \in Seq(Nodes) /\ Len(<<Source>>) = 1 /\ <<Source>>[1] = Source
    BY NodesAreNumbers
  <1>3. Infinity \in 1..Infinity
    BY RoutingAssumption DEF RoutingAssumption
  <1>4. Start \in Labels
    <2>1. Start \in [delay : Nat, hops : Nat, path : Seq(Nodes), bottleneck : 1..Infinity]
      BY <1>2, <1>3 DEF Start
    <2>2. Len(Start.path) = Start.hops + 1
      BY <1>1, <1>2
    <2> QED
      BY <2>1, <2>2 DEF Labels
  <1>5. IsPath(<<Source>>)
    <2>1. PICK p : p = <<Source>>
      OBVIOUS
    <2>2. p \in Seq(Nodes) /\ Len(p) = 1 /\ p[1] = Source /\ DOMAIN p = 1..1
      BY <1>2, <2>1, LenProperties
    <2>3. IsInjective(p) /\ Linked(p)
      BY <2>2 DEF IsInjective, Linked
    <2> QED
      BY <2>1, <2>2, <2>3 DEF IsPath
  <1>6. Delay(<<Source>>) = 0
    BY DelayOfOne
  <1>7. Narrowest(Start)
    BY <1>1 DEF Narrowest
  <1>8. End(Start) = Source
    BY <1>1 DEF End
  <1> QED
    BY <1>1, <1>4, <1>5, <1>6, <1>7, <1>8 DEF Trails

LEMMA PathExtends ==
  ASSUME NEW p, IsPath(p), NEW m \in Nodes \ Range(p), NEW e \in Edges, e.ends = {m, p[Len(p)]}
  PROVE  /\ IsPath(Append(p, m))
         /\ Link(Append(p, m), Len(p)) = e
         /\ Delay(Append(p, m)) = Delay(p) + e.delay
         /\ \A i \in 1..(Len(p) - 1) : Link(Append(p, m), i) = Link(p, i)
  <1> DEFINE q == Append(p, m)
  <1>1. /\ p \in Seq(Nodes) /\ Len(p) \in Nat \ {0} /\ p[1] = Source
        /\ IsInjective(p) /\ Linked(p) /\ DOMAIN p = 1..Len(p)
    BY LenProperties DEF IsPath
  <1>2. /\ q \in Seq(Nodes) /\ Len(q) = Len(p) + 1 /\ DOMAIN q = 1..(Len(p) + 1)
        /\ \A i \in 1..Len(p) : q[i] = p[i]
        /\ q[Len(p) + 1] = m
    BY <1>1, AppendProperties, LenProperties
  <1>3. \A i \in 1..Len(p) : p[i] # m
    BY <1>1 DEF Range
  <1> HIDE DEF q
  <1>4. q[1] = Source
    BY <1>1, <1>2
  <1>5. IsInjective(q)
    BY <1>1, <1>2, <1>3 DEF IsInjective
  <1>6. Linked(q)
    <2> SUFFICES ASSUME NEW i \in 1..(Len(q) - 1) PROVE \E x \in Edges : x.ends = {q[i], q[i + 1]}
      BY DEF Linked
    <2>1. CASE i = Len(p)
      <3>1. q[i] = p[Len(p)] /\ q[i + 1] = m
        BY <1>1, <1>2, <2>1
      <3>2. {q[i], q[i + 1]} = {m, p[Len(p)]}
        BY <3>1
      <3> QED
        BY <3>2
    <2>2. CASE i # Len(p)
      <3>0. PICK n \in Nat \ {0} : n = Len(p) /\ Len(q) = n + 1
        BY <1>1, <1>2
      <3>1. i \in 1..(Len(p) - 1) /\ i \in 1..Len(p) /\ i + 1 \in 1..Len(p)
        BY <2>2, <3>0
      <3>2. q[i] = p[i] /\ q[i + 1] = p[i + 1]
        BY <1>2, <3>1
      <3> QED
        BY <1>1, <3>1, <3>2 DEF Linked
    <2> QED
      BY <2>1, <2>2
  <1>7. Link(q, Len(p)) = e
    <2>1. Len(p) \in 1..(Len(q) - 1) /\ q[Len(p)] = p[Len(p)] /\ q[Len(p) + 1] = m
      BY <1>1, <1>2
    <2>2. Link(q, Len(p)) \in Edges /\ Link(q, Len(p)).ends = {p[Len(p)], m}
      BY <1>2, <1>6, <2>1, LinkOnPath
    <2>3. Link(q, Len(p)).ends = e.ends
      BY <2>2
    <2> QED
      BY <2>2, <2>3, EdgeUnique
  <1>8. /\ Delay(q) = Delay(p) + Link(q, Len(p)).delay
        /\ \A i \in 1..(Len(p) - 1) : Link(q, i) = Link(p, i)
    <2>1. m \in Nodes /\ Len(p) > 0
      BY <1>1
    <2> QED
      BY <1>1, <2>1, DelayExtends DEF q
  <1> QED
    BY <1>1, <1>2, <1>4, <1>5, <1>6, <1>7, <1>8 DEF IsPath, q

LEMMA TrailExtends ==
  ASSUME world \in Worlds, model \in Models, NEW l \in Trails, NEW m \in Nodes \ Range(l.path),
         NEW e \in Edges, e.ends = {m, End(l)}
  PROVE  Extended(l, m, e) \in Trails
  <1> DEFINE x == Extended(l, m, e)
             q == Append(l.path, m)
  <1>1. /\ l \in Labels /\ IsPath(l.path) /\ l.delay = Delay(l.path) /\ Narrowest(l)
        /\ l.hops \in Nat /\ Len(l.path) = l.hops + 1 /\ End(l) = l.path[Len(l.path)]
        /\ l.bottleneck \in 1..Infinity
    BY LabelFields DEF Trails, End
  <1>2. /\ x \in Labels /\ x.delay = l.delay + e.delay /\ x.hops = l.hops + 1
        /\ x.bottleneck \in {l.bottleneck, e.capacity} /\ x.bottleneck <= l.bottleneck /\ x.bottleneck <= e.capacity
    BY <1>1, ExtendedFields
  <1>3. x.path = q
    BY DEF Extended
  <1>4. /\ IsPath(q) /\ Link(q, l.hops + 1) = e /\ Delay(q) = Delay(l.path) + e.delay
        /\ \A i \in 1..l.hops : Link(q, i) = Link(l.path, i)
    BY <1>1, PathExtends
  <1>5. e.capacity \in 1..(Infinity - 1) /\ Infinity \in Nat
    BY EdgeFields, RoutingAssumption DEF RoutingAssumption
  <1> HIDE DEF q, x
  <1>6. \A i \in 1..l.hops : Link(l.path, i).capacity \in Nat
    <2> TAKE i \in 1..l.hops
    <2>1. l.path \in Seq(Nodes) /\ Linked(l.path) /\ i \in 1..(Len(l.path) - 1)
      BY <1>1 DEF IsPath
    <2> QED
      BY <2>1, LinkOnPath, EdgeFields
  <1>7. \A i \in 1..x.hops : x.bottleneck <= Link(q, i).capacity
    <2> TAKE i \in 1..x.hops
    <2>1. CASE i = l.hops + 1
      BY <1>2, <1>4, <2>1
    <2>2. CASE i \in 1..l.hops
      <3>1. l.bottleneck <= Link(l.path, i).capacity
        BY <1>1, <2>2 DEF Narrowest
      <3> QED
        BY <1>1, <1>2, <1>4, <1>5, <1>6, <2>2, <3>1
    <2> QED
      BY <1>1, <1>2, <2>1, <2>2
  <1>8. \E i \in 1..x.hops : x.bottleneck = Link(q, i).capacity
    <2>1. CASE x.bottleneck = e.capacity
      BY <1>1, <1>2, <1>4, <2>1
    <2>2. CASE x.bottleneck = l.bottleneck /\ l.bottleneck # e.capacity
      <3>1. l.hops # 0
        BY <1>1, <1>2, <1>5, <2>2 DEF Narrowest
      <3>2. PICK i \in 1..l.hops : l.bottleneck = Link(l.path, i).capacity
        BY <1>1, <3>1 DEF Narrowest
      <3>3. i \in 1..x.hops /\ Link(q, i) = Link(l.path, i)
        BY <1>1, <1>2, <1>4
      <3> QED
        BY <2>2, <3>2, <3>3
    <2> QED
      BY <1>2, <2>1, <2>2
  <1>9. Narrowest(x)
    BY <1>1, <1>2, <1>3, <1>7, <1>8 DEF Narrowest
  <1> QED
    BY <1>1, <1>2, <1>3, <1>4, <1>9 DEF Trails, x

\* Path p is path f and one node more.
Continues(p, f) ==
  /\ IsPath(f)
  /\ Len(f) = Len(p) - 1
  /\ \E m \in Nodes, e \in Edges : p = Append(f, m) /\ m \notin Range(f) /\ e.ends = {m, f[Len(f)]}

\* A path without its last node is one.
LEMMA PathFront == ASSUME NEW p, IsPath(p), Len(p) # 1 PROVE \E f : Continues(p, f)
  <1> DEFINE f == SubSeq(p, 1, Len(p) - 1)
             m == p[Len(p)]
             e == Link(p, Len(p) - 1)
  <1>1. PICK n \in Nat : /\ p \in Seq(Nodes) /\ Len(p) = n + 1 /\ n # 0 /\ p[1] = Source /\ DOMAIN p = 1..(n + 1)
                         /\ IsInjective(p) /\ Linked(p) /\ p \in [1..(n + 1) -> Nodes]
    <2>1. Len(p) \in Nat /\ Len(p) # 0
      BY LenProperties DEF IsPath
    <2>a. Len(p) - 1 \in Nat /\ Len(p) = (Len(p) - 1) + 1 /\ Len(p) - 1 # 0
      BY <2>1
    <2>2. PICK n \in Nat : Len(p) = n + 1 /\ n # 0
      BY <2>a
    <2>3. p \in [1..(n + 1) -> Nodes] /\ DOMAIN p = 1..(n + 1)
      BY <2>2, LenProperties DEF IsPath
    <2> QED
      BY <2>2, <2>3 DEF IsPath
  <1>2. f \in Seq(Nodes) /\ Len(f) = n /\ \A i \in 1..n : f[i] = p[i]
    <2>1. \A i \in 1..n : p[i] \in Nodes
      BY <1>1
    <2>2. Len(p) - 1 = n /\ 1 \in Int /\ n \in Int
      BY <1>1
    <2>3. /\ SubSeq(p, 1, n) \in Seq(Nodes) /\ Len(SubSeq(p, 1, n)) = IF 1 <= n THEN n - 1 + 1 ELSE 0
          /\ \A i \in 1..(n - 1 + 1) : SubSeq(p, 1, n)[i] = p[1 + i - 1]
      BY <2>1, <2>2, SubSeqProperties
    <2> QED
      BY <1>1, <2>2, <2>3
  <1>3. DOMAIN f = 1..n
    BY <1>2, LenProperties
  <1>4. m \in Nodes /\ p[n + 1] = m
    BY <1>1
  <1>5. e \in Edges /\ e.ends = {p[n], p[n + 1]}
    BY <1>1, LinkOnPath
  <1> HIDE DEF f, m, e
  <1>6. p = Append(f, m)
    <2>1. Append(f, m) \in Seq(Nodes) /\ Len(Append(f, m)) = n + 1 /\ Append(f, m)[n + 1] = m
          /\ \A i \in 1..n : Append(f, m)[i] = f[i]
      BY <1>2, <1>4, AppendProperties
    <2>2. \A i \in 1..(n + 1) : p[i] = Append(f, m)[i]
      BY <1>1, <1>2, <1>4, <2>1
    <2> QED
      BY <1>1, <2>1, <2>2, SeqEqual
  <1>7. m \notin Range(f)
    BY <1>1, <1>2, <1>3, <1>4 DEF Range, IsInjective
  <1>8. IsInjective(f)
    BY <1>1, <1>2, <1>3 DEF IsInjective
  <1>9. Linked(f)
    <2> SUFFICES ASSUME NEW i \in 1..(n - 1) PROVE \E x \in Edges : x.ends = {f[i], f[i + 1]}
      BY <1>2 DEF Linked
    <2>1. f[i] = p[i] /\ f[i + 1] = p[i + 1] /\ i \in 1..(Len(p) - 1)
      BY <1>1, <1>2
    <2> QED
      BY <1>1, <2>1 DEF Linked
  <1>10. f[1] = Source /\ e.ends = {m, f[n]}
    BY <1>1, <1>2, <1>4, <1>5
  <1>11. IsPath(f) /\ Len(f) = Len(p) - 1
    BY <1>1, <1>2, <1>8, <1>9, <1>10 DEF IsPath
  <1> QED
    BY <1>2, <1>4, <1>5, <1>6, <1>7, <1>10, <1>11 DEF Continues

\* Every path has its trail.
LEMMA TrailAlong ==
  ASSUME world \in Worlds, model \in Models, NEW p, IsPath(p)
  PROVE  \E l \in Trails : l.path = p
  <1> DEFINE T == {k \in Nat : \E r : IsPath(r) /\ Len(r) = k /\ ~\E l \in Trails : l.path = r}
  <1>1. \A r : IsPath(r) => Len(r) \in Nat \ {0}
    BY LenProperties DEF IsPath
  <1> SUFFICES ASSUME NEW x \in T PROVE FALSE
    BY <1>1
  <1>2. \E k \in T : \A n \in T : k <= n
    <2>1. \A k \in T : k \in Nat
      OBVIOUS
    <2> HIDE DEF T
    <2> QED
      BY <2>1, LeastNatural
  <1>3. PICK k \in T : \A n \in T : k <= n
    BY <1>2
  <1>4. PICK r : IsPath(r) /\ Len(r) = k /\ ~\E l \in Trails : l.path = r
    BY <1>3
  <1>5. CASE k = 1
    <2>1. r = <<Source>>
      <3>1. r \in Seq(Nodes) /\ r[1] = Source
        BY <1>4 DEF IsPath
      <3>2. <<Source>> \in Seq(Nodes) /\ Len(<<Source>>) = 1 /\ <<Source>>[1] = Source
        BY NodesAreNumbers
      <3>3. \A i \in 1..Len(r) : r[i] = <<Source>>[i]
        BY <1>4, <1>5, <3>1, <3>2
      <3> QED
        BY <1>4, <1>5, <3>1, <3>2, <3>3, SeqEqual
    <2> QED
      BY <1>4, <2>1, StartIsTrail
  <1>6. CASE k # 1
    <2>a. PICK f : Continues(r, f)
      BY <1>4, <1>6, PathFront
    <2>1. PICK m \in Nodes, e \in Edges :
            /\ IsPath(f) /\ Len(f) = k - 1 /\ r = Append(f, m)
            /\ m \notin Range(f) /\ e.ends = {m, f[Len(f)]}
      BY <1>4, <2>a DEF Continues
    <2>2. k - 1 \notin T /\ k - 1 \in Nat
      BY <1>1, <1>3, <2>1
    <2>3. PICK l \in Trails : l.path = f
      BY <2>1, <2>2
    <2>4. Extended(l, m, e) \in Trails
      BY <2>1, <2>3, TrailExtends DEF End
    <2>5. Extended(l, m, e).path = r
      BY <2>1, <2>3 DEF Extended
    <2> QED
      BY <1>4, <2>4, <2>5
  <1> QED
    BY <1>5, <1>6

\* A path has one trail.
LEMMA TrailUnique ==
  ASSUME world \in Worlds, model \in Models, NEW a \in Trails, NEW b \in Trails, a.path = b.path
  PROVE  a = b
  <1>1. /\ a \in [delay : Nat, hops : Nat, path : Seq(Nodes), bottleneck : 1..Infinity]
        /\ b \in [delay : Nat, hops : Nat, path : Seq(Nodes), bottleneck : 1..Infinity]
        /\ a.hops + 1 = b.hops + 1 /\ a.delay = b.delay /\ Narrowest(a) /\ Narrowest(b)
    BY DEF Trails, Labels
  <1>2. a.hops = b.hops
    BY <1>1
  <1>3. a.bottleneck = b.bottleneck
    <2>1. CASE a.hops = 0
      BY <1>1, <1>2, <2>1 DEF Narrowest
    <2>2. CASE a.hops # 0
      <3>1. PICK i \in 1..a.hops : a.bottleneck = Link(a.path, i).capacity
        BY <1>1, <2>2 DEF Narrowest
      <3>2. PICK k \in 1..a.hops : b.bottleneck = Link(a.path, k).capacity
        BY <1>1, <1>2, <2>2 DEF Narrowest
      <3>3. a.bottleneck <= b.bottleneck /\ b.bottleneck <= a.bottleneck
        BY <1>1, <1>2, <3>1, <3>2 DEF Narrowest
      <3> QED
        BY <1>1, <3>3
    <2> QED
      BY <2>1, <2>2
  <1> QED
    BY <1>1, <1>2, <1>3

\* A trail over a link is the extension of one before that link.
LEMMA TrailSplit ==
  ASSUME world \in Worlds, model \in Models, NEW x \in Trails, x.hops # 0
  PROVE  \E l \in Trails, m \in Nodes, e \in Edges :
           m \notin Range(l.path) /\ e.ends = {m, End(l)} /\ x = Extended(l, m, e) /\ l.hops = x.hops - 1
  <1>1. IsPath(x.path) /\ x \in Labels /\ x.hops \in Nat /\ Len(x.path) = x.hops + 1
    BY LabelFields DEF Trails
  <1>a. PICK f : Continues(x.path, f)
    <2>1. Len(x.path) # 1
      BY <1>1
    <2> QED
      BY <1>1, <2>1, PathFront
  <1>2. PICK m \in Nodes, e \in Edges :
          /\ IsPath(f) /\ Len(f) = Len(x.path) - 1 /\ x.path = Append(f, m)
          /\ m \notin Range(f) /\ e.ends = {m, f[Len(f)]}
    BY <1>a DEF Continues
  <1>3. PICK l \in Trails : l.path = f
    BY <1>2, TrailAlong
  <1>4. Extended(l, m, e) \in Trails
    BY <1>2, <1>3, TrailExtends DEF End
  <1>5. Extended(l, m, e).path = x.path
    BY <1>2, <1>3 DEF Extended
  <1>6. x = Extended(l, m, e)
    BY <1>4, <1>5, TrailUnique
  <1>7. l.hops = x.hops - 1
    BY <1>1, <1>2, <1>3, LabelFields DEF Trails
  <1> QED
    BY <1>2, <1>3, <1>6, <1>7 DEF End

LEMMA MinIs ==
  ASSUME NEW S, \A y \in S : y \in Int, NEW x \in S, \A y \in S : x <= y
  PROVE  Min(S) = x
  <1>1. Min(S) \in S /\ \A y \in S : Min(S) <= y
    BY DEF Min
  <1>2. Min(S) <= x /\ x <= Min(S)
    BY <1>1
  <1> QED
    BY <1>1, <1>2

\* The routes are the trails that end at the target.
LEMMA RoutesAreTrails ==
  ASSUME world \in Worlds, model \in Models
  PROVE  Routes = {l \in Trails : End(l) = Target}
  <1>1. ASSUME NEW l \in Trails, l.hops # 0
        PROVE  Along(l.path) = l
    <2>1. /\ l \in [delay : Nat, hops : Nat, path : Seq(Nodes), bottleneck : 1..Infinity]
          /\ Len(l.path) = l.hops + 1 /\ l.delay = Delay(l.path) /\ Narrowest(l)
          /\ l.path \in Seq(Nodes) /\ Linked(l.path) /\ l.hops \in Nat /\ Len(l.path) - 1 = l.hops
      BY DEF Trails, Labels, IsPath
    <2> DEFINE S == {Link(l.path, i).capacity : i \in 1..l.hops}
    <2>2. \A y \in S : y \in Int
      <3>1. \A i \in 1..l.hops : Link(l.path, i) \in Edges
        BY <2>1, LinkOnPath
      <3> QED
        BY <3>1, EdgeFields
    <2>3. l.bottleneck \in S /\ \A y \in S : l.bottleneck <= y
      BY <1>1, <2>1 DEF Narrowest
    <2>4. Bottleneck(l.path) = Min(S)
      BY <2>1 DEF Bottleneck
    <2> HIDE DEF S
    <2>5. Bottleneck(l.path) = l.bottleneck
      BY <2>2, <2>3, <2>4, MinIs
    <2> QED
      BY <2>1, <2>5 DEF Along
  <1>2. ASSUME NEW l \in Trails, End(l) = Target
        PROVE  l \in Routes
    <2>1. /\ IsPath(l.path) /\ l.hops \in Nat /\ Len(l.path) = l.hops + 1
          /\ l.path \in Seq(Nodes) /\ l.path[1] = Source /\ IsInjective(l.path) /\ Linked(l.path)
          /\ l.path[Len(l.path)] = Target
      BY <1>2, LabelFields DEF Trails, IsPath, End
    <2>2. l.hops # 0
      BY <2>1, NodesAreNumbers
    <2>3. Len(l.path) <= SatelliteCount + 2
      <3>1. l.path \in Injection(1..Len(l.path), Nodes)
        BY <2>1, LenProperties DEF Injection, IsInjective
      <3>2. IsFiniteSet(Nodes) /\ Cardinality(Nodes) = SatelliteCount + 2
        BY RoutingAssumption, FS_Interval DEF RoutingAssumption, Nodes, Target
      <3>3. Cardinality(1..Len(l.path)) <= Cardinality(Nodes)
        BY <3>1, <3>2, FS_Injection
      <3>4. Cardinality(1..Len(l.path)) = Len(l.path)
        BY <2>1, FS_Interval
      <3> QED
        BY <3>2, <3>3, <3>4
    <2>4. l.path \in Paths
      <3>1. PICK n \in 2..(SatelliteCount + 2) : n = Len(l.path)
        BY <2>1, <2>2, <2>3, RoutingAssumption DEF RoutingAssumption
      <3>2. l.path \in [1..n -> Nodes]
        BY <2>1, <3>1, LenProperties
      <3> QED
        BY <2>1, <3>1, <3>2 DEF Paths
    <2> QED
      BY <1>1, <2>1, <2>2, <2>4 DEF Routes
  <1>3. ASSUME NEW r \in Routes
        PROVE  r \in Trails /\ End(r) = Target
    <2>1. PICK p \in Paths : Linked(p) /\ r = Along(p)
      BY <1>3 DEF Routes
    <2>2. PICK n \in 2..(SatelliteCount + 2) :
            p \in [1..n -> Nodes] /\ p[1] = Source /\ p[Len(p)] = Target /\ IsInjective(p)
      BY <2>1 DEF Paths
    <2>3. p \in Seq(Nodes) /\ Len(p) > 1
      BY <2>2, SeqDef
    <2>4. PICK l \in Trails : l.path = p
      BY <2>1, <2>2, <2>3, TrailAlong DEF IsPath
    <2>5. l.hops # 0 /\ End(l) = Target
      BY <2>2, <2>3, <2>4, LabelFields DEF Trails, End
    <2> QED
      BY <1>1, <2>1, <2>4, <2>5
  <1> QED
    BY <1>2, <1>3

\* Of two trails one is the first.
LEMMA TrailsOrdered ==
  ASSUME world \in Worlds, model \in Models, NEW a \in Trails, NEW b \in Trails, a # b
  PROVE  Less(a, b) \/ Less(b, a)
  <1>1. /\ a.delay \in Nat /\ a.hops \in Nat /\ a.path \in [1..(a.hops + 1) -> Nat]
        /\ b.delay \in Nat /\ b.hops \in Nat /\ b.path \in [1..(b.hops + 1) -> Nat]
    BY LabelFields DEF Trails
  <1>2. a.path # b.path
    BY TrailUnique
  <1>3. CASE a.delay = b.delay /\ a.hops = b.hops
    <2>1. PICK n \in Nat : n = a.hops + 1
      BY <1>1
    <2>2. LexLess(a.path, b.path) \/ LexLess(b.path, a.path)
      BY <1>1, <1>2, <1>3, <2>1, LexTotal
    <2> QED
      BY <1>3, <2>2 DEF Less
  <1> QED
    BY <1>1, <1>3 DEF Less

----------------------------------------------------------------------------
(* shortest_path.                                                          *)

\* The trails over links that are wide enough.
Good == {l \in Trails : l.bottleneck >= minimum}

\* The nodes whose best label has been popped.
Settled == {node \in DOMAIN best : best[node] \notin heap}

BestTyped ==
  /\ DOMAIN best \subseteq Nodes
  /\ \A node \in DOMAIN best : best[node] \in Good /\ End(best[node]) = node
  /\ Source \in DOMAIN best /\ best[Source] = Start

HeapTyped == heap \subseteq Good /\ \A label \in heap : End(label) \in DOMAIN best

\* What is settled comes before all that is to pop.
InOrder == \A node \in Settled : \A label \in heap : Less(best[node], label)

\* A best label leads over settled nodes, nearer ones.
OverSettled ==
  \A node \in DOMAIN best : \A i \in 1..best[node].hops :
    best[node].path[i] \in Settled /\ best[best[node].path[i]].delay < best[node].delay

\* The neighbours of a settled node have labels no worse than over it.
Relaxed ==
  \A node \in Settled : \A next \in Nodes : \A edge \in Edges :
    edge.ends = {next, node} /\ edge.capacity >= minimum =>
      next \in DOMAIN best /\ ~Less(Extended(best[node], next, edge), best[next])

Shortening == minimum \in 0..Infinity /\ BestTyped /\ HeapTyped /\ InOrder /\ OverSettled /\ Relaxed /\ Target \notin Settled

\* Whatever a trail promises, a settled node or an entry of the heap does.
LEMMA TrailsAnswered ==
  ASSUME world \in Worlds, model \in Models, Shortening, NEW l \in Good
  PROVE  \/ End(l) \in Settled /\ ~Less(l, best[End(l)])
         \/ \E label \in heap : ~Less(l, label)
  <1> DEFINE Answered(x) == \/ End(x) \in Settled /\ ~Less(x, best[End(x)])
                            \/ \E label \in heap : ~Less(x, label)
             T == {k \in Nat : \E x \in Good : x.hops = k /\ ~Answered(x)}
  <1>1. \A x \in Good : x \in Trails /\ x \in Labels /\ x.hops \in Nat
    BY LabelFields DEF Good, Trails
  <1> SUFFICES ASSUME NEW y \in T PROVE FALSE
    BY <1>1
  <1>2. \E k \in T : \A n \in T : k <= n
    <2>1. \A k \in T : k \in Nat
      OBVIOUS
    <2> HIDE DEF T
    <2> QED
      BY <2>1, LeastNatural
  <1>3. PICK k \in T : \A n \in T : k <= n
    BY <1>2
  <1>4. PICK x \in Good : x.hops = k /\ ~Answered(x)
    BY <1>3
  <1>5. CASE k = 0
    <2>1. x = Start
      <3>1. x \in Trails /\ x.path = <<Source>>
        <4>1. x.path \in Seq(Nodes) /\ Len(x.path) = 1 /\ x.path[1] = Source
          <5>1. x \in Labels /\ IsPath(x.path) /\ x.hops = 0
            BY <1>1, <1>4, <1>5 DEF Trails
          <5>2. Len(x.path) = x.hops + 1 /\ x.path \in Seq(Nodes)
            BY <5>1, LabelFields
          <5> QED
            BY <5>1, <5>2 DEF IsPath
        <4>2. <<Source>> \in Seq(Nodes) /\ Len(<<Source>>) = 1 /\ <<Source>>[1] = Source
          BY NodesAreNumbers
        <4>3. \A i \in 1..Len(x.path) : x.path[i] = <<Source>>[i]
          BY <4>1, <4>2
        <4> QED
          BY <1>1, <4>1, <4>2, <4>3, SeqEqual
      <3> QED
        BY <3>1, StartIsTrail, TrailUnique
    <2>2. ~Less(Start, Start) /\ End(Start) = Source
      BY StartIsTrail, LessIrreflexive DEF Trails
    <2>3. best[Source] = Start /\ Source \in DOMAIN best
      BY DEF Shortening, BestTyped
    <2> QED
      BY <1>4, <2>1, <2>2, <2>3 DEF Settled
  <1>6. CASE k # 0
    <2>1. PICK a \in Trails, m \in Nodes, e \in Edges :
            m \notin Range(a.path) /\ e.ends = {m, End(a)} /\ x = Extended(a, m, e) /\ a.hops = x.hops - 1
      BY <1>1, <1>4, <1>6, TrailSplit
    <2>2. a \in Labels /\ x \in Labels /\ a.hops \in Nat /\ a.bottleneck \in Nat /\ e.capacity \in Nat
          /\ x.bottleneck \in Nat /\ Less(a, x) /\ End(x) = m
          /\ x.bottleneck <= a.bottleneck /\ x.bottleneck <= e.capacity
      <3>1. a \in Labels /\ x \in Labels
        BY <1>1 DEF Trails
      <3>2. a.hops \in Nat /\ a.bottleneck \in Nat /\ x.bottleneck \in Nat
        BY <3>1, LabelFields, RoutingAssumption DEF RoutingAssumption
      <3>3. e.capacity \in Nat
        BY EdgeFields, RoutingAssumption DEF RoutingAssumption
      <3> QED
        BY <2>1, <3>1, <3>2, <3>3, ExtendedFields
    <2>3. a \in Good /\ e.capacity >= minimum
      <3>1. x.bottleneck >= minimum /\ minimum \in Int
        BY <1>4, RoutingAssumption DEF Good, Shortening, RoutingAssumption
      <3>2. a.bottleneck >= minimum /\ e.capacity >= minimum
        BY <2>2, <3>1
      <3> QED
        BY <2>1, <3>2 DEF Good
    <2>4. Answered(a)
      <3>1. a.hops \notin T
        BY <1>3, <1>4, <2>1, <2>2
      <3> QED
        BY <2>2, <2>3, <3>1
    <2>5. CASE \E label \in heap : ~Less(a, label)
      <3>1. PICK label \in heap : ~Less(a, label)
        BY <2>5
      <3>2. label \in Labels
        BY <1>1 DEF Shortening, HeapTyped
      <3>3. ~Less(x, label)
        BY <2>2, <3>1, <3>2, LessTransitive
      <3> QED
        BY <1>4, <3>3
    <2>6. CASE End(a) \in Settled /\ ~Less(a, best[End(a)])
      <3> DEFINE b == best[End(a)]
      <3>1. b \in Labels /\ End(a) \in DOMAIN best
        BY <1>1, <2>6 DEF Shortening, BestTyped, Settled
      <3>2. m \in DOMAIN best /\ ~Less(Extended(b, m, e), best[m])
        BY <2>1, <2>3, <2>6 DEF Shortening, Relaxed
      <3>3. best[m] \in Labels
        BY <1>1, <3>2 DEF Shortening, BestTyped
      <3>4. ~Less(x, Extended(b, m, e))
        BY <2>1, <2>2, <2>6, <3>1, ExtendedMonotone
      <3>5. Extended(b, m, e) \in Labels
        BY <3>1, ExtendedFields
      <3>6. ~Less(x, best[m])
        BY <2>2, <3>2, <3>3, <3>4, <3>5, LessConnex
      <3> QED
        BY <1>4, <2>2, <3>2, <3>6 DEF Settled
    <2> QED
      BY <2>4, <2>5, <2>6
  <1> QED
    BY <1>5, <1>6

\* What popping the label does when the loop goes on: better are the labels pushed.
Pops(label, better) ==
  /\ label \in heap /\ \A other \in heap \ {label} : Less(label, other)
  /\ heap' = (heap \ {label}) \union better
  /\ best[End(label)] = label => End(label) # Target
  /\ \A b \in better :
       /\ best[End(label)] = label
       /\ b \in Good /\ Less(label, b) /\ Improves(b)
       /\ \E m \in Nodes, e \in Edges : m \notin Range(label.path) /\ b = Extended(label, m, e) /\ End(b) = m
  /\ \A a, b \in better : End(a) = End(b) => a = b
  /\ DOMAIN best' = DOMAIN best \union {End(b) : b \in better}
  /\ \A b \in better : best'[End(b)] = b
  /\ \A node \in DOMAIN best : (\A b \in better : End(b) # node) => best'[node] = best[node]
  /\ best[End(label)] = label =>
       \A m \in Nodes \ Range(label.path), e \in Edges :
         e.ends = {m, End(label)} /\ e.capacity >= minimum =>
           Extended(label, m, e) \in better \/ ~Improves(Extended(label, m, e))

LEMMA LabelledIs ==
  ASSUME NEW better, \A a \in better, b \in better : End(a) = End(b) => a = b, best' = Labelled(better)
  PROVE  /\ DOMAIN best' = DOMAIN best \union {End(b) : b \in better}
         /\ \A b \in better : best'[End(b)] = b
         /\ \A node \in DOMAIN best : (\A b \in better : End(b) # node) => best'[node] = best[node]
  <1>1. DOMAIN best' = DOMAIN best \union {End(b) : b \in better}
    BY DEF Labelled
  <1>2. ASSUME NEW b \in better
        PROVE  best'[End(b)] = b
    <2>1. (CHOOSE l \in better : End(l) = End(b)) \in better /\ End(CHOOSE l \in better : End(l) = End(b)) = End(b)
      OBVIOUS
    <2>2. (CHOOSE l \in better : End(l) = End(b)) = b
      BY <2>1
    <2>3. End(b) \in DOMAIN best \union {End(l) : l \in better}
      OBVIOUS
    <2>4. best'[End(b)] = CHOOSE l \in better : End(l) = End(b)
      BY <2>3 DEF Labelled
    <2> QED
      BY <2>2, <2>4
  <1>3. ASSUME NEW node \in DOMAIN best, \A b \in better : End(b) # node
        PROVE  best'[node] = best[node]
    BY <1>3 DEF Labelled
  <1> QED
    BY <1>1, <1>2, <1>3

LEMMA PopEffect ==
  ASSUME world \in Worlds, model \in Models, Shortening, Pop, phase' = "shorten"
  PROVE  \E label, better : Pops(label, better)
  <1>1. PICK label \in heap :
          /\ First(label)
          /\ best[End(label)] = label => End(label) # Target
          /\ LET better == IF best[End(label)] = label THEN {l \in Candidates(label) : Improves(l)} ELSE {}
             IN heap' = (heap \ {label}) \union better /\ best' = Labelled(better)
    BY DEF Pop
  <1> DEFINE better == IF best[End(label)] = label THEN {l \in Candidates(label) : Improves(l)} ELSE {}
  <1>2. heap' = (heap \ {label}) \union better /\ best' = Labelled(better)
    BY <1>1
  <1>3. label \in Good /\ label \in Trails /\ label \in Labels /\ minimum \in Nat /\ label.bottleneck \in Nat
    <2>1. label \in Good /\ label \in Trails /\ label \in Labels /\ minimum \in Nat
      BY RoutingAssumption DEF Shortening, HeapTyped, Good, Trails, RoutingAssumption
    <2> QED
      BY <2>1, LabelFields, RoutingAssumption DEF RoutingAssumption
  <1>4. ASSUME NEW b \in better
        PROVE  /\ best[End(label)] = label /\ Improves(b)
               /\ \E m \in Nodes, e \in Edges :
                    /\ m \notin Range(label.path) /\ e.ends = {m, End(label)} /\ e.capacity >= minimum
                    /\ b = Extended(label, m, e)
    BY <1>4 DEF Candidates
  <1>5. ASSUME NEW m \in Nodes \ Range(label.path), NEW e \in Edges, e.ends = {m, End(label)}, e.capacity >= minimum
        PROVE  /\ Extended(label, m, e) \in Good /\ Less(label, Extended(label, m, e)) /\ End(Extended(label, m, e)) = m
               /\ best[End(label)] = label => Extended(label, m, e) \in Candidates(label)
    <2>1. Extended(label, m, e) \in Trails
      BY <1>3, <1>5, TrailExtends
    <2>2. /\ Less(label, Extended(label, m, e)) /\ End(Extended(label, m, e)) = m
          /\ Extended(label, m, e).bottleneck \in {label.bottleneck, e.capacity}
      BY <1>3, ExtendedFields
    <2>3. Extended(label, m, e) \in Good
      BY <1>3, <1>5, <2>1, <2>2 DEF Good
    <2>4. Extended(label, m, e) \in Candidates(label)
      BY <1>5 DEF Candidates
    <2> QED
      BY <2>2, <2>3, <2>4
  <1>6. ASSUME NEW b \in better
        PROVE  /\ b \in Good /\ Less(label, b)
               /\ \E m \in Nodes, e \in Edges : m \notin Range(label.path) /\ b = Extended(label, m, e) /\ End(b) = m
    <2>1. PICK m \in Nodes, e \in Edges :
            /\ m \notin Range(label.path) /\ e.ends = {m, End(label)} /\ e.capacity >= minimum
            /\ b = Extended(label, m, e)
      BY <1>4
    <2> QED
      BY <1>5, <2>1
  <1>7. ASSUME NEW a \in better, NEW b \in better, End(a) = End(b)
        PROVE  a = b
    <2>1. PICK m \in Nodes, e \in Edges :
            /\ m \notin Range(label.path) /\ e.ends = {m, End(label)} /\ e.capacity >= minimum
            /\ a = Extended(label, m, e)
      BY <1>4
    <2>2. PICK n \in Nodes, f \in Edges :
            /\ n \notin Range(label.path) /\ f.ends = {n, End(label)} /\ f.capacity >= minimum
            /\ b = Extended(label, n, f)
      BY <1>4
    <2>3. m = n
      BY <1>5, <1>7, <2>1, <2>2
    <2>4. e = f
      BY <2>1, <2>2, <2>3, EdgeUnique
    <2> QED
      BY <2>1, <2>2, <2>3, <2>4
  <1>8. best[End(label)] = label =>
          \A m \in Nodes \ Range(label.path), e \in Edges :
            e.ends = {m, End(label)} /\ e.capacity >= minimum =>
              Extended(label, m, e) \in better \/ ~Improves(Extended(label, m, e))
    BY <1>5
  <1>9. \A other \in heap \ {label} : Less(label, other)
    BY <1>1 DEF First
  <1>a. \A b \in better : best[End(label)] = label /\ Improves(b)
    BY <1>4
  <1> HIDE DEF better
  <1>10. /\ DOMAIN best' = DOMAIN best \union {End(b) : b \in better}
         /\ \A b \in better : best'[End(b)] = b
         /\ \A node \in DOMAIN best : (\A b \in better : End(b) # node) => best'[node] = best[node]
    BY <1>2, <1>7, LabelledIs
  <1>11. Pops(label, better)
    BY <1>1, <1>2, <1>a, <1>6, <1>7, <1>8, <1>9, <1>10 DEF Pops
  <1> QED
    BY <1>11

\* The links, and so the trails and the routes, are the breakpoint's.
LEMMA GraphStays ==
  ASSUME world' = world, model' = model
  PROVE  Edges' = Edges /\ Trails' = Trails /\ Routes' = Routes /\ Eligible' = Eligible
  <1>1. Edges' = Edges
    <2>1. \A link : Capacity(link)' = Capacity(link)
      BY DEF Capacity
    <2>2. /\ \A x \in Satellites : Up(x)' = Up(x) /\ Down(x)' = Down(x)
          /\ \A pair \in Pairs : Isl(pair)' = Isl(pair)
      BY DEF Up, Down, Isl, Capacity
    <2> QED
      BY <2>2 DEF Edges
  <1>2. \A p : Linked(p)' <=> Linked(p)
    BY <1>1 DEF Linked
  <1>3. \A p, i : Link(p, i)' = Link(p, i)
    BY <1>1 DEF Link
  <1>4. \A p : Delay(p)' = Delay(p)
    BY <1>3 DEF Delay
  <1>5. \A p : Bottleneck(p)' = Bottleneck(p)
    BY <1>3 DEF Bottleneck
  <1>6. \A p : IsPath(p)' <=> IsPath(p)
    BY <1>2 DEF IsPath
  <1>7. \A l : Narrowest(l)' <=> Narrowest(l)
    BY <1>3 DEF Narrowest
  <1>8. Trails' = Trails
    BY <1>4, <1>6, <1>7 DEF Trails
  <1>9. \A p : Along(p)' = Along(p)
    BY <1>4, <1>5 DEF Along
  <1>10. Routes' = Routes
    BY <1>2, <1>9 DEF Routes
  <1>11. Eligible' = Eligible
    BY <1>10 DEF Eligible
  <1> QED
    BY <1>1, <1>8, <1>10, <1>11

\* What a pop settles, and that it unsettles nothing.
LEMMA PopSettles ==
  ASSUME world \in Worlds, model \in Models, Shortening, NEW label, NEW better, Pops(label, better)
  PROVE  /\ \A node \in Settled : node \in Settled' /\ best'[node] = best[node]
         /\ \A node \in Settled' :
              \/ node \in Settled
              \/ node = End(label) /\ best[node] = label /\ best'[node] = label
         /\ best[End(label)] = label => End(label) \in Settled' /\ best'[End(label)] = label
  <1>1. \A x \in Good : x \in Labels
    BY DEF Good, Trails
  <1>2. /\ label \in heap /\ label \in Labels /\ End(label) \in DOMAIN best
        /\ heap' = (heap \ {label}) \union better
        /\ \A b \in better : b \in Labels /\ Less(label, b) /\ Improves(b)
        /\ \A node \in DOMAIN best : best[node] \in Labels /\ End(best[node]) = node
    BY <1>1 DEF Pops, Shortening, HeapTyped, BestTyped
  <1>3. /\ DOMAIN best' = DOMAIN best \union {End(b) : b \in better}
        /\ \A b \in better : best'[End(b)] = b
        /\ \A node \in DOMAIN best : (\A b \in better : End(b) # node) => best'[node] = best[node]
    BY DEF Pops
  <1>4. ASSUME NEW node \in Settled
        PROVE  node \in Settled' /\ best'[node] = best[node]
    <2>1. node \in DOMAIN best /\ best[node] \notin heap /\ Less(best[node], label)
      BY <1>2 DEF Settled, Shortening, InOrder
    <2>2. ASSUME NEW b \in better, Less(b, best[node])
          PROVE  FALSE
      <3>1. Less(label, best[node])
        BY <1>2, <2>1, <2>2, LessTransitive
      <3>2. Less(label, label)
        BY <1>2, <2>1, <3>1, LessTransitive
      <3> QED
        BY <1>2, <3>2, LessIrreflexive
    <2>3. \A b \in better : End(b) # node
      BY <1>2, <2>1, <2>2 DEF Improves
    <2>4. best'[node] = best[node]
      BY <1>3, <2>1, <2>3
    <2>5. best[node] \notin better
      BY <1>2, <2>1, <2>3
    <2> QED
      BY <1>2, <1>3, <2>1, <2>4, <2>5 DEF Settled
  <1>5. ASSUME NEW node \in Settled'
        PROVE  \/ node \in Settled
               \/ node = End(label) /\ best[node] = label /\ best'[node] = label
    <2>1. node \in DOMAIN best' /\ best'[node] \notin heap'
      BY DEF Settled
    <2>2. \A b \in better : End(b) # node
      BY <1>2, <1>3, <2>1
    <2>3. node \in DOMAIN best /\ best'[node] = best[node]
      BY <1>3, <2>1, <2>2
    <2>4. best[node] \notin heap \/ best[node] = label
      BY <1>2, <2>1, <2>3
    <2> QED
      BY <1>2, <2>3, <2>4 DEF Settled
  <1>6. ASSUME best[End(label)] = label
        PROVE  End(label) \in Settled' /\ best'[End(label)] = label
    <2>1. ASSUME NEW b \in better
          PROVE  End(b) # End(label) /\ b # label
      <3>1. PICK m \in Nodes : m \notin Range(label.path) /\ End(b) = m
        BY DEF Pops
      <3>2. End(label) \in Range(label.path)
        BY <1>2, LabelFields DEF Range, End
      <3>3. ~Less(label, label)
        BY <1>2, LessIrreflexive
      <3> QED
        BY <1>2, <3>1, <3>2, <3>3
    <2>2. best'[End(label)] = label /\ End(label) \in DOMAIN best'
      BY <1>2, <1>3, <1>6, <2>1
    <2>3. label \notin heap'
      BY <1>2, <2>1
    <2> QED
      BY <2>2, <2>3 DEF Settled
  <1> QED
    BY <1>4, <1>5, <1>6

LEMMA PopShortens ==
  ASSUME world \in Worlds, model \in Models, Shortening, world' = world, model' = model, minimum' = minimum,
         NEW label, NEW better, Pops(label, better)
  PROVE  Shortening'
  <1>1. Edges' = Edges /\ Good' = Good
    BY GraphStays DEF Good
  <1>2. \A x \in Good : x \in Labels /\ x.hops \in Nat /\ x.delay \in Nat
    BY LabelFields DEF Good, Trails
  <1>3. /\ label \in heap /\ label \in Good /\ End(label) \in DOMAIN best
        /\ heap \subseteq Good /\ \A l \in heap : End(l) \in DOMAIN best
        /\ DOMAIN best \subseteq Nodes /\ \A node \in DOMAIN best : best[node] \in Good /\ End(best[node]) = node
        /\ Source \in DOMAIN best /\ best[Source] = Start
    BY DEF Pops, Shortening, HeapTyped, BestTyped
  <1>4. /\ heap' = (heap \ {label}) \union better
        /\ DOMAIN best' = DOMAIN best \union {End(b) : b \in better}
        /\ \A b \in better : best'[End(b)] = b
        /\ \A node \in DOMAIN best : (\A b \in better : End(b) # node) => best'[node] = best[node]
    BY DEF Pops
  <1>5. \A b \in better :
          /\ best[End(label)] = label /\ b \in Good /\ Less(label, b) /\ Improves(b)
          /\ \E m \in Nodes, e \in Edges : m \notin Range(label.path) /\ b = Extended(label, m, e) /\ End(b) = m
    BY DEF Pops
  <1>6. /\ \A node \in Settled : node \in Settled' /\ best'[node] = best[node]
        /\ \A node \in Settled' :
             \/ node \in Settled
             \/ node = End(label) /\ best[node] = label /\ best'[node] = label
        /\ best[End(label)] = label => End(label) \in Settled' /\ best'[End(label)] = label
    BY PopSettles
  <1>7. ASSUME NEW node \in DOMAIN best'
        PROVE  \/ best'[node] \in better /\ End(best'[node]) = node
               \/ node \in DOMAIN best /\ best'[node] = best[node]
    BY <1>4
  <1>8. BestTyped'
    <2>1. \A b \in better : End(b) \in Nodes
      BY <1>5
    <2>2. DOMAIN best' \subseteq Nodes
      BY <1>3, <1>4, <2>1
    <2>3. \A node \in DOMAIN best' : best'[node] \in Good /\ End(best'[node]) = node
      BY <1>3, <1>5, <1>7
    <2>4. Source \in DOMAIN best' /\ best'[Source] = Start
      <3>1. \A b \in better : End(b) # Source
        <4>1. label.path[1] = Source /\ 1 \in DOMAIN label.path
          <5>1. label \in Labels /\ IsPath(label.path)
            BY <1>3 DEF Good, Trails
          <5> QED
            BY <5>1, LabelFields DEF IsPath
        <4>2. Source \in Range(label.path)
          BY <4>1 DEF Range
        <4> QED
          BY <1>5, <4>2
      <3> QED
        BY <1>3, <1>4, <3>1
    <2> QED
      BY <1>1, <2>2, <2>3, <2>4 DEF BestTyped
  <1>9. HeapTyped'
    <2>1. \A l \in heap' : l \in Good /\ End(l) \in DOMAIN best'
      BY <1>3, <1>4, <1>5
    <2> QED
      BY <1>1, <2>1 DEF HeapTyped
  <1>10. InOrder'
    <2> SUFFICES ASSUME NEW node \in Settled', NEW other \in heap'
                 PROVE  Less(best'[node], other)
      BY DEF InOrder
    <2>1. \A l \in heap \ {label} : Less(label, l)
      BY DEF Pops
    <2>2. Less(label, other) /\ other \in Good
      BY <1>3, <1>4, <1>5, <2>1
    <2>3. CASE node \in Settled
      <3>1. Less(best[node], label) /\ best[node] \in Good /\ best'[node] = best[node]
        BY <1>3, <1>6, <2>3 DEF Shortening, InOrder, Settled
      <3> QED
        BY <1>2, <1>3, <2>2, <3>1, LessTransitive
    <2>4. CASE node \notin Settled
      BY <1>6, <2>2, <2>4
    <2> QED
      BY <2>3, <2>4
  <1>11. OverSettled'
    <2> SUFFICES ASSUME NEW node \in DOMAIN best', NEW i \in 1..best'[node].hops
                 PROVE  /\ best'[node].path[i] \in Settled'
                        /\ best'[best'[node].path[i]].delay < best'[node].delay
      BY DEF OverSettled
    <2>1. \A n \in DOMAIN best : \A k \in 1..best[n].hops :
            /\ best[n].path[k] \in Settled' /\ best'[best[n].path[k]] = best[best[n].path[k]]
            /\ best[best[n].path[k]].delay < best[n].delay
      BY <1>6 DEF Shortening, OverSettled
    <2>2. CASE node \in DOMAIN best /\ best'[node] = best[node]
      BY <2>1, <2>2
    <2>3. CASE best'[node] \in better
      <3>1. PICK m \in Nodes, e \in Edges : best'[node] = Extended(label, m, e)
        BY <1>5, <2>3
      <3>2. /\ best'[node].hops = label.hops + 1 /\ best'[node].delay > label.delay
            /\ \A k \in 1..(label.hops + 1) : best'[node].path[k] = label.path[k]
            /\ best'[node].delay \in Nat /\ label.delay \in Nat /\ label.hops \in Nat
        <4>1. PICK b : b = best'[node]
          OBVIOUS
        <4>2. b \in Labels /\ b.delay \in Nat /\ label \in Labels /\ label.delay \in Nat /\ label.hops \in Nat
          BY <1>2, <1>3, <1>5, <2>3, <4>1
        <4>3. /\ b.hops = label.hops + 1 /\ b.delay > label.delay
              /\ \A k \in 1..(label.hops + 1) : b.path[k] = label.path[k]
          BY <3>1, <4>1, <4>2, ExtendedFields
        <4> QED
          BY <4>1, <4>2, <4>3
      <3>3. best[End(label)] = label /\ End(label) \in Settled' /\ best'[End(label)] = label
        BY <1>5, <1>6, <2>3
      <3>4. End(label) = label.path[label.hops + 1]
        BY <1>2, <1>3, LabelFields
      <3>5. CASE i = label.hops + 1
        BY <3>2, <3>3, <3>4, <3>5
      <3>6. CASE i \in 1..label.hops
        <4> DEFINE k == label.path[i]
        <4>1. k \in Settled' /\ best'[k] = best[k] /\ best[k].delay < label.delay
          BY <1>3, <2>1, <3>3, <3>6
        <4>2. best'[node].path[i] = k
          BY <3>2, <3>6
        <4>3. best[k].delay \in Nat
          <5>1. k \in Settled
            BY <1>3, <3>3, <3>6 DEF Shortening, OverSettled
          <5> QED
            BY <1>2, <1>3, <5>1 DEF Settled
        <4>4. best[k].delay < best'[node].delay
          <5> HIDE DEF k
          <5> QED
            BY <3>2, <4>1, <4>3
        <4> QED
          BY <4>1, <4>2, <4>4
      <3> QED
        BY <3>2, <3>5, <3>6
    <2> QED
      BY <1>7, <2>2, <2>3
  <1>12. Relaxed'
    <2> SUFFICES ASSUME NEW node \in Settled', NEW m \in Nodes, NEW e \in Edges,
                        e.ends = {m, node}, e.capacity >= minimum
                 PROVE  m \in DOMAIN best' /\ ~Less(Extended(best'[node], m, e), best'[m])
      BY <1>1 DEF Relaxed
    <2>a. ASSUME NEW n \in DOMAIN best
          PROVE  n \in DOMAIN best' /\ best'[n] \in Good /\ (best'[n] = best[n] \/ Less(best'[n], best[n]))
      BY <1>3, <1>4, <1>5, <1>7 DEF Improves
    <2>b. ASSUME NEW x \in Labels, NEW n \in DOMAIN best, ~Less(x, best[n])
          PROVE  ~Less(x, best'[n])
      BY <1>2, <1>3, <2>a, <2>b, LessTransitive
    <2>1. CASE node \in Settled
      <3>1. m \in DOMAIN best /\ ~Less(Extended(best[node], m, e), best[m]) /\ best'[node] = best[node]
        BY <1>6, <2>1 DEF Shortening, Relaxed
      <3>2. Extended(best[node], m, e) \in Labels
        BY <1>2, <1>3, <2>1, ExtendedFields DEF Settled
      <3> QED
        BY <2>a, <2>b, <3>1, <3>2
    <2>2. CASE node = End(label) /\ best[node] = label /\ best'[node] = label
      <3> DEFINE x == Extended(label, m, e)
      <3>1. x \in Labels /\ x.delay > label.delay /\ x.delay \in Nat /\ End(x) = m /\ Less(label, x)
        BY <1>2, <1>3, LabelFields, ExtendedFields
      <3>2. CASE m \notin Range(label.path)
        <4>1. x \in better \/ ~Improves(x)
          BY <2>2, <3>2 DEF Pops
        <4>2. CASE x \in better
          BY <1>4, <2>2, <3>1, <4>2, LessIrreflexive
        <4>3. CASE ~Improves(x)
          <5>1. m \in DOMAIN best /\ ~Less(x, best[m])
            BY <3>1, <4>3 DEF Improves
          <5> QED
            BY <2>2, <2>a, <2>b, <3>1, <5>1
        <4> QED
          BY <4>1, <4>2, <4>3
      <3>3. CASE m \in Range(label.path)
        <4>1. PICK i \in 1..(label.hops + 1) : m = label.path[i]
          BY <1>2, <1>3, <3>3, LabelFields DEF Range
        <4>2. CASE i = label.hops + 1
          <5>1. m = node
            BY <1>2, <1>3, <2>2, <4>1, <4>2, LabelFields
          <5>2. ~Less(x, label)
            BY <1>2, <1>3, <3>1, LessTransitive, LessIrreflexive
          <5> QED
            BY <1>3, <1>4, <2>2, <5>1, <5>2
        <4>3. CASE i # label.hops + 1
          <5>1. i \in 1..label.hops
            BY <1>2, <1>3, <4>1, <4>3
          <5>2. m \in Settled /\ best[m].delay < label.delay
            BY <1>3, <2>2, <4>1, <5>1 DEF Shortening, OverSettled
          <5>3. m \in DOMAIN best /\ best[m].delay \in Nat /\ label.delay \in Nat
            BY <1>2, <1>3, <5>2 DEF Settled
          <5>4. ~Less(x, best[m])
            BY <3>1, <5>2, <5>3 DEF Less
          <5> QED
            BY <2>2, <2>a, <2>b, <3>1, <5>3, <5>4
        <4> QED
          BY <4>2, <4>3
      <3> QED
        BY <3>2, <3>3
    <2> QED
      BY <1>6, <2>1, <2>2
  <1>13. Target \notin Settled'
    BY <1>6 DEF Shortening, Pops
  <1>14. minimum' \in 0..Infinity
    BY DEF Shortening
  <1> QED
    BY <1>8, <1>9, <1>10, <1>11, <1>12, <1>13, <1>14 DEF Shortening

----------------------------------------------------------------------------
(* widest_path.                                                            *)

\* The nodes whose best capacity has been popped.
Popped == {node \in DOMAIN best : [node |-> node, capacity |-> best[node]] \notin heap}

WidthsTyped ==
  /\ DOMAIN best \subseteq Nodes /\ \A node \in DOMAIN best : best[node] \in 1..Infinity
  /\ Source \in DOMAIN best /\ best[Source] = Infinity

EntriesTyped ==
  \A entry \in heap :
    /\ entry \in [node : Nodes, capacity : 1..Infinity]
    /\ entry.node \in DOMAIN best /\ entry.capacity <= best[entry.node]

\* The neighbours of a popped node are reached as widely as over it.
Widened ==
  \A node \in Popped : \A next \in Nodes : \A edge \in Edges :
    edge.ends = {next, node} =>
      next \in DOMAIN best /\ (best[next] >= best[node] \/ best[next] >= edge.capacity)

\* A trail as wide as promised leads to each node, over nodes reached as widely.
Witnessed ==
  \A node \in DOMAIN best :
    \E l \in Trails :
      /\ End(l) = node /\ l.bottleneck >= best[node]
      /\ \A i \in 1..(l.hops + 1) : l.path[i] \in DOMAIN best /\ best[l.path[i]] >= best[node]

Widening == WidthsTyped /\ EntriesTyped /\ Widened /\ Witnessed /\ Target \notin Popped

\* A trail is as narrow as a popped node or an entry of the heap.
LEMMA WidthsAnswered ==
  ASSUME world \in Worlds, model \in Models, Widening, NEW l \in Trails
  PROVE  \/ End(l) \in Popped /\ best[End(l)] >= l.bottleneck
         \/ \E entry \in heap : entry.capacity >= l.bottleneck
  <1> DEFINE Answered(x) == \/ End(x) \in Popped /\ best[End(x)] >= x.bottleneck
                            \/ \E entry \in heap : entry.capacity >= x.bottleneck
             T == {k \in Nat : \E x \in Trails : x.hops = k /\ ~Answered(x)}
  <1>1. \A x \in Trails : x \in Labels /\ x.hops \in Nat /\ x.bottleneck \in 1..Infinity
    BY LabelFields DEF Trails
  <1> SUFFICES ASSUME NEW y \in T PROVE FALSE
    BY <1>1
  <1>2. \E k \in T : \A n \in T : k <= n
    <2>1. \A k \in T : k \in Nat
      OBVIOUS
    <2> HIDE DEF T
    <2> QED
      BY <2>1, LeastNatural
  <1>3. PICK k \in T : \A n \in T : k <= n
    BY <1>2
  <1>4. PICK x \in Trails : x.hops = k /\ ~Answered(x)
    BY <1>3
  <1>5. \A node \in DOMAIN best : best[node] \in 1..Infinity
    BY DEF Widening, WidthsTyped
  <1>6. Infinity \in Nat
    BY RoutingAssumption DEF RoutingAssumption
  <1>7. CASE k = 0
    <2>1. End(x) = Source
      <3>1. IsPath(x.path) /\ x.hops = 0
        BY <1>4, <1>7 DEF Trails
      <3>2. End(x) = x.path[1]
        BY <1>1, <3>1, LabelFields
      <3> QED
        BY <3>1, <3>2 DEF IsPath
    <2>2. best[Source] = Infinity /\ Source \in DOMAIN best
      BY DEF Widening, WidthsTyped
    <2>3. Infinity >= x.bottleneck
      BY <1>1, <1>6
    <2> QED
      BY <1>4, <2>1, <2>2, <2>3 DEF Popped
  <1>8. CASE k # 0
    <2>1. PICK a \in Trails, m \in Nodes, e \in Edges :
            m \notin Range(a.path) /\ e.ends = {m, End(a)} /\ x = Extended(a, m, e) /\ a.hops = x.hops - 1
      BY <1>4, <1>8, TrailSplit
    <2>2. End(x) = m /\ x.bottleneck <= a.bottleneck /\ x.bottleneck <= e.capacity
      BY <1>1, <2>1, ExtendedFields
    <2>3. a.bottleneck \in Nat /\ e.capacity \in Nat /\ x.bottleneck \in Nat
      BY <1>1, <1>6, EdgeFields
    <2>4. Answered(a)
      <3>1. a.hops \notin T
        BY <1>1, <1>3, <1>4, <2>1
      <3> QED
        BY <1>1, <3>1
    <2>5. CASE \E entry \in heap : entry.capacity >= a.bottleneck
      <3>1. PICK entry \in heap : entry.capacity >= a.bottleneck
        BY <2>5
      <3>2. entry.capacity \in Nat
        BY <1>6 DEF Widening, EntriesTyped
      <3> QED
        BY <1>4, <2>2, <2>3, <3>1, <3>2
    <2>6. CASE End(a) \in Popped /\ best[End(a)] >= a.bottleneck
      <3>1. m \in DOMAIN best /\ (best[m] >= best[End(a)] \/ best[m] >= e.capacity)
        BY <2>1, <2>6 DEF Widening, Widened
      <3>2. best[m] \in Nat /\ best[End(a)] \in Nat
        BY <1>5, <1>6, <2>6, <3>1 DEF Popped
      <3>3. best[m] >= x.bottleneck
        BY <2>2, <2>3, <2>6, <3>1, <3>2
      <3> QED
        BY <1>4, <2>2, <3>1, <3>3 DEF Popped
    <2> QED
      BY <2>4, <2>5, <2>6
  <1> QED
    BY <1>7, <1>8

\* What popping the entry does when the loop goes on: wider are the entries pushed.
PopsWidest(label, wider) ==
  /\ label \in heap
  /\ heap' = (heap \ {label}) \union wider
  /\ label.capacity = best[label.node] => label.node # Target
  /\ \A w \in wider :
       /\ label.capacity = best[label.node]
       /\ w.node \notin DOMAIN best \/ w.capacity > best[w.node]
       /\ \E m \in Nodes, e \in Edges : e.ends = {m, label.node} /\ w = [node |-> m, capacity |-> Min({label.capacity, e.capacity})]
  /\ DOMAIN best' = DOMAIN best \union {w.node : w \in wider}
  /\ \A w \in wider : best'[w.node] = w.capacity
  /\ \A node \in DOMAIN best : (\A w \in wider : w.node # node) => best'[node] = best[node]
  /\ label.capacity = best[label.node] =>
       \A m \in Nodes \ {label.node}, e \in Edges :
         e.ends = {m, label.node} =>
           LET w == [node |-> m, capacity |-> Min({label.capacity, e.capacity})]
           IN w \in wider \/ (m \in DOMAIN best /\ ~(w.capacity > best[m]))

LEMMA PopWidestEffect ==
  ASSUME world \in Worlds, model \in Models, Widening, PopWidest, phase' # "shorten"
  PROVE  \E label, wider : PopsWidest(label, wider)
  <1>1. PICK label \in heap :
          /\ label.capacity = best[label.node] => label.node # Target
          /\ LET wider == IF label.capacity < best[label.node] THEN {} ELSE Wider(label)
             IN /\ heap' = (heap \ {label}) \union wider
                /\ best' = [node \in DOMAIN best \union {l.node : l \in wider} |->
                              IF \E l \in wider : l.node = node
                              THEN (CHOOSE l \in wider : l.node = node).capacity
                              ELSE best[node]]
    BY DEF PopWidest
  <1> DEFINE wider == IF label.capacity < best[label.node] THEN {} ELSE Wider(label)
  <1>2. /\ heap' = (heap \ {label}) \union wider
        /\ best' = [node \in DOMAIN best \union {l.node : l \in wider} |->
                      IF \E l \in wider : l.node = node
                      THEN (CHOOSE l \in wider : l.node = node).capacity
                      ELSE best[node]]
    BY <1>1
  <1>3. label.capacity < best[label.node] \/ label.capacity = best[label.node]
    <2>1. label.capacity \in Int /\ best[label.node] \in Int /\ label.capacity <= best[label.node]
      BY DEF Widening, EntriesTyped, WidthsTyped
    <2> QED
      BY <2>1
  <1>4. ASSUME label.capacity = best[label.node]
        PROVE  wider = Wider(label)
    <2>1. label.capacity \in Int
      BY DEF Widening, EntriesTyped
    <2> QED
      BY <1>4, <2>1
  <1>5. ASSUME NEW w \in wider
        PROVE  /\ label.capacity = best[label.node]
               /\ w.node \notin DOMAIN best \/ w.capacity > best[w.node]
               /\ \E m \in Nodes, e \in Edges : e.ends = {m, label.node} /\ w = [node |-> m, capacity |-> Min({label.capacity, e.capacity})]
    BY <1>3, <1>5 DEF Wider
  <1>6. ASSUME NEW a \in wider, NEW b \in wider, a.node = b.node
        PROVE  a = b
    <2>1. PICK m \in Nodes, e \in Edges : e.ends = {m, label.node} /\ a = [node |-> m, capacity |-> Min({label.capacity, e.capacity})]
      BY <1>5
    <2>2. PICK n \in Nodes, f \in Edges : f.ends = {n, label.node} /\ b = [node |-> n, capacity |-> Min({label.capacity, f.capacity})]
      BY <1>5
    <2>3. m = n
      BY <1>6, <2>1, <2>2
    <2>4. e = f
      BY <2>1, <2>2, <2>3, EdgeUnique
    <2> QED
      BY <2>1, <2>2, <2>3, <2>4
  <1>7. label.capacity = best[label.node] =>
          \A m \in Nodes \ {label.node}, e \in Edges :
            e.ends = {m, label.node} =>
              LET w == [node |-> m, capacity |-> Min({label.capacity, e.capacity})]
              IN w \in wider \/ (m \in DOMAIN best /\ ~(w.capacity > best[m]))
    <2> SUFFICES ASSUME label.capacity = best[label.node], NEW m \in Nodes \ {label.node}, NEW e \in Edges,
                        e.ends = {m, label.node},
                        NEW w, w = [node |-> m, capacity |-> Min({label.capacity, e.capacity})]
                 PROVE  w \in wider \/ (m \in DOMAIN best /\ ~(w.capacity > best[m]))
      OBVIOUS
    <2>1. wider = Wider(label)
      BY <1>4
    <2> DEFINE over(n) == {[node |-> n, capacity |-> Min({label.capacity, edge.capacity})] : edge \in {f \in Edges : f.ends = {n, label.node}}}
               reached == UNION {over(n) : n \in Nodes \ {label.node}}
    <2>2. w.node = m
      OBVIOUS
    <2>3. w \in reached
      <3>1. w \in over(m)
        OBVIOUS
      <3> HIDE DEF over
      <3> QED
        BY <3>1
    <2>4. Wider(label) = {l \in reached : l.node \notin DOMAIN best \/ l.capacity > best[l.node]}
      BY DEF Wider
    <2> HIDE DEF wider, reached
    <2> QED
      BY <2>1, <2>2, <2>3, <2>4
  <1>8. \A w \in wider :
          /\ label.capacity = best[label.node]
          /\ w.node \notin DOMAIN best \/ w.capacity > best[w.node]
          /\ \E m \in Nodes, e \in Edges : e.ends = {m, label.node} /\ w = [node |-> m, capacity |-> Min({label.capacity, e.capacity})]
    BY <1>5
  <1>9. \A a \in wider, b \in wider : a.node = b.node => a = b
    BY <1>6
  <1> HIDE DEF wider
  <1>10. DOMAIN best' = DOMAIN best \union {w.node : w \in wider}
    BY <1>2
  <1>11. ASSUME NEW w \in wider
         PROVE  best'[w.node] = w.capacity
    <2>1. (CHOOSE l \in wider : l.node = w.node) = w
      BY <1>9
    <2>2. w.node \in DOMAIN best \union {l.node : l \in wider}
      OBVIOUS
    <2>3. best'[w.node] = (CHOOSE l \in wider : l.node = w.node).capacity
      BY <1>2, <2>2
    <2> QED
      BY <2>1, <2>3
  <1>12. \A node \in DOMAIN best : (\A w \in wider : w.node # node) => best'[node] = best[node]
    BY <1>2
  <1>13. PopsWidest(label, wider)
    BY <1>1, <1>2, <1>7, <1>8, <1>10, <1>11, <1>12 DEF PopsWidest
  <1> QED
    BY <1>13

LEMMA PopWidens ==
  ASSUME world \in Worlds, model \in Models, Widening, world' = world, model' = model,
         NEW label, NEW wider, PopsWidest(label, wider)
  PROVE  Widening'
  <1>1. Edges' = Edges /\ Trails' = Trails
    BY GraphStays
  <1>2. /\ Infinity \in Nat /\ Source \in Nodes
        /\ \A x \in Trails : x \in Labels /\ x.hops \in Nat /\ x.bottleneck \in 1..Infinity
        /\ \A e \in Edges : e.capacity \in 1..Infinity
    BY NodesAreNumbers, LabelFields, EdgeFields, RoutingAssumption DEF Trails, RoutingAssumption
  <1>3. /\ DOMAIN best \subseteq Nodes /\ \A node \in DOMAIN best : best[node] \in 1..Infinity
        /\ Source \in DOMAIN best /\ best[Source] = Infinity
        /\ \A entry \in heap :
             /\ entry = [node |-> entry.node, capacity |-> entry.capacity]
             /\ entry.node \in DOMAIN best /\ entry.capacity \in 1..Infinity /\ entry.capacity <= best[entry.node]
    BY DEF Widening, WidthsTyped, EntriesTyped
  <1>4. /\ label \in heap /\ heap' = (heap \ {label}) \union wider
        /\ DOMAIN best' = DOMAIN best \union {w.node : w \in wider}
        /\ \A w \in wider : best'[w.node] = w.capacity
        /\ \A node \in DOMAIN best : (\A w \in wider : w.node # node) => best'[node] = best[node]
    BY DEF PopsWidest
  <1>5. ASSUME NEW w \in wider
        PROVE  /\ label.capacity = best[label.node] /\ w = [node |-> w.node, capacity |-> w.capacity]
               /\ w.node \in Nodes /\ w.capacity \in 1..Infinity
               /\ w.node \notin DOMAIN best \/ w.capacity > best[w.node]
               /\ \E e \in Edges : /\ e.ends = {w.node, label.node} /\ w.capacity \in {label.capacity, e.capacity}
                                  /\ w.capacity <= label.capacity /\ w.capacity <= e.capacity
    <2>1. PICK m \in Nodes, e \in Edges : e.ends = {m, label.node} /\ w = [node |-> m, capacity |-> Min({label.capacity, e.capacity})]
      BY DEF PopsWidest
    <2>2. label.capacity \in Int /\ e.capacity \in Int
      BY <1>2, <1>3, <1>4
    <2>3. /\ Min({label.capacity, e.capacity}) \in {label.capacity, e.capacity}
          /\ Min({label.capacity, e.capacity}) <= label.capacity /\ Min({label.capacity, e.capacity}) <= e.capacity
      BY <2>2, MinPair
    <2>4. w.node = m /\ w.capacity = Min({label.capacity, e.capacity})
      BY <2>1
    <2>5. label.capacity = best[label.node] /\ (w.node \notin DOMAIN best \/ w.capacity > best[w.node])
      BY DEF PopsWidest
    <2>6. w.capacity \in 1..Infinity
      BY <1>2, <1>3, <1>4, <2>3, <2>4
    <2> QED
      BY <2>1, <2>3, <2>4, <2>5, <2>6
  <1>6. ASSUME NEW node \in DOMAIN best
        PROVE  node \in DOMAIN best' /\ best'[node] \in 1..Infinity /\ best'[node] >= best[node]
    <2>1. CASE \A w \in wider : w.node # node
      BY <1>3, <1>4, <2>1
    <2>2. CASE \E w \in wider : w.node = node
      <3>1. PICK w \in wider : w.node = node
        BY <2>2
      <3>2. best'[node] = w.capacity /\ w.capacity > best[node] /\ w.capacity \in 1..Infinity
        BY <1>4, <1>5, <3>1
      <3> QED
        BY <1>3, <1>4, <3>2
    <2> QED
      BY <2>1, <2>2
  <1>7. WidthsTyped'
    <2>1. DOMAIN best' \subseteq Nodes
      BY <1>3, <1>4, <1>5
    <2>2. \A node \in DOMAIN best' : best'[node] \in 1..Infinity
      BY <1>4, <1>5, <1>6
    <2>3. best'[Source] = Infinity /\ Source \in DOMAIN best'
      BY <1>2, <1>3, <1>6
    <2> QED
      BY <2>1, <2>2, <2>3 DEF WidthsTyped
  <1>8. EntriesTyped'
    <2> SUFFICES ASSUME NEW entry \in heap'
                 PROVE  /\ entry \in [node : Nodes, capacity : 1..Infinity]
                        /\ entry.node \in DOMAIN best' /\ entry.capacity <= best'[entry.node]
      BY DEF EntriesTyped
    <2>1. CASE entry \in wider
      BY <1>2, <1>4, <1>5, <2>1
    <2>2. CASE entry \in heap
      <3>1. entry.node \in DOMAIN best /\ entry.capacity \in 1..Infinity /\ entry.capacity <= best[entry.node]
        BY <1>3, <2>2
      <3>2. best'[entry.node] >= best[entry.node] /\ best'[entry.node] \in Int /\ best[entry.node] \in Int
        BY <1>3, <1>6, <3>1
      <3> QED
        BY <1>3, <1>6, <2>2, <3>1, <3>2
    <2> QED
      BY <1>4, <2>1, <2>2
  <1>9. ASSUME NEW node \in Popped'
        PROVE  /\ node \in DOMAIN best /\ best'[node] = best[node]
               /\ node \in Popped \/ (node = label.node /\ label.capacity = best[node])
    <2>1. node \in DOMAIN best' /\ [node |-> node, capacity |-> best'[node]] \notin heap'
      BY DEF Popped
    <2>2. \A w \in wider : w.node # node
      BY <1>4, <1>5, <2>1
    <2>3. node \in DOMAIN best /\ best'[node] = best[node]
      BY <1>4, <2>1, <2>2
    <2>4. [node |-> node, capacity |-> best[node]] \notin heap \/ [node |-> node, capacity |-> best[node]] = label
      BY <1>4, <2>1, <2>3
    <2> QED
      BY <2>3, <2>4 DEF Popped
  <1>10. Widened'
    <2> SUFFICES ASSUME NEW node \in Popped', NEW m \in Nodes, NEW e \in Edges, e.ends = {m, node}
                 PROVE  m \in DOMAIN best' /\ (best'[m] >= best'[node] \/ best'[m] >= e.capacity)
      BY <1>1 DEF Widened
    <2>1. node \in DOMAIN best /\ best'[node] = best[node] /\ best[node] \in Int /\ e.capacity \in Int
      BY <1>2, <1>3, <1>9
    <2>2. ASSUME m \in DOMAIN best, best[m] >= best[node] \/ best[m] >= e.capacity
          PROVE  m \in DOMAIN best' /\ (best'[m] >= best'[node] \/ best'[m] >= e.capacity)
      <3>1. m \in DOMAIN best' /\ best'[m] \in Int /\ best[m] \in Int /\ best'[m] >= best[m]
        BY <1>3, <1>6, <2>2
      <3> QED
        BY <2>1, <2>2, <3>1
    <2>3. CASE node \in Popped
      BY <2>2, <2>3 DEF Widening, Widened
    <2>4. CASE node = label.node /\ label.capacity = best[node]
      <3>1. CASE m = node
        BY <2>1, <2>2, <3>1
      <3>2. CASE m # node
        <4>1. PICK w : w = [node |-> m, capacity |-> Min({label.capacity, e.capacity})]
          OBVIOUS
        <4>2. w \in wider \/ (m \in DOMAIN best /\ ~(w.capacity > best[m]))
          BY <2>4, <3>2, <4>1 DEF PopsWidest
        <4>3. w.capacity \in {best[node], e.capacity} /\ w.node = m
          BY <2>1, <2>4, <4>1, MinPair
        <4>4. CASE w \in wider
          <5>1. m \in DOMAIN best' /\ best'[m] = w.capacity
            BY <1>4, <4>3, <4>4
          <5> QED
            BY <2>1, <4>3, <5>1
        <4>5. CASE m \in DOMAIN best /\ ~(w.capacity > best[m])
          <5>1. best[m] \in Int
            BY <1>3, <4>5
          <5> QED
            BY <2>1, <2>2, <4>3, <4>5, <5>1
        <4> QED
          BY <4>2, <4>4, <4>5
      <3> QED
        BY <3>1, <3>2
    <2> QED
      BY <1>9, <2>3, <2>4
  <1>11. Witnessed'
    <2> SUFFICES ASSUME NEW node \in DOMAIN best'
                 PROVE  \E l \in Trails :
                          /\ End(l) = node /\ l.bottleneck >= best'[node]
                          /\ \A i \in 1..(l.hops + 1) : l.path[i] \in DOMAIN best' /\ best'[l.path[i]] >= best'[node]
      BY <1>1 DEF Witnessed
    <2>1. ASSUME NEW n \in DOMAIN best
          PROVE  \E l \in Trails :
                   /\ End(l) = n /\ l.bottleneck >= best[n]
                   /\ \A i \in 1..(l.hops + 1) :
                        /\ l.path[i] \in DOMAIN best /\ best[l.path[i]] >= best[n]
                        /\ l.path[i] \in DOMAIN best' /\ best'[l.path[i]] >= best[n]
      <3>1. PICK l \in Trails :
              /\ End(l) = n /\ l.bottleneck >= best[n]
              /\ \A i \in 1..(l.hops + 1) : l.path[i] \in DOMAIN best /\ best[l.path[i]] >= best[n]
        BY DEF Widening, Witnessed
      <3>2. ASSUME NEW i \in 1..(l.hops + 1)
            PROVE  l.path[i] \in DOMAIN best' /\ best'[l.path[i]] >= best[n]
        <4>1. PICK k \in DOMAIN best : k = l.path[i] /\ best[k] >= best[n]
          BY <3>1
        <4>2. best[k] \in Int /\ best[n] \in Int /\ best'[k] \in Int /\ best'[k] >= best[k] /\ k \in DOMAIN best'
          BY <1>3, <1>6
        <4> QED
          BY <4>1, <4>2
      <3> QED
        BY <3>1, <3>2
    <2>2. CASE \A w \in wider : w.node # node
      <3>1. node \in DOMAIN best /\ best'[node] = best[node]
        BY <1>4, <2>2
      <3> QED
        BY <2>1, <3>1
    <2>3. CASE \E w \in wider : w.node = node
      <3>1. PICK w \in wider : w.node = node
        BY <2>3
      <3>2. PICK k \in DOMAIN best : k = label.node /\ label.capacity = best[k] /\ label.capacity \in Int
        BY <1>3, <1>4, <1>5
      <3>3. PICK e \in Edges : /\ e.ends = {node, k} /\ w.capacity \in {label.capacity, e.capacity}
                               /\ w.capacity <= label.capacity /\ w.capacity <= e.capacity
        BY <1>5, <3>1, <3>2
      <3>4. /\ best'[node] = w.capacity /\ w.capacity \in 1..Infinity /\ node \in Nodes
            /\ node \notin DOMAIN best \/ w.capacity > best[node]
        BY <1>4, <1>5, <3>1
      <3>5. PICK l \in Trails :
              /\ End(l) = k /\ l.bottleneck >= best[k]
              /\ \A i \in 1..(l.hops + 1) :
                   /\ l.path[i] \in DOMAIN best /\ best[l.path[i]] >= best[k]
                   /\ l.path[i] \in DOMAIN best' /\ best'[l.path[i]] >= best[k]
        BY <2>1
      <3>6. node \notin Range(l.path)
        <4> SUFFICES ASSUME node \in Range(l.path) PROVE FALSE
          OBVIOUS
        <4>1. PICK i \in 1..(l.hops + 1) : node = l.path[i]
          BY <1>2, LabelFields DEF Range
        <4>2. node \in DOMAIN best /\ best[node] >= best[k]
          BY <3>5, <4>1
        <4>3. best[node] \in Int
          BY <1>3, <4>2
        <4> QED
          BY <3>2, <3>3, <3>4, <4>2, <4>3
      <3> DEFINE x == Extended(l, node, e)
      <3>7. x \in Trails
        BY <3>3, <3>4, <3>5, <3>6, TrailExtends
      <3>8. /\ End(x) = node /\ x.hops = l.hops + 1 /\ x.bottleneck \in {l.bottleneck, e.capacity}
            /\ \A i \in 1..(l.hops + 1) : x.path[i] = l.path[i]
            /\ x.path[l.hops + 2] = node
        BY <1>2, <3>4, ExtendedFields
      <3> HIDE DEF x
      <3>9. x.bottleneck >= best'[node]
        <4>1. l.bottleneck \in Int /\ e.capacity \in Int /\ best[k] \in Int /\ best'[node] \in Int
          BY <1>2, <1>3, <3>4
        <4> QED
          BY <3>2, <3>3, <3>4, <3>5, <3>8, <4>1
      <3>10. ASSUME NEW i \in 1..(x.hops + 1)
             PROVE  x.path[i] \in DOMAIN best' /\ best'[x.path[i]] >= best'[node]
        <4>1. CASE i = l.hops + 2
          BY <1>4, <3>1, <3>4, <3>8, <4>1
        <4>2. CASE i \in 1..(l.hops + 1)
          <5>1. x.path[i] = l.path[i] /\ l.path[i] \in DOMAIN best /\ l.path[i] \in DOMAIN best' /\ best'[l.path[i]] >= best[k]
            BY <3>5, <3>8, <4>2
          <5>2. best'[l.path[i]] \in Int /\ best[k] \in Int
            BY <1>3, <1>6, <5>1
          <5> QED
            BY <3>2, <3>3, <3>4, <5>1, <5>2
        <4> QED
          BY <1>2, <3>8, <4>1, <4>2
      <3> QED
        BY <3>7, <3>8, <3>9, <3>10
    <2> QED
      BY <2>2, <2>3
  <1>12. Target \notin Popped'
    BY <1>9 DEF Widening, PopsWidest
  <1> QED
    BY <1>7, <1>8, <1>10, <1>11, <1>12 DEF Widening

----------------------------------------------------------------------------
(* The two loops.                                                          *)

\* What minimum_capacity_bps is when the second loop runs: the widest route's bottleneck.
Bounded ==
  IF model = "maximum_rate"
  THEN (\A r \in Routes : r.bottleneck <= minimum) /\ \E r \in Routes : r.bottleneck >= minimum
  ELSE minimum = 0

IInv ==
  /\ world \in Worlds /\ model \in Models /\ minimum \in 0..Infinity
  /\ phase \in {"widen", "shorten", "done"}
  /\ phase = "widen" => Widening /\ model = "maximum_rate"
  /\ phase = "shorten" => Shortening /\ Bounded
  /\ phase # "done" => route = None
  /\ RouteIsBest

LEMMA ShortenStarts ==
  world \in Worlds /\ model \in Models /\ minimum \in 0..Infinity /\ heap = {Start} /\ best = [node \in {Source} |-> Start]
    => Shortening
  <1> SUFFICES ASSUME world \in Worlds, model \in Models, minimum \in 0..Infinity,
                      heap = {Start}, best = [node \in {Source} |-> Start]
               PROVE  Shortening
    OBVIOUS
  <1>1. Start \in Good /\ End(Start) = Source /\ Start.hops = 0 /\ Source \in Nodes /\ Source # Target
    BY StartIsTrail, NodesAreNumbers, RoutingAssumption DEF Good, RoutingAssumption
  <1>2. DOMAIN best = {Source} /\ best[Source] = Start
    OBVIOUS
  <1>3. Settled = {}
    BY <1>2 DEF Settled
  <1>4. BestTyped /\ HeapTyped
    BY <1>1, <1>2 DEF BestTyped, HeapTyped
  <1>5. InOrder /\ Relaxed
    BY <1>3 DEF InOrder, Relaxed
  <1>6. OverSettled
    BY <1>1, <1>2 DEF OverSettled
  <1> QED
    BY <1>3, <1>4, <1>5, <1>6 DEF Shortening

LEMMA WidenStarts ==
  ASSUME heap = {[node |-> Source, capacity |-> Infinity]}, best = [node \in {Source} |-> Infinity]
  PROVE  Widening
  <1>1. Source \in Nodes /\ Source # Target /\ Infinity \in 1..Infinity
    BY NodesAreNumbers, RoutingAssumption DEF RoutingAssumption
  <1>2. DOMAIN best = {Source} /\ best[Source] = Infinity
    OBVIOUS
  <1>3. Popped = {}
    BY <1>2 DEF Popped
  <1>4. WidthsTyped /\ EntriesTyped
    BY <1>1, <1>2 DEF WidthsTyped, EntriesTyped
  <1>5. Widened
    BY <1>3 DEF Widened
  <1>6. Witnessed
    <2>1. /\ Start \in Trails /\ End(Start) = Source /\ Start.bottleneck >= best[Source]
          /\ \A i \in 1..(Start.hops + 1) : Start.path[i] \in DOMAIN best /\ best[Start.path[i]] >= best[Source]
      BY <1>1, <1>2, StartIsTrail
    <2> QED
      BY <1>2, <2>1 DEF Witnessed
  <1> QED
    BY <1>3, <1>4, <1>5, <1>6 DEF Widening

\* The routes the model chooses among are the trails wide enough that end at the target.
LEMMA EligibleAre ==
  ASSUME world \in Worlds, model \in Models, minimum \in 0..Infinity, Bounded
  PROVE  Eligible = {l \in Good : End(l) = Target}
  <1>1. Routes = {l \in Trails : End(l) = Target}
    BY RoutesAreTrails
  <1>2. minimum \in Int /\ \A l \in Trails : l.bottleneck \in Int /\ l.bottleneck >= 0
    BY LabelFields, RoutingAssumption DEF Trails, RoutingAssumption
  <1>3. CASE model = "maximum_rate"
    <2>1. PICK w \in Routes : w.bottleneck >= minimum
      BY <1>3 DEF Bounded
    <2>2. \A r \in Routes : r.bottleneck <= minimum
      BY <1>3 DEF Bounded
    <2>3. ASSUME NEW r \in Routes
          PROVE  (\A other \in Routes : other.bottleneck <= r.bottleneck) <=> r.bottleneck >= minimum
      BY <1>1, <1>2, <2>1, <2>2
    <2>4. Eligible = {r \in Routes : r.bottleneck >= minimum}
      BY <1>3, <2>3 DEF Eligible
    <2> QED
      BY <1>1, <2>4 DEF Good
  <1>4. CASE model # "maximum_rate"
    <2>1. Eligible = Routes
      BY <1>4 DEF Eligible
    <2> QED
      BY <1>1, <1>2, <1>4, <2>1 DEF Good, Bounded
  <1> QED
    BY <1>3, <1>4

LEMMA StepPop ==
  ASSUME IInv, Pop
  PROVE  IInv'
  <1>1. /\ world \in Worlds /\ model \in Models /\ minimum \in 0..Infinity /\ Shortening /\ Bounded
        /\ phase = "shorten" /\ route = None
        /\ world' = world /\ model' = model /\ minimum' = minimum
    BY DEF IInv, Pop
  <1>2. Routes' = Routes /\ Eligible' = Eligible
    BY <1>1, GraphStays
  <1>3. CASE phase' = "shorten"
    <2>1. route' = route
      BY <1>3 DEF Pop
    <2>2. PICK label, better : Pops(label, better)
      BY <1>1, <1>3, PopEffect
    <2>3. Shortening'
      BY <1>1, <2>2, PopShortens
    <2>4. Bounded'
      BY <1>1, <1>2 DEF Bounded
    <2> QED
      BY <1>1, <1>3, <2>1, <2>3, <2>4 DEF IInv, RouteIsBest
  <1>4. CASE phase' # "shorten"
    <2>1. PICK label \in heap : /\ First(label) /\ best[End(label)] = label /\ End(label) = Target
                               /\ phase' = "done" /\ route' = label
      BY <1>1, <1>4 DEF Pop
    <2>2. Eligible = {l \in Good : End(l) = Target}
      BY <1>1, EligibleAre
    <2>3. label \in Good /\ heap \subseteq Good
      BY <1>1 DEF Shortening, HeapTyped
    <2>4. \A l \in Good : l \in Trails /\ l \in Labels
      BY DEF Good, Trails
    <2>5. ASSUME NEW other \in Eligible, other # label
          PROVE  Less(label, other)
      <3>1. other \in Good /\ End(other) = Target
        BY <2>2
      <3>2. PICK l \in heap : ~Less(other, l)
        BY <1>1, <3>1, TrailsAnswered DEF Shortening
      <3>3. l = label \/ Less(label, l)
        BY <2>1 DEF First
      <3>4. ~Less(other, label)
        BY <2>3, <2>4, <3>1, <3>2, <3>3, LessTransitive
      <3> QED
        BY <1>1, <2>3, <2>4, <2>5, <3>1, <3>4, TrailsOrdered
    <2>6. RouteIsBest'
      <3>1. route' \in Eligible /\ Eligible # {}
        BY <2>1, <2>2, <2>3
      <3>2. ASSUME NEW other \in Eligible \ {route'}
            PROVE  \/ route'.delay < other.delay
                   \/ route'.delay = other.delay /\ route'.hops < other.hops
                   \/ /\ route'.delay = other.delay /\ route'.hops = other.hops
                      /\ LexLess(route'.path, other.path)
        BY <2>1, <2>5 DEF Less
      <3> QED
        BY <1>2, <3>1, <3>2 DEF RouteIsBest
    <2> QED
      BY <1>1, <2>1, <2>6 DEF IInv
  <1> QED
    BY <1>3, <1>4

LEMMA StepPopWidest ==
  ASSUME IInv, PopWidest
  PROVE  IInv'
  <1>1. /\ world \in Worlds /\ model \in Models /\ minimum \in 0..Infinity /\ Widening /\ model = "maximum_rate"
        /\ phase = "widen" /\ route = None
        /\ world' = world /\ model' = model /\ route' = route
    BY DEF IInv, PopWidest
  <1>2. Routes' = Routes
    BY <1>1, GraphStays
  <1>3. CASE phase' # "shorten"
    <2>1. phase' = phase /\ minimum' = minimum
      BY <1>3 DEF PopWidest
    <2>2. PICK label, wider : PopsWidest(label, wider)
      BY <1>1, <1>3, PopWidestEffect
    <2>3. Widening'
      BY <1>1, <2>2, PopWidens
    <2> QED
      BY <1>1, <2>1, <2>3 DEF IInv, RouteIsBest
  <1>4. CASE phase' = "shorten"
    <2>1. PICK label \in heap :
            /\ \A other \in heap : other.capacity <= label.capacity
            /\ label.capacity = best[label.node] /\ label.node = Target
            /\ minimum' = label.capacity /\ heap' = {Start} /\ best' = [node \in {Source} |-> Start]
      BY <1>1, <1>4 DEF PopWidest
    <2>2. /\ Target \in DOMAIN best /\ label.capacity \in 1..Infinity /\ Infinity \in Nat
          /\ \A other \in heap : other.capacity \in Int
      BY <1>1, <2>1, RoutingAssumption DEF Widening, EntriesTyped, RoutingAssumption
    <2>3. minimum' \in 0..Infinity
      BY <2>1, <2>2
    <2>4. Shortening'
      <3>1. world' \in Worlds /\ model' \in Models
        BY <1>1
      <3>2. (world \in Worlds /\ model \in Models /\ minimum \in 0..Infinity /\ heap = {Start} /\ best = [node \in {Source} |-> Start]
               => Shortening)'
        BY ShortenStarts, PTL
      <3> QED
        BY <2>1, <2>3, <3>1, <3>2
    <2>5. Routes = {l \in Trails : End(l) = Target}
      BY <1>1, RoutesAreTrails
    <2>6. \A l \in Trails : l.bottleneck \in Int
      BY LabelFields DEF Trails
    <2>7. ASSUME NEW r \in Routes
          PROVE  r.bottleneck <= label.capacity
      <3>1. PICK entry \in heap : entry.capacity >= r.bottleneck
        BY <1>1, <2>5, WidthsAnswered DEF Widening
      <3> QED
        BY <2>1, <2>2, <2>5, <2>6, <3>1
    <2>8. \E r \in Routes : r.bottleneck >= label.capacity
      BY <1>1, <2>1, <2>2, <2>5 DEF Widening, Witnessed
    <2>9. Bounded'
      BY <1>1, <1>2, <2>1, <2>7, <2>8 DEF Bounded
    <2> QED
      BY <1>1, <1>4, <2>3, <2>4, <2>9 DEF IInv, RouteIsBest
  <1> QED
    BY <1>3, <1>4

LEMMA StepExhaust ==
  ASSUME IInv, Exhaust
  PROVE  IInv'
  <1>1. /\ world \in Worlds /\ model \in Models /\ minimum \in 0..Infinity /\ route = None
        /\ phase' = "done" /\ heap = {} /\ phase # "done"
        /\ world' = world /\ model' = model /\ minimum' = minimum /\ route' = route
    BY DEF IInv, Exhaust
  <1>2. Eligible' = Eligible
    BY <1>1, GraphStays
  <1>3. Eligible = {}
    <2>1. CASE phase = "widen"
      <3>1. Widening
        BY <2>1 DEF IInv
      <3>2. \A l \in Trails : End(l) # Target
        BY <1>1, <3>1, WidthsAnswered DEF Widening
      <3>3. Routes = {}
        BY <1>1, <3>2, RoutesAreTrails
      <3> QED
        BY <3>3 DEF Eligible
    <2>2. CASE phase = "shorten"
      <3>1. Shortening /\ Bounded
        BY <2>2 DEF IInv
      <3>2. \A l \in Good : End(l) # Target
        BY <1>1, <3>1, TrailsAnswered DEF Shortening
      <3> QED
        BY <1>1, <3>1, <3>2, EligibleAre
    <2> QED
      BY <1>1, <2>1, <2>2 DEF IInv
  <1>4. RouteIsBest'
    BY <1>1, <1>2, <1>3 DEF RouteIsBest
  <1> QED
    BY <1>1, <1>4 DEF IInv

\* The invariant of the two loops: what has been popped is final, and what is open is in the heap.
THEOREM Invariance == Spec => []IInv
  <1>1. Init => IInv
    <2> SUFFICES ASSUME Init PROVE IInv
      OBVIOUS
    <2>1. world \in Worlds /\ model \in Models /\ minimum = 0 /\ minimum \in 0..Infinity /\ route = None /\ phase # "done"
      BY RoutingAssumption DEF Init, RoutingAssumption
    <2>2. CASE model = "maximum_rate" /\ phase = "widen"
      BY <2>1, <2>2, WidenStarts DEF Init, IInv, RouteIsBest
    <2>3. CASE model # "maximum_rate" /\ phase = "shorten"
      <3>1. heap = {Start} /\ best = [node \in {Source} |-> Start]
        BY <2>3 DEF Init
      <3>2. Shortening
        BY <2>1, <3>1, ShortenStarts
      <3> QED
        BY <2>1, <2>3, <3>2 DEF IInv, RouteIsBest, Bounded
    <2> QED
      BY <2>2, <2>3 DEF Init
  <1>2. IInv /\ [Next]_vars => IInv'
    <2> SUFFICES ASSUME IInv, [Next]_vars PROVE IInv'
      OBVIOUS
    <2>1. CASE UNCHANGED vars
      <3>1. /\ world' = world /\ model' = model /\ phase' = phase /\ heap' = heap /\ best' = best
            /\ minimum' = minimum /\ route' = route
        BY <2>1 DEF vars
      <3>2. Edges' = Edges /\ Trails' = Trails /\ Routes' = Routes /\ Eligible' = Eligible
        BY <3>1, GraphStays
      <3>3. Good' = Good /\ Settled' = Settled /\ Popped' = Popped
        BY <3>1, <3>2 DEF Good, Settled, Popped
      <3>4. Shortening' <=> Shortening
        BY <3>1, <3>2, <3>3 DEF Shortening, BestTyped, HeapTyped, InOrder, OverSettled, Relaxed
      <3>5. Widening' <=> Widening
        BY <3>1, <3>2, <3>3 DEF Widening, WidthsTyped, EntriesTyped, Widened, Witnessed
      <3> QED
        BY <3>1, <3>2, <3>4, <3>5 DEF IInv, Bounded, RouteIsBest
    <2> QED
      BY <2>1, StepPop, StepPopWidest, StepExhaust DEF Next
  <1> QED
    BY <1>1, <1>2, PTL DEF Spec

\* The answer of either loop, for each model, is the first of the routes the model
\* chooses among, by delay, hops and node indices, and None when there is none
\* (find_route).
THEOREM RouteCorrect == Spec => []RouteIsBest
  <1>1. IInv => RouteIsBest
    BY DEF IInv
  <1> QED
    BY <1>1, Invariance, PTL

\* The best label of a node whose label was popped never changes (shortest_path).
THEOREM SettledStays == Spec => SettledIsFinal
  <1>1. IInv /\ [Next]_vars =>
          [phase = "shorten" /\ phase' = "shorten" =>
             \A node \in DOMAIN best : best[node] \notin heap => best'[node] = best[node]]_vars
    <2> SUFFICES ASSUME IInv, Next, phase = "shorten", phase' = "shorten",
                        NEW node \in DOMAIN best, best[node] \notin heap
                 PROVE  best'[node] = best[node]
      BY DEF vars
    <2>1. Pop /\ world \in Worlds /\ model \in Models /\ Shortening
      BY DEF Next, PopWidest, Exhaust, IInv
    <2>2. PICK label, better : Pops(label, better)
      BY <2>1, PopEffect
    <2> QED
      BY <2>1, <2>2, PopSettles DEF Settled
  <1> QED
    BY <1>1, Invariance, PTL DEF Spec, SettledIsFinal
=============================================================================
