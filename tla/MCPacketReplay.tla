--------------------------- MODULE MCPacketReplay ---------------------------
(***************************************************************************)
(* Small links for PacketReplay: three changes at chosen thirds of a tick, *)
(* two of which round to the start, meet in one tick or straddle two, and  *)
(* before, between and after them any of no link, no rate, slow and fast.  *)
(***************************************************************************)
EXTENDS PacketReplay, TLC

MCSpan == 24
MCGrid == {0, 12, 24}
MCSerialization == 1 :> 3 @@ 2 :> 2
MCPathDelay == [h \in 0..MCSpan |-> IF h < 8 THEN 2 ELSE IF h < 13 THEN 1 ELSE 3]

Changes == {<<4, 8, 10>>, <<4, 13, 19>>, <<8, 10, 14>>, <<8, 13, 20>>, <<10, 14, 20>>}
RatesOver(changes, rates) ==
  [h \in 0..(MCSpan - 1) |-> rates[1 + Cardinality({i \in DOMAIN changes : changes[i] <= h})]]

\* The maximal runs of thirds of which a relation to the run's first holds.
RunsOf(rate, same(_, _)) ==
  {r \in [start : 0..MCSpan, end : 1..MCSpan] :
     /\ r.start < r.end /\ \A h \in r.start..(r.end - 1) : rate[h] # None /\ same(rate[h], rate[r.start])
     /\ r.start = 0 \/ rate[r.start - 1] = None \/ ~same(rate[r.start - 1], rate[r.start])
     /\ r.end = MCSpan \/ rate[r.end] = None \/ ~same(rate[r.end], rate[r.start])}

LinkOf(rate) ==
  [passes |-> {[start |-> r.start, end |-> r.end, truncated |-> r.end = MCSpan] : r \in RunsOf(rate, LAMBDA a, b : TRUE)},
   segments |-> {[start |-> r.start, end |-> r.end, rate |-> rate[r.start]] : r \in RunsOf(rate, LAMBDA a, b : a = b)}]

MCLinks ==
  {LinkOf(RatesOver(changes, rates)) : changes \in Changes, rates \in {r \in [1..4 -> {None, 0, 1, 2}] : r[1] # 0 /\ r[4] # 0}}

Quiet(interval, waiting, rounding) ==
  [start |-> 1, duration |-> 6, interval |-> interval, queue |-> waiting, rounding |-> rounding, fault |-> "none"]

MCReplays ==
  {Quiet(1, 1, 0), Quiet(1, 2, 1), Quiet(2, 1, -1)}
    \union {[Quiet(3, 1, 0) EXCEPT !.fault = f] : f \in {"handshake", "results", "exit", "changed", "rival"}}
=============================================================================
