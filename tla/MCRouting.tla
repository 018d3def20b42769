----------------------------- MODULE MCRouting -----------------------------
(***************************************************************************)
(* Three satellites.  Every set of inter-satellite links of delay 1 or 2.  *)
(* A ground link is a short one without lock (the first station's), a      *)
(* short one narrower than the inter-satellite links, a long one wider     *)
(* than them, or none (the second station's).  Equal delays, hops and      *)
(* widths over different satellites are all met; as 0 and 1 may change     *)
(* places, the one the first station reaches sooner is 0.                  *)
(***************************************************************************)
EXTENDS Routing

Hidden == [delay |-> 0, rate |-> 0]
Unlocked == [delay |-> 1, rate |-> 0]
Narrow == [delay |-> 1, rate |-> 1]
Wide == [delay |-> 3, rate |-> 3]

SmallWorlds ==
  [isl : [Pairs -> 0..2],
   up : {f \in [Satellites -> {Unlocked, Narrow, Wide}] : f[0].delay <= f[1].delay},
   down : [Satellites -> {Hidden, Narrow, Wide}]]
=============================================================================
