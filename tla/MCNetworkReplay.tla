-------------------------- MODULE MCNetworkReplay --------------------------
(***************************************************************************)
(* A network of two satellites, 0 and 1, and the stations 2 and 3 for      *)
(* NetworkReplay: the routes over one or both of them and no route, on     *)
(* links that are fast or slow, held from three breakpoints.               *)
(***************************************************************************)
EXTENDS NetworkReplay, TLC

MCSerialization == 1 :> 4 @@ 2 :> 2

Fast == [rate |-> 2, delay |-> 0]
Slow == [rate |-> 1, delay |-> 1]
Gone == [rate |-> 0, delay |-> 0]

\* The ground links (2 and 3 to 0 and 1) and the link between the satellites.
FrameOf(path, up, down, across) ==
  [path |-> path,
   edges |-> <<0, 1>> :> across @@ <<0, 2>> :> up[1] @@ <<1, 2>> :> up[2] @@ <<0, 3>> :> down[1] @@ <<1, 3>> :> down[2]]

Over == FrameOf(<<2, 0, 1, 3>>, <<Fast, Gone>>, <<Gone, Fast>>, Slow)
Back == FrameOf(<<2, 1, 0, 3>>, <<Gone, Fast>>, <<Fast, Gone>>, Slow)

MCFrames ==
  { FrameOf(<<2, 0, 3>>, <<Fast, Fast>>, <<Slow, Slow>>, Fast),
    FrameOf(<<2, 1, 3>>, <<Fast, Fast>>, <<Gone, Slow>>, Gone),
    Over, Back,
    FrameOf(<<>>, <<Fast, Fast>>, <<Gone, Gone>>, Fast) }

\* The second and the third breakpoint: a route over both satellites turns round on a link that stays.
MCHoldings == {0 :> a @@ 6 :> b @@ 9 :> c : a \in MCFrames, b \in MCFrames, c \in MCFrames}

Quiet(interval, flows, waiting, acquisition, rounding) ==
  [start |-> 1, duration |-> 12, interval |-> interval, flows |-> flows, queue |-> waiting,
   acquisition |-> acquisition, rounding |-> rounding, fault |-> "none"]

MCReplays ==
  {Quiet(2, 1, 1, 0, 0), Quiet(3, 2, 1, 1, 1), Quiet(1, 1, 2, 2, -1)}
    \union {[Quiet(5, 1, 1, 1, 0) EXCEPT !.fault = f] : f \in {"handshake", "changed", "traces", "rival"}}
=============================================================================
