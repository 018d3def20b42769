--------------------------- MODULE MCResultStore ---------------------------
(***************************************************************************)
(* The result store on small instances.  Each of the two jobs can run      *)
(* twice.  Tight: the two results do not fit together, so each run evicts  *)
(* the other job, and the server is closed at any time.  Ample: everything *)
(* fits, and clients export; j2's archive would take it past the artifact  *)
(* limit.  Racing: both results fit, but not with an archive.              *)
(***************************************************************************)
EXTENDS ResultStore, TLC

CONSTANTS j1, j2

Results == (j1 :> 2 @@ j2 :> 2)
SmallResults == (j1 :> 1 @@ j2 :> 1)
Exports == (j1 :> 1 @@ j2 :> 2)
BigExports == (j1 :> 2 @@ j2 :> 2)

Tight == [artifact |-> 3, session |-> 3, asked |-> {"close"}]
Ample == [artifact |-> 3, session |-> 9, asked |-> {"export"}]
Racing == [artifact |-> 3, session |-> 3, asked |-> {"export"}]
Closing == [artifact |-> 3, session |-> 9, asked |-> {"export", "close"}]

SoundSetups == {Tight, Ample}
RacingSetups == {Racing}
ClosingSetups == {Closing}
=============================================================================
