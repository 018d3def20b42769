----------------------------- MODULE WriteOnce -----------------------------
(***************************************************************************)
(* What publishing promises, with no temporary directories, checks and     *)
(* renames: a place that is written at most once, by one of those who try, *)
(* and whoever is told of success is the one who wrote it.  Publish        *)
(* implements it (Publish!Promise).                                        *)
(***************************************************************************)
CONSTANTS Publishers, None

VARIABLES written,  \* the publisher whose result stands at the target, or None
          told      \* the publishers whose call returned normally

vars == <<written, told>>

Init == written = None /\ told = {}

Write(p) ==
  /\ written = None
  /\ written' = p
  /\ UNCHANGED told

Tell(p) ==
  /\ written = p
  /\ told' = told \union {p}
  /\ UNCHANGED written

Next == \E p \in Publishers : Write(p) \/ Tell(p)

Spec == Init /\ [][Next]_vars
=============================================================================
