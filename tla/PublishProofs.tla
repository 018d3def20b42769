--------------------------- MODULE PublishProofs ---------------------------
(***************************************************************************)
(* Publication for every set of publishers and files.  The inductive       *)
(* invariant adds to the properties where a publisher must stand when it   *)
(* has a temporary directory, a whole build, a result or a rival.          *)
(***************************************************************************)
EXTENDS Publish, TLAPS

\* A build past its manifest is whole, and so is the result at the target.
Whole(p) == content[p] = Files /\ manifest[p] = Files

Placed ==
  /\ \A p \in Publishers :
       at[p] \in {"check", "rename", "inspect", "return", "published"} => Whole(p)
  /\ \A p \in Publishers : at[p] \in {"return", "published"} => target = p
  /\ \A p \in Publishers : at[p] \in {"refuse", "refused"} => target # None
  /\ \A p \in temporary : at[p] \in {"build", "check", "rename", "inspect", "refuse", "fail", "crashed"}
  /\ \A p \in Publishers : target = p =>
       Whole(p) /\ at[p] \in {"return", "published", "crashed"} /\ p \notin temporary

IInv == TypeOK /\ Placed

THEOREM InitIInv == Init => IInv
  BY PublishAssumption DEF Init, IInv, TypeOK, Placed, PublishAssumption, Ended

LEMMA StepTypeOK == TypeOK /\ [Next]_vars => TypeOK'
  <1> SUFFICES ASSUME TypeOK, [Next]_vars PROVE TypeOK'
    OBVIOUS
  <1>1. ASSUME NEW p \in Publishers, Check(p) \/ Make(p) \/ FailMake(p) PROVE TypeOK'
    BY <1>1 DEF TypeOK, Check, Make, FailMake, Goto, Ended
  <1>2. ASSUME NEW p \in Publishers, NEW file \in Files, WriteFile(p, file) PROVE TypeOK'
    BY <1>2 DEF TypeOK, WriteFile
  <1>3. ASSUME NEW p \in Publishers, WriteManifest(p) \/ FailBuild(p) PROVE TypeOK'
    BY <1>3 DEF TypeOK, WriteManifest, FailBuild, Goto
  <1>4. ASSUME NEW p \in Publishers, Recheck(p) \/ Rename(p) \/ FailRename(p) \/ Inspect(p)
        PROVE  TypeOK'
    BY <1>4 DEF TypeOK, Recheck, Rename, FailRename, Inspect, Goto
  <1>5. ASSUME NEW p \in Publishers, Return(p) \/ Cleanup(p) \/ Crash(p) PROVE TypeOK'
    BY <1>5 DEF TypeOK, Return, Cleanup, Crash, Goto, Ended
  <1>6. CASE Occupy
    BY <1>6 DEF TypeOK, Occupy
  <1>7. CASE UNCHANGED vars
    BY <1>7 DEF TypeOK, vars
  <1> QED
    BY <1>1, <1>2, <1>3, <1>4, <1>5, <1>6, <1>7 DEF Next

LEMMA StepPlaced == IInv /\ [Next]_vars => Placed'
  <1> SUFFICES ASSUME IInv, [Next]_vars PROVE Placed'
    OBVIOUS
  <1> USE PublishAssumption DEF PublishAssumption, IInv, TypeOK, Placed, Whole, Goto
  <1>1. ASSUME NEW p \in Publishers, Check(p) PROVE Placed'
    BY <1>1 DEF Check
  <1>2. ASSUME NEW p \in Publishers, Make(p) \/ FailMake(p) PROVE Placed'
    BY <1>2 DEF Make, FailMake
  <1>3. ASSUME NEW p \in Publishers, NEW file \in Files, WriteFile(p, file) PROVE Placed'
    BY <1>3 DEF WriteFile
  <1>4. ASSUME NEW p \in Publishers, WriteManifest(p) PROVE Placed'
    BY <1>4 DEF WriteManifest
  <1>5. ASSUME NEW p \in Publishers, FailBuild(p) PROVE Placed'
    BY <1>5 DEF FailBuild
  <1>6. ASSUME NEW p \in Publishers, Recheck(p) PROVE Placed'
    BY <1>6 DEF Recheck
  <1>7. ASSUME NEW p \in Publishers, Rename(p) PROVE Placed'
    BY <1>7 DEF Rename
  <1>8. ASSUME NEW p \in Publishers, FailRename(p) \/ Inspect(p) \/ Return(p) PROVE Placed'
    BY <1>8 DEF FailRename, Inspect, Return
  <1>9. ASSUME NEW p \in Publishers, Cleanup(p) PROVE Placed'
    BY <1>9 DEF Cleanup
  <1>10. ASSUME NEW p \in Publishers, Crash(p) PROVE Placed'
    BY <1>10 DEF Crash, Ended
  <1>11. CASE Occupy
    BY <1>11 DEF Occupy
  <1>12. CASE UNCHANGED vars
    BY <1>12 DEF vars
  <1> QED
    BY <1>1, <1>2, <1>3, <1>4, <1>5, <1>6, <1>7, <1>8, <1>9, <1>10, <1>11, <1>12 DEF Next

THEOREM Invariance == Spec => []IInv
  <1>1. IInv /\ [Next]_vars => IInv'
    BY StepTypeOK, StepPlaced DEF IInv
  <1> QED
    BY InitIInv, <1>1, PTL DEF Spec

\* The state of publish_atomically is well typed: a publisher lists files of a result only, and stands at a
\* statement of the function (publish_atomically, write_results).
THEOREM TypeCorrect == Spec => []TypeOK
  <1>1. IInv => TypeOK
    BY DEF IInv
  <1> QED
    BY Invariance, <1>1, PTL

\* A reader finds all of a result or none of it (write_results, publish_atomically).
THEOREM WholeResults == Spec => []ResultIsWhole
  <1>1. IInv => ResultIsWhole
    BY DEF IInv, Placed, Whole, ResultIsWhole
  <1> QED
    BY Invariance, <1>1, PTL

\* No call that ends leaves its temporary directory (the except clause of publish_atomically).
THEOREM NoLitter == Spec => []NothingLeft
  <1>1. IInv => NothingLeft
    BY DEF IInv, TypeOK, Placed, NothingLeft
  <1> QED
    BY Invariance, <1>1, PTL

\* Rivals alone never all fail, and never both succeed (publish_atomically's checks).
THEOREM OneWinner == Spec => []OneSucceeds
  <1>1. IInv => OneSucceeds
    <2> SUFFICES ASSUME IInv, Publishers # {}, target \notin {"empty", "other"},
                        \A p \in Publishers : at[p] \in {"published", "refused"}
                 PROVE  \E p \in Publishers : target = p /\ \A q \in Publishers : at[q] = "published" <=> q = p
      BY DEF OneSucceeds
    <2>1. target # None
      BY PublishAssumption DEF IInv, Placed, PublishAssumption
    <2>2. target \in Publishers
      BY <2>1 DEF IInv, TypeOK
    <2>3. at[target] = "published"
      BY <2>2 DEF IInv, Placed
    <2> QED
      BY <2>2, <2>3 DEF IInv, Placed
  <1> QED
    BY Invariance, <1>1, PTL

\* Publication implements a place written once: results stand, and only their
\* publishers are told of success.
THEOREM Refinement == Spec => PublishedOnce
  <1>1. Init => Promise!Init
    BY PublishAssumption DEF Init, Promise!Init, PublishAssumption
  <1>2. IInv /\ [Next]_vars => [Promise!Next]_(Promise!vars)
    <2> SUFFICES ASSUME IInv, [Next]_vars PROVE [Promise!Next]_(Promise!vars)
      OBVIOUS
    <2> USE PublishAssumption DEF PublishAssumption, IInv, TypeOK, Goto
    <2>1. ASSUME NEW p \in Publishers, Rename(p) PROVE Promise!Write(p)
      <3>1. {q \in Publishers : at[q] = "published"}' = {q \in Publishers : at[q] = "published"}
        BY <2>1 DEF Rename
      <3> QED
        BY <2>1, <3>1 DEF Rename, Promise!Write
    <2>2. ASSUME NEW p \in Publishers, Return(p) PROVE Promise!Tell(p)
      <3>1. {q \in Publishers : at[q] = "published"}' = {q \in Publishers : at[q] = "published"} \union {p}
        BY <2>2 DEF Return
      <3>2. target = p /\ target' = target
        BY <2>2 DEF Return, Placed
      <3> QED
        BY <3>1, <3>2 DEF Promise!Tell
    <2>3. ASSUME NEW p \in Publishers,
                 \/ Check(p) \/ Make(p) \/ FailMake(p)
                 \/ \E file \in Files : WriteFile(p, file)
                 \/ WriteManifest(p) \/ FailBuild(p)
                 \/ Recheck(p) \/ FailRename(p) \/ Inspect(p) \/ Cleanup(p) \/ Crash(p)
          PROVE  UNCHANGED Promise!vars
      <3>1. target' = target
        BY <2>3 DEF Check, Make, FailMake, WriteFile, WriteManifest, FailBuild, Recheck,
                    FailRename, Inspect, Cleanup, Crash
      <3>2. \A q \in Publishers : at'[q] = "published" <=> at[q] = "published"
        BY <2>3 DEF Check, Make, FailMake, WriteFile, WriteManifest, FailBuild, Recheck,
                    FailRename, Inspect, Cleanup, Crash, Ended
      <3> QED
        BY <3>1, <3>2 DEF Promise!vars
    <2>4. ASSUME Occupy PROVE UNCHANGED Promise!vars
      BY <2>4 DEF Occupy, Promise!vars
    <2>5. ASSUME UNCHANGED vars PROVE UNCHANGED Promise!vars
      BY <2>5 DEF vars, Promise!vars
    <2> QED
      BY <2>1, <2>2, <2>3, <2>4, <2>5 DEF Next, Promise!Next
  <1> QED
    BY Invariance, <1>1, <1>2, PTL DEF Spec, PublishedOnce, Promise!Spec
=============================================================================
