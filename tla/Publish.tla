------------------------------ MODULE Publish ------------------------------
(***************************************************************************)
(* Atomic publication of a results directory (publish_atomically and       *)
(* write_results in results/io.py): every publisher builds in a temporary  *)
(* directory of its own and renames it to the same target.  The publishers *)
(* are processes (runs of the CLI, the app's worker) that share only the   *)
(* file system; each may fail in its build, or crash anywhere.  Another    *)
(* program may put an empty directory or something of its own at the       *)
(* target.  rename follows POSIX: it takes the place of an empty directory *)
(* and fails on anything else that is there.                               *)
(***************************************************************************)
EXTENDS FiniteSets

CONSTANTS Publishers,  \* the processes that publish
          Files,       \* the files of a result, its manifest apart
          None         \* nothing at the target

ASSUME PublishAssumption ==
  /\ None \notin Publishers \union {"empty", "other"}
  /\ Publishers \intersect {"empty", "other"} = {}

VARIABLES target,     \* None, "empty", "other" or the publisher whose result is there
          temporary,  \* the publishers whose temporary directory exists
          content,    \* content[p]: the files in p's directory, temporary or published
          manifest,   \* manifest[p]: the files p's manifest lists
          at          \* at[p]: where p stands in publish_atomically

vars == <<target, temporary, content, manifest, at>>

Ended == {"published", "refused", "failed", "crashed"}

TypeOK ==
  /\ target \in Publishers \union {None, "empty", "other"}
  /\ temporary \subseteq Publishers
  /\ content \in [Publishers -> SUBSET Files]
  /\ manifest \in [Publishers -> SUBSET Files]
  /\ at \in [Publishers -> {"start", "make", "build", "check", "rename", "inspect",
                            "return", "refuse", "fail"} \union Ended]

Init ==
  /\ target = None
  /\ temporary = {}
  /\ content = [p \in Publishers |-> {}]
  /\ manifest = [p \in Publishers |-> {}]
  /\ at = [p \in Publishers |-> "start"]

Goto(p, place) == at' = [at EXCEPT ![p] = place]

----------------------------------------------------------------------------
(* Before the build.                                                       *)

Check(p) ==
  /\ at[p] = "start"
  /\ Goto(p, IF target = None THEN "make" ELSE "refused")
  /\ UNCHANGED <<target, temporary, content, manifest>>

Make(p) ==
  /\ at[p] = "make"
  /\ temporary' = temporary \union {p}
  /\ Goto(p, "build")
  /\ UNCHANGED <<target, content, manifest>>

\* The parent or the temporary directory cannot be made.
FailMake(p) ==
  /\ at[p] = "make"
  /\ Goto(p, "failed")
  /\ UNCHANGED <<target, temporary, content, manifest>>

----------------------------------------------------------------------------
(* The build: write_results writes the manifest last.                      *)

WriteFile(p, file) ==
  /\ at[p] = "build"
  /\ file \notin content[p]
  /\ content' = [content EXCEPT ![p] = @ \union {file}]
  /\ UNCHANGED <<target, temporary, manifest, at>>

\* Fault: the manifest lists itself.
WriteManifestOfItself(p) ==
  /\ at[p] = "build"
  /\ content[p] = Files
  /\ manifest' = [manifest EXCEPT ![p] = content[p] \union {"manifest"}]
  /\ Goto(p, "check")
  /\ UNCHANGED <<target, temporary, content>>

\* Fault: the manifest lists what has been written so far.
WriteManifestEarly(p) ==
  /\ at[p] = "build"
  /\ manifest' = [manifest EXCEPT ![p] = content[p]]
  /\ Goto(p, "check")
  /\ UNCHANGED <<target, temporary, content>>

WriteManifest(p) ==
  /\ at[p] = "build"
  /\ content[p] = Files
  /\ manifest' = [manifest EXCEPT ![p] = content[p]]
  /\ Goto(p, "check")
  /\ UNCHANGED <<target, temporary, content>>

FailBuild(p) ==
  /\ at[p] = "build"
  /\ Goto(p, "fail")
  /\ UNCHANGED <<target, temporary, content, manifest>>

----------------------------------------------------------------------------
(* The rename.                                                             *)

\* Fault: a rival that builds is taken for a result.
RefuseRival(p) ==
  /\ at[p] = "check"
  /\ Goto(p, IF target = None /\ temporary = {p} THEN "rename" ELSE "refuse")
  /\ UNCHANGED <<target, temporary, content, manifest>>

Recheck(p) ==
  /\ at[p] = "check"
  /\ Goto(p, IF target = None THEN "rename" ELSE "refuse")
  /\ UNCHANGED <<target, temporary, content, manifest>>

\* Fault: the rename takes the place of whatever is there.
RenameOver(p) ==
  /\ at[p] = "rename"
  /\ target' = p
  /\ temporary' = temporary \ {p}
  /\ Goto(p, "return")
  /\ UNCHANGED <<content, manifest>>

Rename(p) ==
  /\ at[p] = "rename"
  /\ target \in {None, "empty"}
  /\ target' = p
  /\ temporary' = temporary \ {p}
  /\ Goto(p, "return")
  /\ UNCHANGED <<content, manifest>>

\* The target is occupied, or the file system refuses for another reason.
FailRename(p) ==
  /\ at[p] = "rename"
  /\ Goto(p, "inspect")
  /\ UNCHANGED <<target, temporary, content, manifest>>

\* The reason to give: the target exists, or the rename's own error.
Inspect(p) ==
  /\ at[p] = "inspect"
  /\ Goto(p, IF target = None THEN "fail" ELSE "refuse")
  /\ UNCHANGED <<target, temporary, content, manifest>>

Return(p) ==
  /\ at[p] = "return"
  /\ Goto(p, "published")
  /\ UNCHANGED <<target, temporary, content, manifest>>

\* Fault: a refused publisher's temporary directory stays.
RaiseOnly(p) ==
  /\ at[p] \in {"refuse", "fail"}
  /\ Goto(p, IF at[p] = "refuse" THEN "refused" ELSE "failed")
  /\ UNCHANGED <<target, temporary, content, manifest>>

\* Any exception since the temporary directory was made: it is removed and the exception raised.
Cleanup(p) ==
  /\ at[p] \in {"refuse", "fail"}
  /\ temporary' = temporary \ {p}
  /\ content' = [content EXCEPT ![p] = {}]
  /\ manifest' = [manifest EXCEPT ![p] = {}]
  /\ Goto(p, IF at[p] = "refuse" THEN "refused" ELSE "failed")
  /\ UNCHANGED target

----------------------------------------------------------------------------
(* The environment.                                                        *)

\* A process dies: what it has made stays.
Crash(p) ==
  /\ at[p] \notin Ended
  /\ Goto(p, "crashed")
  /\ UNCHANGED <<target, temporary, content, manifest>>

\* Another program puts something at the target, or fills its empty directory.
Occupy ==
  /\ \/ target = None /\ target' \in {"empty", "other"}
     \/ target = "empty" /\ target' = "other"
  /\ UNCHANGED <<temporary, content, manifest, at>>

Next ==
  \/ \E p \in Publishers :
       \/ Check(p) \/ Make(p) \/ FailMake(p)
       \/ \E file \in Files : WriteFile(p, file)
       \/ WriteManifest(p) \/ FailBuild(p)
       \/ Recheck(p) \/ Rename(p) \/ FailRename(p) \/ Inspect(p) \/ Return(p)
       \/ Cleanup(p)
       \/ Crash(p)
  \/ Occupy

Spec == Init /\ [][Next]_vars

----------------------------------------------------------------------------
(* Properties.                                                             *)

\* Whoever finds a result at the target finds all of it, with a manifest that
\* verify_manifest accepts, whenever it looks and whoever has crashed.
ResultIsWhole ==
  target \in Publishers => content[target] = Files /\ manifest[target] = Files

\* A call that ends without a crash leaves no temporary directory behind, and
\* the published directory is nobody's temporary one.
NothingLeft ==
  /\ \A p \in Publishers : at[p] \in {"published", "refused", "failed"} => p \notin temporary
  /\ target \notin temporary

\* When nothing but the publishers' rivalry can stop them, one call succeeds: the
\* two checks and the rename never refuse everybody, nor let two succeed.
OneSucceeds ==
  /\ Publishers # {}
  /\ target \notin {"empty", "other"}
  /\ \A p \in Publishers : at[p] \in {"published", "refused"}
  => \E p \in Publishers : target = p /\ \A q \in Publishers : at[q] = "published" <=> q = p

\* A result, once published, stands, and only its publisher is told of success.
Promise == INSTANCE WriteOnce WITH
  written <- IF target \in Publishers THEN target ELSE None,
  told <- {p \in Publishers : at[p] = "published"}
PublishedOnce == Promise!Spec
=============================================================================
