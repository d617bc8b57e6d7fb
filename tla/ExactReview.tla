----------------------------- MODULE ExactReview -----------------------------
(***************************************************************************)
(* scripts/materialize-exact-revision-review.py: the calls "materialize",  *)
(* "bind-assets" and "verify" on one review directory.  One call runs at a *)
(* time and may stop anywhere; the pull request, the protected assets and  *)
(* the files of the directory may change at any moment.                    *)
(*                                                                         *)
(* The commits are immutable, so the diff of the expected revisions is one *)
(* value however often it is computed.  A file is written as AtomicReplace *)
(* promises (OwnedFile implements it).  The diff is computed in one step:  *)
(* Git's bounded output is not modelled.                                   *)
(***************************************************************************)
EXTENDS Integers

CONSTANTS
  Assets,     \* the files of ASSET_ARGUMENTS
  Versions,   \* contents an asset may have
  MaxCalls,   \* bound: calls of the program
  MaxChanges  \* bound: changes made from outside

Parameters == MaxCalls \in Nat /\ MaxChanges \in Nat

Unbound  == [a \in Assets |-> 0]
Bindings == [Assets -> Versions \cup {0}]
Modes    == {"materialize", "bind", "verify"}

(* review-metadata.json: whether its revision fields are those of the      *)
(* expected revisions, and the asset digests it records.                   *)
Absent   == [there |-> FALSE, good |-> FALSE, bound |-> FALSE, assets |-> Unbound]
Metadata == [there : BOOLEAN, good : BOOLEAN, bound : BOOLEAN, assets : Bindings]

VARIABLES
  (* Outside.                                                              *)
  live,      \* the pull request is as the arguments say
  diffSize,  \* "empty", "fits" or "large"
  asset,     \* asset[a]: its content
  changes,
  (* The review directory.                                                 *)
  dir, patch, meta,
  stray,     \* a temporary file was left in it
  (* The running or the last call.                                         *)
  mode, pc, calls,
  outcome,   \* "none", "returned", "raised" or "stopped"
  scratch,   \* its TemporaryDirectory exists
  made,      \* it has created the review directory
  noted,     \* some call has added a failed clean-up to its error
  seen,      \* the metadata it has read
  read,      \* the assets it has read
  compared,  \* the patch it has compared
  current    \* the pull request was read as expected after the diff

outside   == <<live, diffSize, asset, changes>>
directory == <<dir, patch, meta, stray>>
memory    == <<seen, read, compared, current>>
status    == <<outcome, scratch, made, noted>>
vars      == <<outside, directory, mode, pc, calls, status, memory>>

TypeOK ==
  /\ live \in BOOLEAN /\ diffSize \in {"empty", "fits", "large"}
  /\ asset \in [Assets -> Versions] /\ changes \in 0..MaxChanges
  /\ dir \in BOOLEAN /\ patch \in {"absent", "diff", "altered"}
  /\ meta \in Metadata /\ stray \in BOOLEAN
  /\ ~dir => patch = "absent" /\ meta = Absent /\ ~stray
  /\ mode \in Modes /\ calls \in 0..MaxCalls
  /\ pc \in {"idle", "input", "live", "diff", "live_again", "mkdir", "patch",
             "metadata", "unlink_metadata", "unlink_patch", "rmdir", "assets",
             "rewrite", "compare", "leave", "compare_metadata"}
  /\ outcome \in {"none", "returned", "raised", "stopped"}
  /\ scratch \in BOOLEAN /\ made \in BOOLEAN /\ noted \in BOOLEAN
  /\ seen \in Metadata /\ read \in Bindings
  /\ compared \in {"absent", "diff", "altered"} /\ current \in BOOLEAN

Init ==
  /\ live \in BOOLEAN /\ diffSize \in {"empty", "fits", "large"}
  /\ asset \in [Assets -> Versions] /\ changes = 0
  /\ dir = FALSE /\ patch = "absent" /\ meta = Absent /\ stray = FALSE
  /\ mode = "materialize" /\ pc = "idle" /\ calls = 0 /\ outcome = "none"
  /\ scratch = FALSE /\ made = FALSE /\ noted = FALSE
  /\ seen = Absent /\ read = Unbound /\ compared = "absent" /\ current = FALSE

-----------------------------------------------------------------------------
(* Outside.                                                                *)

Change ==
  /\ changes < MaxChanges /\ changes' = changes + 1
  /\ \/ live' = ~live /\ UNCHANGED <<asset, patch, meta>>
     \/ \E a \in Assets, v \in Versions :
          asset' = [asset EXCEPT ![a] = v] /\ UNCHANGED <<live, patch, meta>>
     \/ patch # "absent" /\ patch' = "altered" /\ UNCHANGED <<live, asset, meta>>
     \/ meta.there /\ meta' = [meta EXCEPT !.good = FALSE] /\ UNCHANGED <<live, asset, patch>>
  /\ UNCHANGED <<diffSize, dir, stray, mode, pc, calls, status, memory>>

-----------------------------------------------------------------------------
(* The end of a call.                                                      *)

End(result) == pc' = "idle" /\ outcome' = result

(* An exception inside the with statement still removes the scratch        *)
(* directory.                                                              *)
Raise == IF scratch THEN pc' = "leave" /\ outcome' = "raised" ELSE End("raised")

Stop ==
  /\ pc # "idle"
  /\ End("stopped")
  /\ UNCHANGED <<outside, directory, mode, calls, scratch, made, noted, memory>>

Call ==
  /\ pc = "idle" /\ calls < MaxCalls /\ calls' = calls + 1
  /\ mode' \in Modes /\ pc' = "input"
  /\ outcome' = "none" /\ scratch' = FALSE /\ made' = FALSE
  /\ seen' = Absent /\ read' = Unbound /\ compared' = "absent" /\ current' = FALSE
  /\ UNCHANGED <<outside, directory, noted>>

(* TemporaryDirectory.__exit__; an error in it is an uncaught exception.   *)
LeaveScratch ==
  /\ pc = "leave"
  /\ \/ /\ scratch' = FALSE
        /\ IF mode = "verify" /\ outcome = "none"
           THEN pc' = "compare_metadata" /\ UNCHANGED outcome
           ELSE End(IF outcome = "none" THEN "returned" ELSE outcome)
     \/ End("raised") /\ UNCHANGED scratch
  /\ UNCHANGED <<outside, directory, mode, calls, made, noted, memory>>

-----------------------------------------------------------------------------
(* What a call looks at before it starts work.  verify is particular about *)
(* the keys, bind-assets refuses any binding.                              *)

InputAccepted ==
  /\ mode = "materialize" => ~dir
  /\ mode = "bind"   => meta.there /\ ~meta.bound
  /\ mode = "verify" => patch # "absent" /\ meta.there /\ meta.bound

Input ==
  /\ pc = "input"
  /\ \/ /\ InputAccepted
        /\ seen' = IF mode = "materialize" THEN Absent ELSE meta
        /\ scratch' = (mode # "bind")
        /\ pc' = IF mode = "bind" THEN "assets" ELSE "live"
        /\ UNCHANGED outcome
     \/ Raise /\ UNCHANGED <<seen, scratch>>
  /\ UNCHANGED <<outside, directory, mode, calls, made, noted, read, compared, current>>

-----------------------------------------------------------------------------
(* materialize, for its own sake or inside verify.                         *)

Read(here, there) ==
  /\ pc = here
  /\ \/ live /\ pc' = there /\ current' = (here = "live_again") /\ UNCHANGED outcome
     \/ Raise /\ UNCHANGED current
  /\ UNCHANGED <<outside, directory, mode, calls, scratch, made, noted, seen, read, compared>>

ReadLive == Read("live", "diff")

ReadLiveAgain == Read("live_again", IF mode = "verify" THEN "assets" ELSE "mkdir")

(* init, fetch, rev-parse, merge-base, merge-tree, cat-file and diff.      *)
ComputeDiff ==
  /\ pc = "diff"
  /\ \/ diffSize = "fits" /\ pc' = "live_again" /\ UNCHANGED outcome
     \/ Raise
  /\ UNCHANGED <<outside, directory, mode, calls, scratch, made, noted, memory>>

MakeDirectory ==
  /\ pc = "mkdir"
  /\ \/ ~dir /\ dir' = TRUE /\ made' = TRUE /\ pc' = "patch" /\ UNCHANGED outcome
     \/ Raise /\ UNCHANGED <<dir, made>>
  /\ UNCHANGED <<outside, patch, meta, stray, mode, calls, scratch, noted, memory>>

(* write_owned_regular_file: done, or an exception before or after the     *)
(* name was moved; a temporary file left behind is noted.                  *)
WriteOutcome(ok, committed, left) ==
  /\ ok => committed /\ ~left
  /\ committed => ~left
  /\ stray' = (stray \/ left) /\ noted' = (noted \/ left)

WritePatch ==
  /\ pc = "patch"
  /\ \E ok, committed, left \in BOOLEAN :
       /\ WriteOutcome(ok, committed, left)
       /\ patch' = IF committed THEN "diff" ELSE patch
       /\ pc' = IF ok THEN "metadata" ELSE "unlink_metadata"
  /\ UNCHANGED <<outside, dir, meta, mode, calls, outcome, scratch, made, memory>>

Plain == [there |-> TRUE, good |-> TRUE, bound |-> FALSE, assets |-> Unbound]

WriteMetadata ==
  /\ pc = "metadata"
  /\ \E ok, committed, left \in BOOLEAN :
       /\ WriteOutcome(ok, committed, left)
       /\ meta' = IF committed THEN Plain ELSE meta
       /\ pc' = IF ok THEN "leave" ELSE "unlink_metadata"
  /\ UNCHANGED <<outside, dir, patch, mode, calls, outcome, scratch, made, memory>>

(* Seeded defect: the patch goes first.                                    *)
UnlinkPatchFirst ==
  /\ pc = "unlink_metadata"
  /\ \/ patch' = "absent" /\ UNCHANGED noted
     \/ noted' = TRUE /\ UNCHANGED patch
  /\ pc' = "unlink_patch"
  /\ UNCHANGED <<outside, dir, meta, stray, mode, calls, outcome, scratch, made, memory>>

(* The metadata goes first; an unlink that fails is noted and passed over. *)
UnlinkMetadata ==
  /\ pc = "unlink_metadata"
  /\ \/ meta' = Absent /\ UNCHANGED noted
     \/ noted' = TRUE /\ UNCHANGED meta
  /\ pc' = "unlink_patch"
  /\ UNCHANGED <<outside, dir, patch, stray, mode, calls, outcome, scratch, made, memory>>

UnlinkPatch ==
  /\ pc = "unlink_patch"
  /\ \/ patch' = "absent" /\ UNCHANGED noted
     \/ noted' = TRUE /\ UNCHANGED patch
  /\ pc' = "rmdir"
  /\ UNCHANGED <<outside, dir, meta, stray, mode, calls, outcome, scratch, made, memory>>

Empty == patch = "absent" /\ ~meta.there /\ ~stray

RemoveDirectory ==
  /\ pc = "rmdir"
  /\ \/ Empty /\ dir' = FALSE /\ UNCHANGED noted
     \/ noted' = TRUE /\ UNCHANGED dir
  /\ Raise
  /\ UNCHANGED <<outside, patch, meta, stray, mode, calls, scratch, made, memory>>

-----------------------------------------------------------------------------
(* bind_protected_assets: the assets are read one after the other.         *)

BindAsset(a) ==
  /\ pc = "assets" /\ read[a] = 0
  /\ \/ /\ read' = [read EXCEPT ![a] = asset[a]]
        /\ pc' = IF \E b \in Assets : read'[b] = 0 THEN "assets"
                 ELSE IF mode = "bind" THEN "rewrite" ELSE "compare"
        /\ UNCHANGED outcome
     \/ Raise /\ UNCHANGED read
  /\ UNCHANGED <<outside, directory, mode, calls, scratch, made, noted, seen, compared, current>>

Rewrite ==
  /\ pc = "rewrite"
  /\ \E ok, committed, left \in BOOLEAN :
       /\ WriteOutcome(ok, committed, left)
       /\ meta' = IF committed THEN [seen EXCEPT !.bound = TRUE, !.assets = read] ELSE meta
       /\ End(IF ok THEN "returned" ELSE "raised")
  /\ UNCHANGED <<outside, dir, patch, mode, calls, scratch, made, memory>>

-----------------------------------------------------------------------------
(* The comparisons of verify.  The patch on disk is read here, after the   *)
(* diff was computed again.                                                *)

ComparePatch ==
  /\ pc = "compare"
  /\ compared' = patch
  /\ \/ patch = "diff" /\ pc' = "leave" /\ UNCHANGED outcome
     \/ Raise
  /\ UNCHANGED <<outside, directory, mode, calls, scratch, made, noted, seen, read, current>>

(* Seeded defect: the asset digests are not among the compared keys.       *)
SameRevisions == seen.good

SameMetadata == seen.good /\ seen.assets = read

CompareMetadata ==
  /\ pc = "compare_metadata"
  /\ End(IF SameMetadata THEN "returned" ELSE "raised")
  /\ UNCHANGED <<outside, directory, mode, calls, scratch, made, noted, memory>>

Program ==
  \/ Input \/ ReadLive \/ ComputeDiff \/ ReadLiveAgain
  \/ MakeDirectory \/ WritePatch \/ WriteMetadata
  \/ UnlinkMetadata \/ UnlinkPatch \/ RemoveDirectory
  \/ \E a \in Assets : BindAsset(a)
  \/ Rewrite \/ ComparePatch \/ CompareMetadata \/ LeaveScratch

Next == Call \/ Program \/ Stop \/ Change

Spec == Init /\ [][Next]_vars

-----------------------------------------------------------------------------
(* Properties.                                                             *)

Done(m) == mode = m /\ outcome = "returned"

(* A materialize or verify that succeeds has seen the pull request open at *)
(* the expected revisions after it had computed their diff, whatever the   *)
(* pull request did while Git worked.  A verify has moreover compared the  *)
(* patch with the diff, and the metadata it read names the expected        *)
(* revisions and the very assets it read: an asset changed since           *)
(* bind-assets is found.                                                   *)
SuccessIsBound ==
  /\ TypeOK
  /\ Done("materialize") => current /\ diffSize = "fits"
  /\ Done("verify") =>
       /\ current /\ diffSize = "fits"
       /\ compared = "diff" /\ seen.good /\ seen.bound /\ seen.assets = read

(* A materialize that fails leaves no directory of its own behind without  *)
(* saying so, unless all of it was in place and only the scratch directory *)
(* could not be removed.  A retry therefore finds the way free or the      *)
(* report tells why not.  Nor does metadata ever stand in the directory    *)
(* without its patch, not even when the call was stopped in the middle of  *)
(* its work or its clean-up; the exception is a clean-up that could not    *)
(* unlink it and says so.                                                  *)
NoPartialWorkspace ==
  /\ mode = "materialize" /\ outcome = "raised" /\ made /\ pc = "idle" /\ ~noted =>
       (dir => patch # "absent" /\ meta.there)
  /\ meta.there /\ patch = "absent" => noted

=============================================================================
